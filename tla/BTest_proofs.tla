---------------------------- MODULE BTest_proofs ----------------------------
(***************************************************************************)
(* Proofs about the checker of the data lab, for every table of puzzles,   *)
(* every TEST_RANGE and every width of the floats: its verdicts mean what  *)
(* gen_vals promises, its arrays are large enough, its alarm ends the      *)
(* puzzle it was set for, and the solved puzzles are right wherever their  *)
(* result is in range.                                                     *)
(*                                                                         *)
(* The verdicts rest on facts that no step of the program shows: the       *)
(* arrays of gen_vals hold every argument it promises (IntValsFacts,       *)
(* FloatValsFacts), and the nested loops leave no combination of them out  *)
(* (EveryCombination).  ScaleErrs and ToIntErrs say at which floats the    *)
(* two solutions err, and SamplesTame that gen_vals tries none of those.   *)
(***************************************************************************)
EXTENDS BTest, SetFacts, SequenceTheorems

-----------------------------------------------------------------------------
(* Sequences.                                                              *)

LEMMA AsSequence ==
  ASSUME NEW S, NEW m \in Nat, NEW f \in [1 .. m -> S]
  PROVE  f \in Seq(S) /\ Len(f) = m
<1>1. f \in Seq(S)
  BY SeqDef
<1>2. DOMAIN f = 1 .. Len(f) /\ Len(f) \in Nat /\ DOMAIN f = 1 .. m
  BY <1>1, LenProperties
<1> QED
  BY <1>1, <1>2

LEMMA ConcatFacts ==
  ASSUME NEW S, NEW s1 \in Seq(S), NEW s2 \in Seq(S)
  PROVE  /\ s1 \o s2 \in Seq(S)
         /\ Len(s1 \o s2) = Len(s1) + Len(s2) /\ Len(s1) \in Nat /\ Len(s2) \in Nat
         /\ Range(s1 \o s2) = Range(s1) \cup Range(s2)
<1> DEFINE u == s1 \o s2
<1>1. /\ u \in Seq(S) /\ Len(u) = Len(s1) + Len(s2)
      /\ \A k \in 1 .. Len(s1) + Len(s2) : u[k] = IF k <= Len(s1) THEN s1[k] ELSE s2[k - Len(s1)]
  BY ConcatProperties
<1>2. /\ DOMAIN s1 = 1 .. Len(s1) /\ DOMAIN s2 = 1 .. Len(s2) /\ DOMAIN u = 1 .. Len(u)
      /\ Len(s1) \in Nat /\ Len(s2) \in Nat
  BY <1>1, LenProperties
<1> HIDE DEF u
<1>3. \A k \in DOMAIN u : u[k] \in Range(s1) \cup Range(s2)
  <2> SUFFICES ASSUME NEW k \in DOMAIN u PROVE u[k] \in Range(s1) \cup Range(s2)
    OBVIOUS
  <2>1. \/ k \in DOMAIN s1 /\ u[k] = s1[k]
        \/ k - Len(s1) \in DOMAIN s2 /\ u[k] = s2[k - Len(s1)]
    BY <1>1, <1>2
  <2> QED BY <2>1 DEF Range
<1>4. \A k \in DOMAIN s1 : k \in DOMAIN u /\ u[k] = s1[k]
  BY <1>1, <1>2
<1>5. \A k \in DOMAIN s2 : Len(s1) + k \in DOMAIN u /\ u[Len(s1) + k] = s2[k]
  BY <1>1, <1>2
<1>6. Range(u) = Range(s1) \cup Range(s2)
  BY <1>3, <1>4, <1>5 DEF Range
<1> QED
  BY <1>1, <1>2, <1>6 DEF u

LEMMA ConcatFour ==
  ASSUME NEW S, NEW s1 \in Seq(S), NEW s2 \in Seq(S), NEW s3 \in Seq(S), NEW s4 \in Seq(S)
  PROVE  LET s == ((s1 \o s2) \o s3) \o s4
         IN  /\ s \in Seq(S) /\ Len(s) = Len(s1) + Len(s2) + Len(s3) + Len(s4)
             /\ Range(s) = Range(s1) \cup Range(s2) \cup Range(s3) \cup Range(s4)
<1> DEFINE u == s1 \o s2
           v == u \o s3
           w == v \o s4
<1>1. \A x, y \in Seq(S) : /\ x \o y \in Seq(S) /\ Len(x \o y) = Len(x) + Len(y)
                           /\ Range(x \o y) = Range(x) \cup Range(y)
  BY ConcatFacts
<1>2. /\ u \in Seq(S) /\ Len(u) = Len(s1) + Len(s2) /\ Range(u) = Range(s1) \cup Range(s2)
  BY <1>1
<1> HIDE DEF u
<1>3. /\ v \in Seq(S) /\ Len(v) = Len(u) + Len(s3) /\ Range(v) = Range(u) \cup Range(s3)
  BY <1>1, <1>2
<1> HIDE DEF v
<1>4. /\ w \in Seq(S) /\ Len(w) = Len(v) + Len(s4) /\ Range(w) = Range(v) \cup Range(s4)
  BY <1>1, <1>3
<1> HIDE DEF w
<1>5. /\ w \in Seq(S) /\ Len(w) = Len(s1) + Len(s2) + Len(s3) + Len(s4)
      /\ Range(w) = Range(s1) \cup Range(s2) \cup Range(s3) \cup Range(s4)
  BY <1>2, <1>3, <1>4
<1> QED
  BY <1>5 DEF w, v, u

\* The first k sequences of ss, one after the other.
IsFlat(flat, ss, k) ==
    flat = [j \in 1 .. k |-> IF j = 1 THEN ss[j] ELSE flat[j - 1] \o ss[j]]

LEMMA FlatExists ==
  ASSUME NEW ss, NEW k \in Nat
  PROVE  \E flat : IsFlat(flat, ss, k)
<1> DEFINE S == {j \in 0 .. k : \E flat : IsFlat(flat, ss, j)}
<1>1. 0 \in S
  <2>1. IsFlat([j \in 1 .. 0 |-> ss[j]], ss, 0)
    BY DEF IsFlat
  <2> QED BY <2>1
<1>2. ASSUME NEW j \in 0 .. k - 1, j \in S
      PROVE  j + 1 \in S
  <2>1. PICK f : IsFlat(f, ss, j)
    BY <1>2
  <2> DEFINE last == IF j = 0 THEN ss[1] ELSE f[j] \o ss[j + 1]
             v == [x \in 1 .. j + 1 |-> IF x = j + 1 THEN last ELSE f[x]]
  <2>2. \A x \in 1 .. j : f[x] = IF x = 1 THEN ss[x] ELSE f[x - 1] \o ss[x]
    BY <2>1 DEF IsFlat
  <2>3. ASSUME NEW x \in 1 .. j + 1 PROVE v[x] = IF x = 1 THEN ss[x] ELSE v[x - 1] \o ss[x]
    <3>1. CASE x = j + 1
      <4>1. v[x] = last /\ j \in Nat
        BY <1>2, <3>1
      <4>2. x # 1 => j # 0 /\ v[x - 1] = f[j]
        BY <1>2, <3>1
      <4>3. x = 1 <=> j = 0
        BY <1>2, <3>1
      <4> QED BY <3>1, <4>1, <4>2, <4>3
    <3>2. CASE x # j + 1
      <4>1. x \in 1 .. j /\ v[x] = f[x] /\ (x # 1 => v[x - 1] = f[x - 1])
        BY <1>2, <3>2
      <4> QED BY <2>2, <4>1
    <3> QED BY <3>1, <3>2
  <2>4. v = [x \in 1 .. j + 1 |-> v[x]]
    OBVIOUS
  <2> HIDE DEF v
  <2>5. IsFlat(v, ss, j + 1)
    BY <2>3, <2>4 DEF IsFlat
  <2> QED BY <1>2, <2>5
<1> HIDE DEF S
<1>3. k \in S
  BY <1>1, <1>2, UpTo
<1> QED
  BY <1>3 DEF S

\* FlattenSeq has the elements of its parts and no others, and is as long as
\* they are together.
LEMMA FlattenFacts ==
  ASSUME NEW S, NEW k \in Nat \ {0}, NEW ss \in [1 .. k -> Seq(S)],
         NEW b \in Nat, \A j \in 1 .. k : Len(ss[j]) <= b
  PROVE  /\ FlattenSeq(ss) \in Seq(S)
         /\ Len(FlattenSeq(ss)) <= b * k
         /\ \A j \in 1 .. k : Range(ss[j]) \subseteq Range(FlattenSeq(ss))
         /\ \A x \in Range(FlattenSeq(ss)) : \E j \in 1 .. k : x \in Range(ss[j])
<1>1. Len(ss) = k
  <2>1. ss \in Seq(Seq(S))
    BY SeqDef
  <2>2. DOMAIN ss = 1 .. Len(ss) /\ Len(ss) \in Nat
    BY <2>1, LenProperties
  <2> QED BY <2>2
<1> DEFINE f == CHOOSE flat : IsFlat(flat, ss, k)
<1>2. FlattenSeq(ss) = f[k]
  BY <1>1 DEF FlattenSeq, IsFlat
<1>3. IsFlat(f, ss, k)
  BY FlatExists
<1> HIDE DEF f
<1>4. \A j \in 1 .. k : f[j] = IF j = 1 THEN ss[j] ELSE f[j - 1] \o ss[j]
  BY <1>3 DEF IsFlat
<1> DEFINE Good(j) == /\ f[j] \in Seq(S) /\ Len(f[j]) \in Nat /\ Len(f[j]) <= b * j
                      /\ \A x \in 1 .. j : Range(ss[x]) \subseteq Range(f[j])
                      /\ \A y \in Range(f[j]) : \E x \in 1 .. j : y \in Range(ss[x])
           T == {j \in 0 .. k : j = 0 \/ Good(j)}
<1> HIDE DEF Good
<1>5. 0 \in T
  OBVIOUS
<1>6. ASSUME NEW j \in 0 .. k - 1, j \in T PROVE j + 1 \in T
  <2>1. j + 1 \in 1 .. k /\ j \in Nat
    BY <1>6
  <2>2. ss[j + 1] \in Seq(S) /\ Len(ss[j + 1]) <= b /\ Len(ss[j + 1]) \in Nat
    BY <2>1, LenProperties
  <2>3. CASE j = 0
    <3>1. f[1] = ss[1]
      BY <1>4, <2>1, <2>3
    <3>2. b * 1 = b /\ \A x \in 1 .. 1 : x = 1
      OBVIOUS
    <3>3. Good(1)
      BY <2>2, <2>3, <3>1, <3>2 DEF Good
    <3> QED BY <2>1, <2>3, <3>3
  <2>4. CASE j # 0
    <3>1. Good(j)
      BY <1>6, <2>4
    <3>2. f[j + 1] = f[j] \o ss[j + 1]
      <4>1. j + 1 # 1 /\ (j + 1) - 1 = j
        BY <2>1, <2>4
      <4>2. f[j + 1] = IF j + 1 = 1 THEN ss[j + 1] ELSE f[(j + 1) - 1] \o ss[j + 1]
        BY <1>4, <2>1
      <4> QED BY <4>1, <4>2
    <3>3. /\ f[j + 1] \in Seq(S) /\ Len(f[j + 1]) = Len(f[j]) + Len(ss[j + 1])
          /\ Range(f[j + 1]) = Range(f[j]) \cup Range(ss[j + 1])
      BY <2>2, <3>1, <3>2, ConcatFacts DEF Good
    <3>4. Len(f[j + 1]) \in Nat /\ Len(f[j + 1]) <= b * (j + 1)
      <4>1. b * (j + 1) = (b * j) + b /\ b * j \in Nat
        BY <2>1
      <4>2. Len(f[j]) \in Nat /\ Len(f[j]) <= b * j
        BY <3>1 DEF Good
      <4>3. ASSUME NEW x \in Nat, NEW y \in Nat, NEW z \in Nat, x <= z, y <= b
            PROVE  x + y \in Nat /\ x + y <= z + b
        BY <4>3
      <4>4. Len(f[j]) + Len(ss[j + 1]) \in Nat /\ Len(f[j]) + Len(ss[j + 1]) <= b * j + b
        BY <2>2, <4>1, <4>2, <4>3
      <4> QED BY <3>3, <4>1, <4>4
    <3>5. \A x \in 1 .. j + 1 : x \in 1 .. j \/ x = j + 1
      BY <2>1
    <3>6. \A x \in 1 .. j + 1 : Range(ss[x]) \subseteq Range(f[j + 1])
      BY <3>1, <3>3, <3>5 DEF Good
    <3>7. \A y \in Range(f[j + 1]) : \E x \in 1 .. j + 1 : y \in Range(ss[x])
      <4>1. \A x \in 1 .. j : x \in 1 .. j + 1
        BY <2>1
      <4> QED BY <2>1, <3>1, <3>3, <4>1 DEF Good
    <3>8. Good(j + 1)
      BY <3>3, <3>4, <3>6, <3>7 DEF Good
    <3> QED BY <2>1, <3>8
  <2> QED BY <2>3, <2>4
<1> HIDE DEF T
<1>7. k \in T
  <2>1. k \in Nat /\ 0 \in T /\ \A j \in 0 .. k - 1 : j \in T => j + 1 \in T
    BY <1>5, <1>6
  <2>2. \A j \in 0 .. k : j \in T
    BY <2>1, UpTo
  <2>3. k \in 0 .. k
    BY <2>1
  <2> QED BY <2>2, <2>3
<1> QED
  BY <1>2, <1>7 DEF T, Good

-----------------------------------------------------------------------------
(* Numbers.                                                                *)

\* The position of a digit: the numbers below b * c are the pairs below b and c.
LEMMA Digits ==
  ASSUME NEW b \in Nat \ {0}, NEW c \in Nat \ {0}, NEW x \in 0 .. b - 1, NEW y \in 0 .. c - 1
  PROVE  x * c + y \in 0 .. b * c - 1
<1>1. b - x - 1 \in Nat /\ b * c = x * c + c + (b - x - 1) * c
  OBVIOUS
<1>2. (b - x - 1) * c \in Nat /\ x * c \in Nat /\ b * c \in Nat
  BY <1>1
<1> QED
  BY <1>1, <1>2

LEMMA OneDigit ==
  ASSUME NEW c \in Nat \ {0}, NEW x \in 0 .. c - 1
  PROVE  \E z \in 0 .. c - 1 : (z \div 1) % c = x
<1>1. x \div 1 = x /\ x % c = x
  OBVIOUS
<1> QED
  BY <1>1

\* z counts through b times c combinations, and is at the x-th and the y-th.
TwoPlaces(z, b, c, x, y) ==
    z \in 0 .. b * c - 1 /\ (z \div c) % b = x /\ (z \div 1) % c = y

LEMMA TwoDigits ==
  ASSUME NEW b \in Nat \ {0}, NEW c \in Nat \ {0}, NEW x \in 0 .. b - 1, NEW y \in 0 .. c - 1
  PROVE  \E z : TwoPlaces(z, b, c, x, y)
<1> DEFINE z == x * c + y
<1>1. z \in 0 .. b * c - 1
  BY Digits
<1>2. x \in Nat
  OBVIOUS
<1>3. z \in Nat /\ z \div c = x /\ z % c = y
  BY <1>2, DivMod
<1> HIDE DEF z
<1>4. z \div 1 = z /\ x % b = x
  BY <1>3
<1>5. TwoPlaces(z, b, c, x, y)
  BY <1>1, <1>3, <1>4 DEF TwoPlaces
<1> QED
  BY <1>5

ThreePlaces(z, b, c, d, x, y, w) ==
    /\ z \in 0 .. (b * c) * d - 1
    /\ (z \div (c * d)) % b = x /\ (z \div d) % c = y /\ (z \div 1) % d = w

LEMMA ThreeDigits ==
  ASSUME NEW b \in Nat \ {0}, NEW c \in Nat \ {0}, NEW d \in Nat \ {0},
         NEW x \in 0 .. b - 1, NEW y \in 0 .. c - 1, NEW w \in 0 .. d - 1
  PROVE  \E z : ThreePlaces(z, b, c, d, x, y, w)
<1> DEFINE u == x * c + y
           z == u * d + w
           r == y * d + w
           e == c * d
           a == b * c
<1>1. u \in 0 .. a - 1 /\ r \in 0 .. e - 1
  BY Digits
<1>2. a \in Nat \ {0} /\ e \in Nat \ {0} /\ x \in Nat /\ y \in Nat /\ w \in Nat
  OBVIOUS
<1>3. u \in Nat /\ u \div c = x /\ u % c = y
  BY <1>2, DivMod
<1>4. z = x * e + r
  <2>1. \A p, q, i1, i2, i3 \in Nat :
            (p * q + i1) * i2 + i3 = p * (q * i2) + (i1 * i2 + i3)
    OBVIOUS
  <2> QED BY <1>2, <2>1
<1> HIDE DEF u, r, e, a
<1>5. z \in 0 .. a * d - 1
  BY <1>1, <1>2, Digits
<1>6. z \in Nat /\ z \div d = u /\ z % d = w
  BY <1>3, DivMod
<1> HIDE DEF z
<1>7. z \div e = x
  BY <1>1, <1>2, <1>4, DivMod
<1>8. z \div 1 = z /\ x % b = x
  BY <1>6
<1>9. z \in 0 .. (b * c) * d - 1 /\ z \div (c * d) = x
  BY <1>5, <1>7 DEF a, e
<1>10. ThreePlaces(z, b, c, d, x, y, w)
  BY <1>3, <1>6, <1>8, <1>9 DEF ThreePlaces
<1> QED
  BY <1>10

-----------------------------------------------------------------------------
\* The function that Product picks from.
IsUpTo(f, counts) ==
    f = [k \in 0 .. Len(counts) |-> IF k = 0 THEN 1 ELSE f[k - 1] * counts[k]]

LEMMA UpToExists ==
  ASSUME NEW counts, Len(counts) \in {0, 1, 2, 3}
  PROVE  \E f : IsUpTo(f, counts)
<1> DEFINE c(k) == counts[k]
           f == [k \in 0 .. Len(counts) |->
                    IF k = 0 THEN 1
                    ELSE IF k = 1 THEN 1 * counts[1]
                    ELSE IF k = 2 THEN (1 * counts[1]) * counts[2]
                    ELSE ((1 * counts[1]) * counts[2]) * counts[3]]
<1>1. ASSUME NEW k \in 0 .. Len(counts)
      PROVE  f[k] = IF k = 0 THEN 1 ELSE f[k - 1] * counts[k]
  <2>1. k = 0 \/ k = 1 \/ k = 2 \/ k = 3
    <3>1. \A m \in {0, 1, 2, 3} : \A x \in 0 .. m : x = 0 \/ x = 1 \/ x = 2 \/ x = 3
      OBVIOUS
    <3> QED BY <3>1
  <2>2. CASE k = 0 BY <2>2
  <2>3. CASE k = 1 BY <2>3
  <2>4. CASE k = 2 BY <2>4
  <2>5. CASE k = 3 BY <2>5
  <2> QED BY <2>1, <2>2, <2>3, <2>4, <2>5
<1>2. f = [k \in 0 .. Len(counts) |-> f[k]]
  OBVIOUS
<1> HIDE DEF f
<1>3. IsUpTo(f, counts)
  BY <1>1, <1>2 DEF IsUpTo
<1> QED
  BY <1>3

LEMMA ProductFacts ==
  ASSUME NEW counts \in Seq(Nat \ {0}), Len(counts) <= 3
  PROVE  /\ Product(counts) \in Nat \ {0}
         /\ Len(counts) = 0 => Product(counts) = 1
         /\ Len(counts) = 1 => Product(counts) = counts[1]
         /\ Len(counts) = 2 => Product(counts) = counts[1] * counts[2]
         /\ Len(counts) = 3 => Product(counts) = (counts[1] * counts[2]) * counts[3]
<1> DEFINE f == CHOOSE g : IsUpTo(g, counts)
<1>1. Product(counts) = f[Len(counts)]
  BY DEF Product, IsUpTo
<1>2. /\ Len(counts) \in Nat /\ \A k \in 1 .. Len(counts) : counts[k] \in Nat \ {0}
      /\ Len(counts) = 0 \/ Len(counts) = 1 \/ Len(counts) = 2 \/ Len(counts) = 3
  <2>1. Len(counts) \in Nat /\ \A k \in 1 .. Len(counts) : counts[k] \in Nat \ {0}
    BY LenProperties
  <2>2. \A m \in Nat : m <= 3 => m = 0 \/ m = 1 \/ m = 2 \/ m = 3
    OBVIOUS
  <2> QED BY <2>1, <2>2
<1>3. IsUpTo(f, counts)
  <2>1. Len(counts) \in {0, 1, 2, 3}
    BY <1>2
  <2> QED BY <2>1, UpToExists
<1> HIDE DEF f
<1>4. \A k \in 0 .. Len(counts) : f[k] = IF k = 0 THEN 1 ELSE f[k - 1] * counts[k]
  BY <1>3 DEF IsUpTo
<1>5. f[0] = 1
  BY <1>2, <1>4
<1>6. Len(counts) >= 1 => f[1] = counts[1] /\ counts[1] \in Nat \ {0}
  <2> SUFFICES ASSUME Len(counts) >= 1 PROVE f[1] = counts[1] /\ counts[1] \in Nat \ {0}
    OBVIOUS
  <2>1. 1 \in 1 .. Len(counts) /\ 1 \in 0 .. Len(counts)
    BY <1>2
  <2>2. f[1] = f[0] * counts[1] /\ counts[1] \in Nat \ {0}
    BY <1>2, <1>4, <2>1
  <2> QED BY <1>5, <2>2
<1>7. Len(counts) >= 2 =>
          f[2] = counts[1] * counts[2] /\ f[2] \in Nat \ {0} /\ counts[2] \in Nat \ {0}
  <2> SUFFICES ASSUME Len(counts) >= 2
               PROVE  f[2] = counts[1] * counts[2] /\ f[2] \in Nat \ {0} /\ counts[2] \in Nat \ {0}
    OBVIOUS
  <2>1. 2 \in 1 .. Len(counts) /\ 2 \in 0 .. Len(counts)
    BY <1>2
  <2>2. f[2] = f[1] * counts[2] /\ counts[2] \in Nat \ {0}
    BY <1>2, <1>4, <2>1
  <2>3. \A x, y \in Nat \ {0} : x * y \in Nat \ {0}
    OBVIOUS
  <2> QED BY <1>2, <1>6, <2>2, <2>3
<1>8. Len(counts) = 3 => f[3] = (counts[1] * counts[2]) * counts[3] /\ f[3] \in Nat \ {0}
  <2> SUFFICES ASSUME Len(counts) = 3
               PROVE  f[3] = (counts[1] * counts[2]) * counts[3] /\ f[3] \in Nat \ {0}
    OBVIOUS
  <2>1. 3 \in 1 .. Len(counts) /\ 3 \in 0 .. Len(counts)
    BY <1>2
  <2>2. f[3] = f[2] * counts[3] /\ counts[3] \in Nat \ {0}
    BY <1>2, <1>4, <2>1
  <2>3. \A x, y \in Nat \ {0} : x * y \in Nat \ {0}
    OBVIOUS
  <2> QED BY <1>7, <2>2, <2>3
<1> QED
  BY <1>1, <1>2, <1>5, <1>6, <1>7, <1>8

-----------------------------------------------------------------------------
(* Combinations.                                                           *)

\* Up to three arrays of arguments, none of them empty.
Arrays(m, S) == [1 .. m -> Seq(S) \ {<<>>}]

\* How many combinations there are of the arguments after the k-th.
After(vals, k) == Product(SubSeq(Counts(vals), k + 1, Len(vals)))

LEMMA CountsFacts ==
  ASSUME NEW m \in 0 .. 3, NEW S, NEW vals \in Arrays(m, S)
  PROVE  /\ Len(vals) = m /\ DOMAIN vals = 1 .. m /\ m \in Nat
         /\ Counts(vals) \in Seq(Nat \ {0}) /\ Len(Counts(vals)) = m
         /\ \A k \in 1 .. m : /\ Counts(vals)[k] = Len(vals[k]) /\ Len(vals[k]) \in Nat \ {0}
                              /\ vals[k] \in Seq(S) /\ DOMAIN vals[k] = 1 .. Len(vals[k])
<1>1. m \in Nat /\ DOMAIN vals = 1 .. m
  BY DEF Arrays
<1>2. vals \in Seq(Seq(S))
  BY <1>1, SeqDef DEF Arrays
<1>3. Len(vals) = m
  <2>1. DOMAIN vals = 1 .. Len(vals) /\ Len(vals) \in Nat
    BY <1>2, LenProperties
  <2> QED BY <1>1, <2>1
<1>4. ASSUME NEW k \in 1 .. m
      PROVE  /\ Len(vals[k]) \in Nat \ {0} /\ vals[k] \in Seq(S)
             /\ DOMAIN vals[k] = 1 .. Len(vals[k])
  <2>1. vals[k] \in Seq(S) /\ vals[k] # <<>>
    BY DEF Arrays
  <2> QED BY <2>1, EmptySeq, LenProperties
<1> DEFINE counts == [k \in 1 .. m |-> Len(vals[k])]
<1>5. Counts(vals) = counts
  BY <1>1 DEF Counts
<1>6. counts \in [1 .. m -> Nat \ {0}]
  BY <1>4
<1>7. counts \in Seq(Nat \ {0})
  BY <1>1, <1>6, SeqDef
<1>8. Len(counts) = m
  <2>1. DOMAIN counts = 1 .. Len(counts) /\ Len(counts) \in Nat
    BY <1>7, LenProperties
  <2> QED BY <1>1, <2>1
<1>9. \A k \in 1 .. m : counts[k] = Len(vals[k])
  OBVIOUS
<1> HIDE DEF counts
<1> QED
  BY <1>1, <1>3, <1>4, <1>5, <1>7, <1>8, <1>9

LEMMA AfterFacts ==
  ASSUME NEW m \in 0 .. 3, NEW S, NEW vals \in Arrays(m, S)
  PROVE  /\ \A k \in 1 .. m : After(vals, k) \in Nat \ {0}
         /\ m >= 1 => After(vals, m) = 1
         /\ m >= 2 => After(vals, m - 1) = Len(vals[m])
         /\ m = 3  => After(vals, 1) = Len(vals[2]) * Len(vals[3])
<1> DEFINE counts == Counts(vals)
<1>1. /\ Len(vals) = m /\ m \in Nat /\ counts \in Seq(Nat \ {0}) /\ Len(counts) = m
      /\ \A k \in 1 .. m : counts[k] = Len(vals[k])
  <2>1. /\ Len(vals) = m /\ m \in Nat
        /\ Counts(vals) \in Seq(Nat \ {0}) /\ Len(Counts(vals)) = m
    BY CountsFacts
  <2>2. \A k \in 1 .. m : Counts(vals)[k] = Len(vals[k])
    BY CountsFacts
  <2> QED BY <2>1, <2>2
<1> HIDE DEF counts
<1>2. ASSUME NEW k \in 1 .. m
      PROVE  LET s == SubSeq(counts, k + 1, m)
             IN  /\ After(vals, k) = Product(s)
                 /\ s \in Seq(Nat \ {0}) /\ Len(s) = m - k /\ Len(s) <= 3
                 /\ \A j \in 1 .. m - k : s[j] = Len(vals[k + j])
  <2> DEFINE s == SubSeq(counts, k + 1, m)
  <2>1. k + 1 \in 1 .. m + 1 /\ m \in k .. m /\ k + 1 \in Int /\ m - k \in Nat /\ m - k <= 3
    BY <1>1
  <2>2. After(vals, k) = Product(s)
    BY <1>1 DEF After, counts
  <2>3. /\ s \in Seq(Nat \ {0}) /\ Len(s) = m - k
        /\ \A j \in 1 .. m - k : s[j] = counts[k + j]
    <3>1. k + 1 >= 1 /\ k + 1 <= m + 1 /\ m <= Len(counts)
      BY <1>1, <2>1
    <3> QED BY <1>1, <2>1, <3>1
  <2>4. \A j \in 1 .. m - k : k + j \in 1 .. m
    BY <1>1
  <2> HIDE DEF s
  <2>5. /\ Len(s) <= 3 /\ \A j \in 1 .. m - k : s[j] = Len(vals[k + j])
    BY <1>1, <2>1, <2>3, <2>4
  <2> QED BY <2>2, <2>3, <2>5 DEF s
<1>3. \A k \in 1 .. m : After(vals, k) \in Nat \ {0}
  BY <1>2, ProductFacts
<1>4. m >= 1 => After(vals, m) = 1
  <2> SUFFICES ASSUME m >= 1 PROVE After(vals, m) = 1
    OBVIOUS
  <2>1. m \in 1 .. m /\ m - m = 0
    BY <1>1
  <2> QED BY <1>2, <2>1, ProductFacts
<1>5. m >= 2 => After(vals, m - 1) = Len(vals[m])
  <2> SUFFICES ASSUME m >= 2 PROVE After(vals, m - 1) = Len(vals[m])
    OBVIOUS
  <2>1. m - 1 \in 1 .. m /\ m - (m - 1) = 1 /\ 1 \in 1 .. 1 /\ (m - 1) + 1 = m
    BY <1>1
  <2> QED BY <1>2, <2>1, ProductFacts
<1>6. m = 3 => After(vals, 1) = Len(vals[2]) * Len(vals[3])
  <2> SUFFICES ASSUME m = 3 PROVE After(vals, 1) = Len(vals[2]) * Len(vals[3])
    OBVIOUS
  <2> DEFINE s == SubSeq(counts, 1 + 1, m)
  <2>1. 1 \in 1 .. m /\ m - 1 = 2 /\ 1 \in 1 .. 2 /\ 2 \in 1 .. 2 /\ 1 + 1 = 2 /\ 1 + 2 = 3
    BY <1>1
  <2>2. /\ After(vals, 1) = Product(s) /\ s \in Seq(Nat \ {0}) /\ Len(s) = m - 1
        /\ \A j \in 1 .. m - 1 : s[j] = Len(vals[1 + j])
    BY <1>2, <2>1
  <2> HIDE DEF s
  <2>3. Len(s) = 2 /\ s[1] = Len(vals[2]) /\ s[2] = Len(vals[3])
    BY <2>1, <2>2
  <2>4. Len(s) <= 3
    BY <2>3
  <2>5. Product(s) = s[1] * s[2]
    BY <2>2, <2>3, <2>4, ProductFacts
  <2> QED BY <2>2, <2>3, <2>5
<1> QED
  BY <1>3, <1>4, <1>5, <1>6

LEMMA CombinationFacts ==
  ASSUME NEW m \in 0 .. 3, NEW S, NEW vals \in Arrays(m, S), NEW at \in Nat
  PROVE  /\ Combination(vals, at) =
               [k \in 1 .. m |-> vals[k][1 + ((at \div After(vals, k)) % Len(vals[k]))]]
         /\ Combination(vals, at) \in [1 .. m -> S]
         /\ \A k \in 1 .. m : Combination(vals, at)[k] \in Range(vals[k])
<1>0. \A k \in 1 .. m : /\ Len(vals[k]) \in Nat \ {0} /\ vals[k] \in Seq(S)
                        /\ DOMAIN vals[k] = 1 .. Len(vals[k])
  <2>1. ASSUME NEW k \in 1 .. m
        PROVE  /\ Len(vals[k]) \in Nat \ {0} /\ vals[k] \in Seq(S)
               /\ DOMAIN vals[k] = 1 .. Len(vals[k])
    <3>1. vals[k] \in Seq(S) /\ vals[k] # <<>>
      BY DEF Arrays
    <3> QED BY <3>1, EmptySeq, LenProperties
  <2> QED BY <2>1
<1>1. DOMAIN vals = 1 .. m
  BY CountsFacts
<1>2. Combination(vals, at) =
          [k \in 1 .. m |-> vals[k][1 + ((at \div After(vals, k)) % Len(vals[k]))]]
  BY <1>1 DEF Combination, After
<1>3. ASSUME NEW k \in 1 .. m
      PROVE  LET x == vals[k][1 + ((at \div After(vals, k)) % Len(vals[k]))]
             IN  x \in S /\ x \in Range(vals[k])
  <2>1. /\ Len(vals[k]) \in Nat \ {0} /\ vals[k] \in Seq(S)
        /\ DOMAIN vals[k] = 1 .. Len(vals[k])
    BY <1>0
  <2>2. After(vals, k) \in Nat \ {0}
    BY AfterFacts
  <2> DEFINE q == at \div After(vals, k)
             j == 1 + (q % Len(vals[k]))
  <2>3. q \in Nat
    BY <2>2
  <2> HIDE DEF q
  <2>4. j \in 1 .. Len(vals[k])
    <3>1. \A x \in Nat, y \in Nat \ {0} : 1 + (x % y) \in 1 .. y
      OBVIOUS
    <3> QED BY <2>1, <2>3, <3>1
  <2> HIDE DEF j
  <2>5. vals[k][j] \in S /\ vals[k][j] \in Range(vals[k])
    BY <2>1, <2>4 DEF Range
  <2> QED BY <2>5 DEF j, q
<1> QED
  BY <1>2, <1>3

\* A position in every array, counted from 0.
Positions(digit, vals) == \A k \in DOMAIN vals : digit[k] \in 0 .. Len(vals[k]) - 1

LEMMA EveryPosition ==
  ASSUME NEW m \in 0 .. 3, NEW S, NEW vals \in Arrays(m, S), NEW digit, Positions(digit, vals)
  PROVE  \E at \in 0 .. Product(Counts(vals)) - 1 :
             \A k \in 1 .. m : (at \div After(vals, k)) % Len(vals[k]) = digit[k]
<1>1. /\ DOMAIN vals = 1 .. m /\ m \in Nat
      /\ Counts(vals) \in Seq(Nat \ {0}) /\ Len(Counts(vals)) = m
  BY CountsFacts
<1>2. \A k \in 1 .. m : /\ Counts(vals)[k] = Len(vals[k]) /\ Len(vals[k]) \in Nat \ {0}
                        /\ digit[k] \in 0 .. Len(vals[k]) - 1
  <2>1. \A k \in 1 .. m : Counts(vals)[k] = Len(vals[k]) /\ Len(vals[k]) \in Nat \ {0}
    BY CountsFacts
  <2> QED BY <1>1, <2>1 DEF Positions
<1>3. \E at \in 0 .. Product(Counts(vals)) - 1 :
          \A k \in 1 .. m : (at \div After(vals, k)) % Len(vals[k]) = digit[k]
  <2>1. /\ m = 0 => Product(Counts(vals)) = 1
        /\ m = 1 => Product(Counts(vals)) = Len(vals[1])
        /\ m = 2 => Product(Counts(vals)) = Len(vals[1]) * Len(vals[2])
        /\ m = 3 => Product(Counts(vals)) = (Len(vals[1]) * Len(vals[2])) * Len(vals[3])
    <3> DEFINE s == Counts(vals)
    <3>1. /\ s \in Seq(Nat \ {0}) /\ Len(s) = m /\ Len(s) <= 3
          /\ m >= 1 => s[1] = Len(vals[1])
          /\ m >= 2 => s[2] = Len(vals[2])
          /\ m >= 3 => s[3] = Len(vals[3])
      BY <1>1, <1>2
    <3> HIDE DEF s
    <3>2. /\ m = 0 => Product(s) = 1
          /\ m = 1 => Product(s) = Len(vals[1])
          /\ m = 2 => Product(s) = Len(vals[1]) * Len(vals[2])
          /\ m = 3 => Product(s) = (Len(vals[1]) * Len(vals[2])) * Len(vals[3])
      <4>1. /\ m = 0 => Product(s) = 1
            /\ m = 1 => Product(s) = s[1]
            /\ m = 2 => Product(s) = s[1] * s[2]
            /\ m = 3 => Product(s) = (s[1] * s[2]) * s[3]
        BY <3>1, ProductFacts
      <4>2. m = 1 => m >= 1
        BY <1>1
      <4>3. m = 2 => m >= 1 /\ m >= 2
        BY <1>1
      <4>4. m = 3 => m >= 1 /\ m >= 2 /\ m >= 3
        BY <1>1
      <4> QED BY <3>1, <4>1, <4>2, <4>3, <4>4
    <3> QED BY <3>2 DEF s
  <2>2. CASE m = 0
    <3>1. 0 \in 0 .. Product(Counts(vals)) - 1 /\ \A k \in 1 .. m : FALSE
      BY <2>1, <2>2
    <3> QED BY <3>1
  <2>3. CASE m = 1
    <3>1. /\ Len(vals[1]) \in Nat \ {0} /\ digit[1] \in 0 .. Len(vals[1]) - 1
          /\ After(vals, 1) = 1 /\ \A k \in 1 .. m : k = 1
      BY <1>2, <2>3, AfterFacts
    <3>2. PICK z \in 0 .. Len(vals[1]) - 1 : (z \div 1) % Len(vals[1]) = digit[1]
      BY <3>1, OneDigit
    <3> QED BY <2>1, <2>3, <3>1, <3>2
  <2>4. CASE m = 2
    <3>1. /\ Len(vals[1]) \in Nat \ {0} /\ digit[1] \in 0 .. Len(vals[1]) - 1
          /\ Len(vals[2]) \in Nat \ {0} /\ digit[2] \in 0 .. Len(vals[2]) - 1
          /\ \A k \in 1 .. m : k = 1 \/ k = 2
      BY <1>2, <2>4
    <3>2. After(vals, 1) = Len(vals[2]) /\ After(vals, 2) = 1
      <4>1. m - 1 = 1 /\ m >= 1 /\ m >= 2 BY <2>4
      <4> QED BY <2>4, <4>1, AfterFacts
    <3>3. PICK z \in 0 .. Len(vals[1]) * Len(vals[2]) - 1 :
              /\ (z \div Len(vals[2])) % Len(vals[1]) = digit[1]
              /\ (z \div 1) % Len(vals[2]) = digit[2]
      <4> DEFINE b == Len(vals[1])
                 c == Len(vals[2])
                 x == digit[1]
                 y == digit[2]
      <4>1. b \in Nat \ {0} /\ c \in Nat \ {0} /\ x \in 0 .. b - 1 /\ y \in 0 .. c - 1
        BY <3>1
      <4> HIDE DEF b, c, x, y
      <4>2. PICK z : TwoPlaces(z, b, c, x, y)
        BY <4>1, TwoDigits
      <4> QED BY <4>2 DEF b, c, x, y, TwoPlaces
    <3> QED BY <2>1, <2>4, <3>1, <3>2, <3>3
  <2>5. CASE m = 3
    <3>1. /\ Len(vals[1]) \in Nat \ {0} /\ digit[1] \in 0 .. Len(vals[1]) - 1
          /\ Len(vals[2]) \in Nat \ {0} /\ digit[2] \in 0 .. Len(vals[2]) - 1
          /\ Len(vals[3]) \in Nat \ {0} /\ digit[3] \in 0 .. Len(vals[3]) - 1
          /\ \A k \in 1 .. m : k = 1 \/ k = 2 \/ k = 3
      BY <1>2, <2>5
    <3>2. /\ After(vals, 1) = Len(vals[2]) * Len(vals[3])
          /\ After(vals, 2) = Len(vals[3]) /\ After(vals, 3) = 1
      <4>1. m - 1 = 2 /\ m >= 1 /\ m >= 2 BY <2>5
      <4>2. After(vals, 1) = Len(vals[2]) * Len(vals[3]) BY <2>5, AfterFacts
      <4>3. After(vals, 2) = Len(vals[3]) BY <2>5, <4>1, AfterFacts
      <4>4. After(vals, 3) = 1 BY <2>5, <4>1, AfterFacts
      <4> QED BY <4>2, <4>3, <4>4
    <3>3. PICK z \in 0 .. (Len(vals[1]) * Len(vals[2])) * Len(vals[3]) - 1 :
              /\ (z \div (Len(vals[2]) * Len(vals[3]))) % Len(vals[1]) = digit[1]
              /\ (z \div Len(vals[3])) % Len(vals[2]) = digit[2]
              /\ (z \div 1) % Len(vals[3]) = digit[3]
      <4> DEFINE b == Len(vals[1])
                 c == Len(vals[2])
                 d == Len(vals[3])
                 x == digit[1]
                 y == digit[2]
                 w == digit[3]
      <4>1. /\ b \in Nat \ {0} /\ c \in Nat \ {0} /\ d \in Nat \ {0}
            /\ x \in 0 .. b - 1 /\ y \in 0 .. c - 1 /\ w \in 0 .. d - 1
        BY <3>1
      <4> HIDE DEF b, c, d, x, y, w
      <4>2. PICK z : ThreePlaces(z, b, c, d, x, y, w)
        BY <4>1, ThreeDigits
      <4> QED BY <4>2 DEF b, c, d, x, y, w, ThreePlaces
    <3> QED BY <2>1, <2>5, <3>1, <3>2, <3>3
  <2>6. m = 0 \/ m = 1 \/ m = 2 \/ m = 3
    OBVIOUS
  <2> QED BY <2>2, <2>3, <2>4, <2>5, <2>6
<1> QED
  BY <1>3

\* An element of every array.
Picks(a, vals) == /\ a = [k \in DOMAIN vals |-> a[k]]
                  /\ \A k \in DOMAIN vals : a[k] \in Range(vals[k])

\* The loops leave no combination out.
LEMMA EveryCombination ==
  ASSUME NEW m \in 0 .. 3, NEW S, NEW vals \in Arrays(m, S),
         NEW a, Picks(a, vals)
  PROVE  \E at \in 0 .. Product(Counts(vals)) - 1 : Combination(vals, at) = a
<1> DEFINE pos(k) == CHOOSE x \in Nat : x \in 0 .. Len(vals[k]) - 1 /\ vals[k][1 + x] = a[k]
           digit == [k \in 1 .. m |-> pos(k)]
<1>1. /\ DOMAIN vals = 1 .. m /\ m \in Nat
      /\ Counts(vals) \in Seq(Nat \ {0}) /\ Len(Counts(vals)) = m
  BY CountsFacts
<1>2. \A k \in 1 .. m : /\ Counts(vals)[k] = Len(vals[k]) /\ Len(vals[k]) \in Nat \ {0}
                        /\ DOMAIN vals[k] = 1 .. Len(vals[k])
  BY CountsFacts
<1>3. ASSUME NEW k \in 1 .. m
      PROVE  digit[k] \in 0 .. Len(vals[k]) - 1 /\ vals[k][1 + digit[k]] = a[k]
  <2>1. PICK j \in 1 .. Len(vals[k]) : vals[k][j] = a[k]
    BY <1>1, <1>2 DEF Range, Picks
  <2>2. /\ j - 1 \in Nat /\ j - 1 \in 0 .. Len(vals[k]) - 1 /\ 1 + (j - 1) = j
    BY <1>2
  <2>3. pos(k) \in 0 .. Len(vals[k]) - 1 /\ vals[k][1 + pos(k)] = a[k]
    BY <2>1, <2>2
  <2> QED BY <2>3
<1> HIDE DEF digit, pos
<1>4. \E at \in 0 .. Product(Counts(vals)) - 1 :
          \A k \in 1 .. m : (at \div After(vals, k)) % Len(vals[k]) = digit[k]
  <2>1. Positions(digit, vals)
    BY <1>1, <1>3 DEF Positions
  <2> QED BY <2>1, EveryPosition
<1>5. PICK at \in 0 .. Product(Counts(vals)) - 1 :
          \A k \in 1 .. m : (at \div After(vals, k)) % Len(vals[k]) = digit[k]
  BY <1>4
<1>6. Combination(vals, at) =
          [k \in 1 .. m |-> vals[k][1 + ((at \div After(vals, k)) % Len(vals[k]))]]
  BY <1>1 DEF Combination, After
<1>7. \A k \in 1 .. m : vals[k][1 + ((at \div After(vals, k)) % Len(vals[k]))] = a[k]
  BY <1>3, <1>5
<1>8. Combination(vals, at) = a
  BY <1>1, <1>6, <1>7 DEF Picks
<1> QED
  BY <1>8

-----------------------------------------------------------------------------
(* Powers of two.                                                          *)

Power(k) == 2 ^ k

LEMMA PowersUpTo ==
  ASSUME NEW m \in Nat, \A k \in 0 .. m : Power(k + 1) = 2 * Power(k)
  PROVE  /\ Power(0) = 1 /\ \A k \in 0 .. m + 1 : Power(k) \in Nat \ {0}
         /\ \A j, k \in Nat : j + k <= m + 1 => Power(j + k) = Power(j) * Power(k)
<1>1. Power(0) = 1
  BY PowerAssumption DEF Power
<1>2. \A k \in 0 .. m + 1 : Power(k) \in Nat \ {0}
  <2> DEFINE S == {k \in 0 .. m + 1 : Power(k) \in Nat \ {0}}
  <2>1. 0 \in S /\ \A k \in 0 .. m : k \in S => k + 1 \in S
    BY <1>1
  <2> HIDE DEF S
  <2>2. m + 1 \in Nat /\ (m + 1) - 1 = m
    OBVIOUS
  <2>3. \A k \in 0 .. m + 1 : k \in S
    BY <2>1, <2>2, UpTo
  <2> QED BY <2>3 DEF S
<1>3. ASSUME NEW j \in Nat, NEW k \in Nat, j + k <= m + 1
      PROVE  Power(j + k) = Power(j) * Power(k)
  <2> DEFINE S == {x \in 0 .. k : Power(j + x) = Power(j) * Power(x)}
  <2>1. 0 \in S
    <3>1. j + 0 = j /\ Power(j) \in Nat /\ 0 \in 0 .. k
      BY <1>2, <1>3
    <3> QED BY <1>1, <3>1
  <2>2. ASSUME NEW x \in 0 .. k - 1, x \in S PROVE x + 1 \in S
    <3>1. x \in 0 .. m /\ j + x \in 0 .. m /\ j \in 0 .. m + 1 /\ j + (x + 1) = (j + x) + 1
      BY <1>3
    <3>2. Power((j + x) + 1) = 2 * Power(j + x) /\ Power(x + 1) = 2 * Power(x)
      BY <3>1
    <3>3. Power(j) \in Nat /\ Power(x) \in Nat /\ Power(j + x) = Power(j) * Power(x)
      BY <1>2, <2>2, <3>1
    <3>4. \A a, b \in Nat : 2 * (a * b) = a * (2 * b)
      OBVIOUS
    <3>5. Power(j + (x + 1)) = Power(j) * Power(x + 1)
      BY <3>1, <3>2, <3>3, <3>4
    <3> QED BY <3>5
  <2> HIDE DEF S
  <2>3. \A x \in 0 .. k : x \in S
    BY <2>1, <2>2, UpTo
  <2> QED BY <2>3 DEF S
<1> QED
  BY <1>1, <1>2, <1>3

LEMMA PowerFacts ==
  /\ Ones \in Nat \ {0} /\ Bias \in Nat /\ Bias > 2
  /\ MaxExp = 2 * Bias + 1
  /\ SignBit = (MaxExp + 1) * Ones
  /\ 2 ^ Width = 2 * SignBit
<1>1. /\ ExpBits \in Nat \ {0} /\ FracBits \in Nat \ {0} /\ Width = 1 + ExpBits + FracBits
      /\ Width \in Nat /\ Width >= 3 /\ Bias > Width
  BY FloatAssumption DEF Width
<1>2. \A k \in 0 .. Width : Power(k + 1) = 2 * Power(k)
  BY PowerAssumption DEF Power
<1>3. /\ \A k \in 0 .. Width + 1 : Power(k) \in Nat \ {0}
      /\ \A j, k \in Nat : j + k <= Width + 1 => Power(j + k) = Power(j) * Power(k)
  BY <1>1, <1>2, PowersUpTo
<1>4. /\ Ones = Power(FracBits) /\ Bias = Power(ExpBits - 1) - 1 /\ MaxExp = Power(ExpBits) - 1
      /\ SignBit = Power(Width - 1) /\ 2 ^ Width = Power(Width)
  BY DEF Ones, Bias, MaxExp, SignBit, Power
<1>5. SignBit = Power(ExpBits) * Power(FracBits)
  <2>1. Width - 1 = ExpBits + FracBits /\ ExpBits + FracBits <= Width + 1
    BY <1>1
  <2> QED BY <1>1, <1>3, <1>4, <2>1
<1>6. Power(ExpBits) = 2 * Power(ExpBits - 1) /\ Power(Width) = 2 * Power(Width - 1)
  <2>1. /\ ExpBits - 1 \in 0 .. Width /\ (ExpBits - 1) + 1 = ExpBits
        /\ Width - 1 \in 0 .. Width /\ (Width - 1) + 1 = Width
    BY <1>1
  <2> QED BY <1>2, <2>1
<1>7. Power(FracBits) \in Nat \ {0} /\ Power(ExpBits - 1) \in Nat \ {0} /\ Power(ExpBits) \in Nat \ {0}
  BY <1>1, <1>3
<1>8. Bias \in Nat /\ Bias > 2 /\ MaxExp = 2 * Bias + 1 /\ MaxExp + 1 = Power(ExpBits)
  BY <1>1, <1>4, <1>6, <1>7
<1> QED
  BY <1>4, <1>5, <1>6, <1>7, <1>8

\* The powers that occur in magnitudes.
LEMMA PowerLaws ==
  /\ Width \in Nat /\ Width = 1 + ExpBits + FracBits /\ Bias > Width
  /\ ExpBits \in Nat \ {0} /\ FracBits \in Nat \ {0}
  /\ Power(0) = 1 /\ Power(1) = 2
  /\ Ones = Power(FracBits) /\ SignBit = Power(Width - 1) /\ MaxExp + 1 = Power(ExpBits)
  /\ \A k \in 0 .. MaxExp + 1 : Power(k) \in Nat \ {0}
  /\ \A k \in 0 .. MaxExp : Power(k + 1) = 2 * Power(k)
  /\ \A j, k \in Nat : j + k <= MaxExp + 1 => Power(j + k) = Power(j) * Power(k)
  /\ \A j, k \in Nat : j < k /\ k <= MaxExp + 1 => 2 * Power(j) <= Power(k)
<1>1. /\ ExpBits \in Nat \ {0} /\ FracBits \in Nat \ {0} /\ Width = 1 + ExpBits + FracBits
      /\ Width \in Nat /\ Bias > Width
  BY FloatAssumption DEF Width
<1>2. MaxExp \in Nat /\ Ones = Power(FracBits) /\ SignBit = Power(Width - 1)
      /\ MaxExp = Power(ExpBits) - 1
  BY PowerFacts DEF MaxExp, Ones, SignBit, Power
<1>3. \A k \in 0 .. MaxExp : Power(k + 1) = 2 * Power(k)
  BY PowerAssumption DEF Power
<1>4. /\ Power(0) = 1 /\ \A k \in 0 .. MaxExp + 1 : Power(k) \in Nat \ {0}
      /\ \A j, k \in Nat : j + k <= MaxExp + 1 => Power(j + k) = Power(j) * Power(k)
  BY <1>2, <1>3, PowersUpTo
<1>5. ASSUME NEW j \in Nat, NEW k \in Nat, j < k, k <= MaxExp + 1
      PROVE  2 * Power(j) <= Power(k)
  <2>1. k - j - 1 \in Nat /\ (j + 1) + (k - j - 1) = k /\ j + 1 \in Nat /\ j \in 0 .. MaxExp
        /\ j + 1 \in 0 .. MaxExp + 1 /\ k - j - 1 \in 0 .. MaxExp + 1
    BY <1>2, <1>5
  <2>2. Power(k) = Power(j + 1) * Power(k - j - 1) /\ Power(j + 1) = 2 * Power(j)
    BY <1>3, <1>4, <1>5, <2>1
  <2>3. Power(j + 1) \in Nat /\ Power(k - j - 1) \in Nat \ {0}
    BY <1>4, <2>1
  <2>4. \A a \in Nat, b \in Nat \ {0} : a <= a * b
    <3>1. ASSUME NEW a \in Nat, NEW b \in Nat \ {0} PROVE a <= a * b
      <4>1. a * b = a + a * (b - 1) /\ b - 1 \in Nat
        OBVIOUS
      <4>2. a * (b - 1) \in Nat
        BY <4>1
      <4> QED BY <4>1, <4>2
    <3> QED BY <3>1
  <2> QED BY <2>2, <2>3, <2>4
<1>6. MaxExp + 1 = Power(ExpBits)
  <2>1. ExpBits \in 0 .. MaxExp + 1
    BY <1>1, PowerFacts
  <2> QED BY <1>2, <1>4, <2>1
<1>7. Power(1) = 2
  BY <1>2, <1>3, <1>4
<1> QED
  BY <1>1, <1>2, <1>3, <1>4, <1>5, <1>6, <1>7

-----------------------------------------------------------------------------
(* Sign, exponent and fraction.                                            *)

Field(s, e, f) == s \in {0, 1} /\ e \in 0 .. MaxExp /\ f \in 0 .. Ones - 1

LEMMA PackedFields ==
  ASSUME NEW s, NEW e, NEW f, Field(s, e, f)
  PROVE  /\ Packed(s, e, f) \in Bits
         /\ sign(Packed(s, e, f)) = s /\ exponent(Packed(s, e, f)) = e
         /\ frac(Packed(s, e, f)) = f
<1> DEFINE o == Ones
           x == MaxExp + 1
           z == e * o + f
           u == Packed(s, e, f)
<1>1. /\ o \in Nat \ {0} /\ x \in Nat \ {0} /\ SignBit = x * o /\ 2 ^ Width = 2 * SignBit
      /\ s \in Nat /\ s \in {0, 1} /\ e \in 0 .. x - 1 /\ f \in 0 .. o - 1 /\ e \in Nat /\ f \in Nat
  BY PowerFacts DEF Field
<1>2. u = s * (x * o) + e * o + f
  BY <1>1 DEF Packed
<1>3. Bits = 0 .. 2 * SignBit - 1
  BY <1>1 DEF Bits
<1>4. exponent(u) = (u \div o) % x /\ frac(u) = u % o /\ sign(u) = u \div SignBit
  BY DEF exponent, frac, sign
<1> HIDE DEF o, x, u
<1>5. e * o \in Nat /\ e * o + o <= x * o /\ x * o \in Nat /\ SignBit \in Nat \ {0}
  <2>1. /\ e < x => e * o + o <= x * o
        /\ e * o \in Nat
    BY <1>1, Products
  <2>2. x * o \in Nat
    BY <1>1
  <2> QED BY <1>1, <2>1, <2>2
<1>6. z \in 0 .. SignBit - 1 /\ u = s * SignBit + z
  BY <1>1, <1>2, <1>5
<1> HIDE DEF z
<1>7. sign(u) = s
  BY <1>1, <1>4, <1>5, <1>6, DivMod
<1>8. u \in Bits
  BY <1>1, <1>3, <1>5, <1>6
<1>9. u = (s * x + e) * o + f /\ s * x + e \in Nat
  <2>1. s * (x * o) + e * o = (s * x + e) * o
    BY <1>1
  <2> QED BY <1>1, <1>2, <2>1
<1>10. u \div o = s * x + e /\ u % o = f
  BY <1>1, <1>9, DivMod
<1>11. (s * x + e) % x = e
  BY <1>1, DivMod
<1> QED
  BY <1>4, <1>7, <1>8, <1>10, <1>11 DEF u

LEMMA Fields ==
  ASSUME NEW u \in Bits
  PROVE  /\ Field(sign(u), exponent(u), frac(u))
         /\ u = Packed(sign(u), exponent(u), frac(u))
<1> DEFINE o == Ones
           x == MaxExp + 1
           q == u \div o
           f == u % o
           e == q % x
           s == q \div x
<1>1. /\ o \in Nat \ {0} /\ x \in Nat \ {0} /\ SignBit = x * o /\ u \in Nat /\ u < 2 * SignBit
  BY PowerFacts DEF Bits
<1>2. f \in 0 .. o - 1 /\ q \in Nat /\ u = q * o + f
  BY <1>1
<1> HIDE DEF f, q
<1>3. e \in 0 .. x - 1 /\ s \in Nat /\ q = s * x + e
  <2>1. \A y \in Nat \ {0}, z \in Nat :
           z % y \in 0 .. y - 1 /\ z \div y \in Nat /\ z = (z \div y) * y + (z % y)
    OBVIOUS
  <2> HIDE DEF x
  <2> QED BY <1>1, <1>2, <2>1
<1> HIDE DEF e, s, x, o
<1>4. u = s * SignBit + (e * o + f)
  <2>1. (s * x + e) * o = s * (x * o) + e * o
    BY <1>1, <1>2, <1>3
  <2> QED BY <1>1, <1>2, <1>3, <2>1
<1>5. s \in {0, 1}
  <2>1. s * SignBit \in Nat /\ e * o \in Nat /\ f \in Nat /\ SignBit \in Nat
    BY <1>1, <1>2, <1>3
  <2>2. s * SignBit < 2 * SignBit
    BY <1>1, <1>4, <2>1
  <2>3. 2 <= s => 2 * SignBit <= s * SignBit
    BY <1>3, <2>1, Products
  <2> QED BY <1>3, <2>1, <2>2, <2>3
<1>6. Field(s, e, f)
  <2>1. x - 1 = MaxExp
    BY PowerFacts DEF x
  <2> QED BY <1>2, <1>3, <1>5, <2>1 DEF Field, o
<1>7. u = Packed(s, e, f)
  <2>1. s * SignBit + (e * o + f) = s * SignBit + e * o + f
    BY <1>1, <1>2, <1>3
  <2> QED BY <1>4, <2>1 DEF Packed, o
<1> QED
  BY <1>6, <1>7, PackedFields

-----------------------------------------------------------------------------
(* Magnitudes.                                                             *)

\* Powers and magnitudes of finite floats.
LEMMA MagnitudeFacts ==
  ASSUME NEW u \in Bits, Finite(u)
  PROVE  /\ exponent(u) \in 0 .. MaxExp - 1 /\ frac(u) \in 0 .. Ones - 1
         /\ Magnitude(u) \in Nat
         /\ exponent(u) = 0 => Magnitude(u) = frac(u)
         /\ exponent(u) # 0 =>
               /\ Power(exponent(u) - 1) \in Nat \ {0}
               /\ Magnitude(u) = (Ones + frac(u)) * Power(exponent(u) - 1)
               /\ Ones * Power(exponent(u) - 1) <= Magnitude(u)
               /\ Magnitude(u) < 2 * (Ones * Power(exponent(u) - 1))
<1> DEFINE e == exponent(u)
           f == frac(u)
           o == Ones
           p == Power(e - 1)
<1>1. Field(sign(u), e, f) /\ e # MaxExp /\ MaxExp \in Nat /\ o \in Nat \ {0}
  BY Fields, PowerFacts DEF Finite
<1>2. e \in 0 .. MaxExp - 1 /\ f \in 0 .. o - 1
  BY <1>1 DEF Field
<1>3. Magnitude(u) = IF e = 0 THEN f ELSE (o + f) * p
  BY DEF Magnitude, Power
<1>4. ASSUME e # 0
      PROVE  /\ p \in Nat \ {0} /\ (o + f) * p \in Nat
             /\ o * p <= (o + f) * p /\ (o + f) * p < 2 * (o * p)
  <2>1. p \in Nat \ {0}
    <3>1. e - 1 \in 0 .. MaxExp + 1
      BY <1>1, <1>2, <1>4
    <3> QED BY <3>1, PowerLaws
  <2> HIDE DEF p, o, f
  <2>2. o <= o + f /\ o + f < 2 * o /\ o \in Nat /\ o + f \in Nat /\ 2 * o \in Nat
    BY <1>1, <1>2
  <2>3. (2 * o) * p = 2 * (o * p) /\ (o + f) * p \in Nat /\ o * p \in Nat
    BY <2>1, <2>2
  <2>4. (o + f) * p + p <= (2 * o) * p
    BY <2>1, <2>2, Products
  <2>5. o * p <= (o + f) * p
    BY <2>1, <2>2, Products
  <2> QED BY <2>1, <2>3, <2>4, <2>5
<1> QED
  BY <1>1, <1>2, <1>3, <1>4

\* Greater exponents, greater magnitudes.
LEMMA MagnitudeOrder ==
  ASSUME NEW u \in Bits, NEW v \in Bits, Finite(u), Finite(v), exponent(u) < exponent(v)
  PROVE  Magnitude(u) < Magnitude(v)
<1> DEFINE e == exponent(u)
           g == exponent(v)
<1>1. /\ e \in 0 .. MaxExp - 1 /\ g \in 0 .. MaxExp - 1 /\ g # 0 /\ MaxExp \in Nat
      /\ Power(g - 1) \in Nat \ {0} /\ Ones * Power(g - 1) <= Magnitude(v)
      /\ Magnitude(v) \in Nat /\ Magnitude(u) \in Nat /\ Ones \in Nat \ {0}
  BY MagnitudeFacts, PowerFacts
<1>2. CASE e = 0
  <2>1. Magnitude(u) < Ones
    BY <1>1, <1>2, MagnitudeFacts
  <2>2. 1 * Ones <= Power(g - 1) * Ones
    BY <1>1, Products
  <2> QED BY <1>1, <2>1, <2>2
<1>3. CASE e # 0
  <2> DEFINE p == Power(e - 1)
             q == Power(g - 1)
  <2>1. p \in Nat \ {0} /\ Magnitude(u) < 2 * (Ones * p)
    BY <1>3, MagnitudeFacts
  <2>2. 2 * p <= q
    <3>1. e - 1 \in Nat /\ g - 1 \in Nat /\ e - 1 < g - 1 /\ g - 1 <= MaxExp + 1
      BY <1>1, <1>3
    <3> QED BY <3>1, PowerLaws
  <2>3. q \in Nat /\ Ones * q <= Magnitude(v) /\ Ones \in Nat
    BY <1>1
  <2> HIDE DEF p, q, e, g
  <2>4. (2 * p) * Ones <= q * Ones
    BY <2>1, <2>2, <2>3, Products
  <2>5. (2 * p) * Ones = 2 * (Ones * p) /\ q * Ones = Ones * q /\ Ones * p \in Nat /\ Ones * q \in Nat
    BY <2>1, <2>3
  <2> QED BY <1>1, <2>1, <2>3, <2>4, <2>5
<1> QED
  BY <1>2, <1>3

\* A finite float is the only one of its sign and magnitude.
LEMMA OneEncoding ==
  ASSUME NEW u \in Bits, NEW v \in Bits, Finite(u), Finite(v),
         sign(u) = sign(v), Magnitude(u) = Magnitude(v)
  PROVE  u = v
<1>1. /\ exponent(u) \in 0 .. MaxExp - 1 /\ exponent(v) \in 0 .. MaxExp - 1 /\ MaxExp \in Nat
      /\ frac(u) \in 0 .. Ones - 1 /\ frac(v) \in 0 .. Ones - 1 /\ Ones \in Nat \ {0}
      /\ Magnitude(u) \in Nat
  BY MagnitudeFacts, PowerFacts
<1>2. exponent(u) = exponent(v)
  <2>1. ~(exponent(u) < exponent(v)) /\ ~(exponent(v) < exponent(u))
    BY <1>1, MagnitudeOrder
  <2> QED BY <1>1, <2>1
<1>3. frac(u) = frac(v)
  <2>1. CASE exponent(u) = 0
    BY <1>2, <2>1, MagnitudeFacts
  <2>2. CASE exponent(u) # 0
    <3> DEFINE p == Power(exponent(u) - 1)
    <3>1. p \in Nat \ {0} /\ (Ones + frac(u)) * p = (Ones + frac(v)) * p
      BY <1>2, <2>2, MagnitudeFacts
    <3> HIDE DEF p
    <3>2. Ones + frac(u) \in Nat /\ Ones + frac(v) \in Nat
      BY <1>1
    <3>3. Ones + frac(u) = Ones + frac(v)
      BY <3>1, <3>2, Products
    <3> QED BY <1>1, <3>3
  <2> QED BY <2>1, <2>2
<1> QED
  BY <1>2, <1>3, Fields

LEMMA EncodedIs ==
  ASSUME NEW v \in Bits, Finite(v)
  PROVE  Encoded(sign(v), Magnitude(v)) = v
<1> DEFINE fits == {u \in Bits : Finite(u) /\ sign(u) = sign(v) /\ Magnitude(u) = Magnitude(v)}
<1>1. fits = {v}
  BY OneEncoding
<1>2. Encoded(sign(v), Magnitude(v)) =
          IF fits = {} THEN Packed(sign(v), MaxExp, 0) ELSE CHOOSE u \in fits : TRUE
  BY DEF Encoded
<1> HIDE DEF fits
<1> QED
  BY <1>1, <1>2


-----------------------------------------------------------------------------
(* floatScale2.                                                            *)

\* Twice the greatest finite floats is infinite.
LEMMA DoubleIsInfinite ==
  ASSUME NEW u \in Bits, exponent(u) = MaxExp - 1
  PROVE  /\ Finite(u)
         /\ test_floatScale2(u) = Packed(sign(u), MaxExp, 0)
         /\ ~Finite(test_floatScale2(u))
<1> DEFINE m == 2 * Magnitude(u)
           fits == {v \in Bits : Finite(v) /\ sign(v) = sign(u) /\ Magnitude(v) = m}
<1>1. MaxExp \in Nat /\ MaxExp > 4 /\ Ones \in Nat \ {0}
  BY PowerFacts
<1>2. Finite(u)
  BY <1>1 DEF Finite
<1>3. /\ Magnitude(u) \in Nat /\ Power(MaxExp - 2) \in Nat
      /\ Ones * Power(MaxExp - 2) <= Magnitude(u) /\ Magnitude(u) # 0
  <2>1. exponent(u) # 0 /\ (MaxExp - 1) - 1 = MaxExp - 2
    BY <1>1
  <2>2. Power(MaxExp - 2) \in Nat \ {0} /\ Ones * Power(MaxExp - 2) <= Magnitude(u)
        /\ Magnitude(u) \in Nat
    BY <1>2, <2>1, MagnitudeFacts
  <2>3. 1 * Ones <= Power(MaxExp - 2) * Ones
    BY <1>1, <2>2, Products
  <2> QED BY <1>1, <2>2, <2>3
<1>4. ASSUME NEW v \in Bits, Finite(v) PROVE Magnitude(v) < m
  <2>1. Magnitude(v) \in Nat /\ exponent(v) \in 0 .. MaxExp - 1
    BY <1>4, MagnitudeFacts
  <2>2. CASE exponent(v) = MaxExp - 1
    <3>1. exponent(v) # 0 /\ (MaxExp - 1) - 1 = MaxExp - 2
      BY <1>1, <2>2
    <3>2. Magnitude(v) < 2 * (Ones * Power(MaxExp - 2))
      BY <1>4, <2>2, <3>1, MagnitudeFacts
    <3> DEFINE p == Ones * Power(MaxExp - 2)
    <3>3. p \in Nat /\ Magnitude(v) < 2 * p /\ p <= Magnitude(u)
      BY <1>1, <1>3, <3>2
    <3> HIDE DEF p
    <3> QED BY <1>3, <2>1, <3>3
  <2>3. CASE exponent(v) # MaxExp - 1
    <3>1. exponent(v) < exponent(u)
      BY <1>1, <2>1, <2>3
    <3>2. Magnitude(v) < Magnitude(u)
      BY <1>2, <1>4, <3>1, MagnitudeOrder
    <3> QED BY <1>3, <2>1, <3>2
  <2> QED BY <2>2, <2>3
<1>5. fits = {}
  <2>1. m \in Nat /\ \A v \in Bits : Finite(v) => Magnitude(v) # m
    <3>1. \A v \in Bits : Finite(v) => Magnitude(v) < m /\ Magnitude(v) \in Nat
      BY <1>4, MagnitudeFacts
    <3>2. m \in Nat
      BY <1>3
    <3> HIDE DEF m
    <3> QED BY <3>1, <3>2
  <2> QED BY <2>1
<1>6. test_floatScale2(u) = IF fits = {} THEN Packed(sign(u), MaxExp, 0)
                            ELSE CHOOSE v \in fits : TRUE
  BY <1>2 DEF test_floatScale2, Encoded
<1>7. test_floatScale2(u) = Packed(sign(u), MaxExp, 0)
  BY <1>5, <1>6
<1>8. Field(sign(u), MaxExp, 0)
  BY <1>1, Fields DEF Field
<1>9. exponent(Packed(sign(u), MaxExp, 0)) = MaxExp
  BY <1>8, PackedFields
<1> QED
  BY <1>2, <1>7, <1>9 DEF Finite

\* Every other float is doubled by its encoding.
LEMMA DoubleIsExact ==
  ASSUME NEW u \in Bits, exponent(u) # MaxExp - 1
  PROVE  floatScale2(u) = test_floatScale2(u)
<1> DEFINE s == sign(u)
           e == exponent(u)
           f == frac(u)
           v == floatScale2(u)
<1>1. MaxExp \in Nat /\ MaxExp > 4 /\ Ones \in Nat \ {0} /\ Field(s, e, f) /\ u = Packed(s, e, f)
  BY PowerFacts, Fields
<1>2. CASE e = MaxExp
  BY <1>2 DEF floatScale2, test_floatScale2, Finite
<1>3. ASSUME e # MaxExp, v \in Bits, Finite(v), sign(v) = s, Magnitude(v) = 2 * Magnitude(u)
      PROVE  v = test_floatScale2(u)
  <2>1. test_floatScale2(u) = Encoded(s, 2 * Magnitude(u))
    BY <1>3 DEF test_floatScale2, Finite
  <2> QED BY <1>3, <2>1, EncodedIs
<1>4. CASE e = 0 /\ f = 0
  <2>1. v = u /\ Finite(u)
    BY <1>1, <1>4 DEF floatScale2, Finite
  <2>2. Magnitude(u) = 0
    BY <1>4 DEF Magnitude
  <2> QED BY <1>1, <1>3, <1>4, <2>1, <2>2
<1>5. CASE e = 0 /\ f # 0
  <2>1. v = Packed(s, 0, 2 * f) /\ Magnitude(u) = f
    BY <1>1, <1>5 DEF floatScale2, Magnitude
  <2>2. f \in 0 .. Ones - 1 /\ s \in {0, 1} /\ SignBit \in Nat
    BY <1>1, PowerFacts DEF Field
  <2> HIDE DEF v, s, e, f
  <2>3. CASE 2 * f < Ones
    <3>1. Field(s, 0, 2 * f)
      BY <1>1, <2>2, <2>3 DEF Field
    <3>2. v \in Bits /\ sign(v) = s /\ exponent(v) = 0 /\ frac(v) = 2 * f
      BY <2>1, <3>1, PackedFields
    <3>3. Finite(v) /\ Magnitude(v) = 2 * f
      BY <1>1, <3>2 DEF Finite, Magnitude
    <3> QED BY <1>1, <1>3, <1>5, <2>1, <3>2, <3>3 DEF v
  <2>4. CASE ~(2 * f < Ones)
    <3> DEFINE g == 2 * f - Ones
    <3>1. Field(s, 1, g) /\ g \in Nat /\ Ones + g = 2 * f
      BY <1>1, <2>2, <2>4 DEF Field
    <3>2. v = Packed(s, 1, g)
      <4>1. \A x : x \in Int => x + 0 * Ones + 2 * f = x + 1 * Ones + (2 * f - Ones)
        BY <1>1, <2>2
      <4>2. s * SignBit \in Int
        BY <2>2
      <4> QED BY <2>1, <4>1, <4>2 DEF Packed
    <3> HIDE DEF g
    <3>3. v \in Bits /\ sign(v) = s /\ exponent(v) = 1 /\ frac(v) = g
      BY <3>1, <3>2, PackedFields
    <3>4. Finite(v)
      BY <1>1, <3>3 DEF Finite
    <3>5. Magnitude(v) = (Ones + g) * Power(0)
      <4>1. exponent(v) # 0 /\ 1 - 1 = 0
        BY <3>3
      <4> QED BY <3>3, <3>4, <4>1, MagnitudeFacts
    <3>6. Magnitude(v) = 2 * f
      BY <2>2, <3>1, <3>5, PowerLaws
    <3> QED BY <1>1, <1>3, <1>5, <2>1, <3>3, <3>4, <3>6 DEF v
  <2> QED BY <2>3, <2>4 DEF v
<1>6. CASE e # 0 /\ e # MaxExp
  <2>1. v = Packed(s, e + 1, f)
    BY <1>6 DEF floatScale2
  <2>2. Field(s, e + 1, f) /\ e \in 1 .. MaxExp - 2 /\ f \in 0 .. Ones - 1
    BY <1>1, <1>6 DEF Field
  <2>3. v \in Bits /\ sign(v) = s /\ exponent(v) = e + 1 /\ frac(v) = f
    BY <2>1, <2>2, PackedFields
  <2>4. Finite(v) /\ Finite(u)
    BY <1>1, <1>6, <2>2, <2>3 DEF Finite
  <2>5. Magnitude(v) = (Ones + f) * Power(e) /\ Magnitude(u) = (Ones + f) * Power(e - 1)
    <3>1. exponent(v) # 0 /\ exponent(v) - 1 = e
      BY <2>2, <2>3
    <3>2. Magnitude(v) = (Ones + f) * Power(exponent(v) - 1)
      BY <2>3, <2>4, <3>1, MagnitudeFacts
    <3>3. Magnitude(u) = (Ones + f) * Power(e - 1)
      BY <1>6, <2>4, MagnitudeFacts
    <3> QED BY <3>1, <3>2, <3>3
  <2>6. Power(e) = 2 * Power(e - 1) /\ Power(e - 1) \in Nat
    <3>1. e - 1 \in 0 .. MaxExp /\ (e - 1) + 1 = e
      BY <1>1, <2>2
    <3>2. e - 1 \in 0 .. MaxExp + 1
      BY <1>1, <2>2
    <3> QED BY <3>1, <3>2, PowerLaws
  <2>7. \A a, b \in Nat : a * (2 * b) = 2 * (a * b)
    OBVIOUS
  <2>8. Magnitude(v) = 2 * Magnitude(u)
    <3>1. Ones + f \in Nat
      BY <1>1, <2>2
    <3> QED BY <2>5, <2>6, <2>7, <3>1
  <2> QED BY <1>3, <1>6, <2>3, <2>4, <2>8
<1> QED
  BY <1>2, <1>4, <1>5, <1>6

\* floatScale2 errs exactly at the finite floats whose double is infinite,
\* unless they are powers of two: it answers with a NaN (bits.c:285).
THEOREM ScaleErrs ==
  ASSUME NEW u \in Bits
  PROVE  /\ floatScale2(u) # test_floatScale2(u) <=> exponent(u) = MaxExp - 1 /\ frac(u) # 0
         /\ HasDouble(u) => exponent(u) # MaxExp - 1
<1>1. CASE exponent(u) # MaxExp - 1
  BY <1>1, DoubleIsExact
<1>2. CASE exponent(u) = MaxExp - 1
  <2> DEFINE s == sign(u)
             f == frac(u)
  <2>1. /\ test_floatScale2(u) = Packed(s, MaxExp, 0) /\ ~HasDouble(u)
    BY <1>2, DoubleIsInfinite DEF HasDouble
  <2>2. MaxExp \in Nat /\ MaxExp > 4
    BY PowerFacts
  <2>3. floatScale2(u) = Packed(s, MaxExp, f)
    <3>1. MaxExp - 1 # 0 /\ MaxExp - 1 # MaxExp /\ (MaxExp - 1) + 1 = MaxExp
      BY <2>2
    <3>2. floatScale2(u) = Packed(s, exponent(u) + 1, f)
      BY <1>2, <3>1 DEF floatScale2
    <3> QED BY <1>2, <3>1, <3>2
  <2>4. Field(s, MaxExp, f) /\ Field(s, MaxExp, 0)
    BY <2>2, Fields, PowerFacts DEF Field
  <2>5. frac(Packed(s, MaxExp, f)) = f /\ frac(Packed(s, MaxExp, 0)) = 0
    BY <2>4, PackedFields
  <2>6. floatScale2(u) # test_floatScale2(u) <=> f # 0
    BY <2>1, <2>3, <2>5
  <2> QED BY <1>2, <2>1, <2>6
<1> QED
  BY <1>1, <1>2

-----------------------------------------------------------------------------
(* floatFloat2Int.                                                         *)

\* The value of a finite float without its fraction and sign.
Whole(u) == Magnitude(u) \div Power(Bias - 1 + FracBits)

\* The significand times 2^E, over the implied one.
LEMMA WholeIs ==
  ASSUME NEW u \in Bits, Finite(u), NEW E \in Nat, exponent(u) = Bias + E
  PROVE  /\ E <= Bias
         /\ Whole(u) = ((Ones + frac(u)) * Power(E)) \div Ones
<1> DEFINE b == Power(Bias - 1)
           m == Ones + frac(u)
<1>1. /\ Bias \in Nat /\ Bias > 2 /\ Bias > FracBits /\ FracBits \in Nat /\ Width \in Nat
      /\ MaxExp = 2 * Bias + 1 /\ Ones \in Nat \ {0} /\ Ones = Power(FracBits)
  BY PowerFacts, PowerLaws
<1>2. exponent(u) \in 0 .. MaxExp - 1 /\ frac(u) \in 0 .. Ones - 1
  BY MagnitudeFacts
<1>3. E <= Bias
  BY <1>1, <1>2
<1>4. Bias - 1 \in 0 .. MaxExp + 1 /\ E \in 0 .. MaxExp + 1 /\ m \in Nat
      /\ Bias - 1 + FracBits <= MaxExp + 1 /\ E + (Bias - 1) <= MaxExp + 1
  BY <1>1, <1>2, <1>3
<1>5. b \in Nat \ {0} /\ Power(E) \in Nat \ {0}
  BY <1>4, PowerLaws
<1>6. Power(Bias - 1 + FracBits) = b * Ones
  BY <1>1, <1>4, PowerLaws
<1>7. Magnitude(u) = (m * Power(E)) * b
  <2>1. exponent(u) # 0 /\ exponent(u) - 1 = E + (Bias - 1)
    BY <1>1
  <2>2. Magnitude(u) = m * Power(E + (Bias - 1))
    BY <2>1, MagnitudeFacts
  <2>3. Power(E + (Bias - 1)) = Power(E) * b
    BY <1>1, <1>4, PowerLaws
  <2>4. m * (Power(E) * b) = (m * Power(E)) * b
    BY <1>4, <1>5
  <2> QED BY <2>2, <2>3, <2>4
<1> HIDE DEF b, m
<1>8. m * Power(E) \in Nat /\ b * Ones = Ones * b
  BY <1>1, <1>4, <1>5
<1>9. ((m * Power(E)) * b) \div (Ones * b) = (m * Power(E)) \div Ones
  BY <1>1, <1>5, <1>8, DivCancel
<1> QED
  BY <1>3, <1>6, <1>7, <1>8, <1>9 DEF Whole, m

LEMMA WholeFacts ==
  ASSUME NEW u \in Bits, Finite(u), NEW E \in Nat, exponent(u) = Bias + E
  PROVE  /\ Whole(u) \in Nat
         /\ E <= FracBits =>
               /\ Power(FracBits - E) \in Nat \ {0}
               /\ Whole(u) = (Ones + frac(u)) \div Power(FracBits - E)
         /\ E >= FracBits =>
               /\ Power(E - FracBits) \in Nat \ {0}
               /\ Whole(u) = (Ones + frac(u)) * Power(E - FracBits)
         /\ E <= Width - 2 => Whole(u) < SignBit
<1> DEFINE m == Ones + frac(u)
           w == Whole(u)
<1>1. /\ FracBits \in Nat /\ Ones \in Nat \ {0} /\ Ones = Power(FracBits)
      /\ Bias \in Nat /\ MaxExp = 2 * Bias + 1 /\ Bias > FracBits /\ Width \in Nat /\ Bias > Width
      /\ SignBit = Power(Width - 1) /\ Width >= 3
  BY PowerFacts, PowerLaws
<1>2. frac(u) \in 0 .. Ones - 1 /\ E <= Bias /\ w = (m * Power(E)) \div Ones
  BY MagnitudeFacts, WholeIs
<1>3. Power(E) \in Nat \ {0} /\ m \in Nat /\ m < 2 * Ones
  <2>1. E \in 0 .. MaxExp + 1
    BY <1>1, <1>2
  <2>2. Power(E) \in Nat \ {0}
    BY <2>1, PowerLaws
  <2> QED BY <1>1, <1>2, <2>2
<1> HIDE DEF m, w
<1>4. m * Power(E) \in Nat
  BY <1>3
<1>5. w \in Nat /\ w * Ones <= m * Power(E)
  <2>1. \A x \in Nat, y \in Nat \ {0} : x \div y \in Nat /\ (x \div y) * y <= x
    OBVIOUS
  <2> QED BY <1>1, <1>2, <1>4, <2>1
<1>6. ASSUME E <= FracBits
      PROVE  /\ Power(FracBits - E) \in Nat \ {0}
             /\ w = m \div Power(FracBits - E)
  <2>1. FracBits - E \in Nat /\ FracBits - E \in 0 .. MaxExp + 1 /\ (FracBits - E) + E = FracBits
        /\ FracBits <= MaxExp + 1
    BY <1>1, <1>6
  <2>2. Power(FracBits - E) \in Nat \ {0}
    BY <2>1, PowerLaws
  <2>3. Power((FracBits - E) + E) = Power(FracBits - E) * Power(E)
    BY <2>1, PowerLaws
  <2> QED BY <1>1, <1>2, <1>3, <2>1, <2>2, <2>3, DivCancel
<1>7. ASSUME E >= FracBits
      PROVE  /\ Power(E - FracBits) \in Nat \ {0}
             /\ w = m * Power(E - FracBits)
  <2> DEFINE p == Power(E - FracBits)
  <2>1. E - FracBits \in Nat /\ E - FracBits \in 0 .. MaxExp + 1 /\ (E - FracBits) + FracBits = E
        /\ E <= MaxExp + 1
    BY <1>1, <1>2, <1>7
  <2>2. p \in Nat \ {0} /\ Power(E) = p * Ones
    <3>1. p \in Nat \ {0}
      BY <2>1, PowerLaws
    <3>2. Power((E - FracBits) + FracBits) = p * Power(FracBits)
      BY <1>1, <2>1, PowerLaws
    <3> QED BY <1>1, <2>1, <3>1, <3>2
  <2> HIDE DEF p
  <2>3. m * (p * Ones) = (m * p) * Ones + 0 /\ m * p \in Nat /\ 0 \in 0 .. Ones - 1
    BY <1>1, <1>3, <2>2
  <2>4. ((m * p) * Ones + 0) \div Ones = m * p
    BY <1>1, <2>3, DivMod
  <2> QED BY <1>2, <2>2, <2>3, <2>4 DEF p
<1>8. ASSUME E <= Width - 2 PROVE w < SignBit
  <2>1. E < Width - 1 /\ Width - 1 \in Nat /\ Width - 1 <= MaxExp + 1
    BY <1>1, <1>8
  <2>2. 2 * Power(E) <= SignBit /\ SignBit \in Nat
    BY <1>1, <2>1, PowerLaws, PowerFacts
  <2>3. m * Power(E) + Power(E) <= (2 * Ones) * Power(E)
    BY <1>1, <1>3, Products
  <2>4. (2 * Power(E)) * Ones <= SignBit * Ones
    BY <1>1, <1>3, <2>2, Products
  <2>5. (2 * Power(E)) * Ones = (2 * Ones) * Power(E) /\ (2 * Ones) * Power(E) \in Nat /\ SignBit * Ones \in Nat
    BY <1>1, <1>3, <2>2
  <2>6. m * Power(E) < SignBit * Ones
    BY <1>3, <1>4, <2>3, <2>4, <2>5
  <2>7. w * Ones \in Nat /\ w * Ones < SignBit * Ones
    BY <1>1, <1>4, <1>5, <2>5, <2>6
  <2>8. SignBit <= w => SignBit * Ones <= w * Ones
    BY <1>1, <1>5, <2>2, Products
  <2> QED BY <1>5, <2>2, <2>5, <2>7, <2>8
<1> QED
  BY <1>5, <1>6, <1>7, <1>8 DEF m, w

\* Below 1.
LEMMA WholeIsZero ==
  ASSUME NEW u \in Bits, Finite(u), exponent(u) < Bias
  PROVE  Whole(u) = 0
<1> DEFINE e == exponent(u)
           b == Power(Bias - 1 + FracBits)
<1>1. /\ Bias \in Nat /\ Bias > 2 /\ Bias > FracBits /\ FracBits \in Nat /\ FracBits # 0
      /\ MaxExp = 2 * Bias + 1 /\ Ones \in Nat \ {0} /\ Ones = Power(FracBits) /\ Width \in Nat
  BY PowerFacts, PowerLaws
<1>2. e \in 0 .. Bias - 1 /\ Magnitude(u) \in Nat
  BY <1>1, MagnitudeFacts
<1>3. b \in Nat \ {0}
  <2>1. Bias - 1 + FracBits \in 0 .. MaxExp + 1
    BY <1>1
  <2> QED BY <2>1, PowerLaws
<1>4. Magnitude(u) < b
  <2>1. CASE e = 0
    <3>1. Magnitude(u) < Ones
      BY <1>1, <2>1, MagnitudeFacts
    <3>2. FracBits < Bias - 1 + FracBits /\ Bias - 1 + FracBits <= MaxExp + 1 /\ Bias - 1 + FracBits \in Nat
      BY <1>1
    <3>3. 2 * Ones <= b
      BY <1>1, <3>2, PowerLaws
    <3> QED BY <1>1, <1>2, <1>3, <3>1, <3>3
  <2>2. CASE e # 0
    <3> DEFINE p == Power(e - 1)
    <3>1. p \in Nat \ {0} /\ Magnitude(u) < 2 * (Ones * p)
      BY <2>2, MagnitudeFacts
    <3>2. /\ e - 1 \in Nat /\ e - 1 < Bias - 1 /\ Bias - 1 <= MaxExp + 1 /\ Bias - 1 \in Nat
          /\ (Bias - 1) + FracBits <= MaxExp + 1 /\ Bias - 1 \in 0 .. MaxExp + 1
      BY <1>1, <1>2, <2>2
    <3>3. 2 * p <= Power(Bias - 1) /\ Power(Bias - 1) \in Nat /\ b = Power(Bias - 1) * Ones
      BY <1>1, <3>2, PowerLaws
    <3> HIDE DEF p, b
    <3>4. (2 * p) * Ones <= Power(Bias - 1) * Ones
      BY <1>1, <3>1, <3>3, Products
    <3>5. (2 * p) * Ones = 2 * (Ones * p) /\ Ones * p \in Nat
      BY <1>1, <3>1
    <3> QED BY <1>2, <1>3, <3>1, <3>3, <3>4, <3>5
  <2> QED BY <2>1, <2>2
<1> HIDE DEF b
<1>5. \A x \in Nat, y \in Nat \ {0} : x < y => x \div y = 0
  OBVIOUS
<1>6. Whole(u) = Magnitude(u) \div b
  BY DEF Whole, b
<1> QED
  BY <1>2, <1>3, <1>4, <1>5, <1>6

LEMMA TruncatedFacts ==
  ASSUME NEW u \in Bits, Finite(u)
  PROVE  /\ Truncated(u) = IF sign(u) = 1 THEN -Whole(u) ELSE Whole(u)
         /\ test_floatFloat2Int(u) = IF HasInteger(u) THEN Truncated(u) ELSE TMin
         /\ HasInteger(u) <=> Truncated(u) \in -SignBit .. SignBit - 1
BY DEF Truncated, Whole, Power, test_floatFloat2Int, HasInteger, TMin, TMax, SignBit

\* The solution, below the greatest power of two an int reaches.
LEMMA ToIntIsExact ==
  ASSUME NEW u \in Bits, exponent(u) # Bias + Width - 1
  PROVE  floatFloat2Int(u) = test_floatFloat2Int(u)
<1> DEFINE s == sign(u)
           e == exponent(u)
           E == e - Bias
           m == frac(u) + Ones
           w == Whole(u)
<1>1. /\ FracBits \in Nat \ {0} /\ ExpBits \in Nat \ {0} /\ Width = 1 + ExpBits + FracBits
      /\ Bias \in Nat /\ MaxExp = 2 * Bias + 1 /\ Bias > Width /\ Ones \in Nat \ {0}
      /\ SignBit \in Nat \ {0} /\ 2 ^ Width = 2 * SignBit /\ TMin = -SignBit
  <2>1. /\ FracBits \in Nat \ {0} /\ ExpBits \in Nat \ {0} /\ Width = 1 + ExpBits + FracBits
        /\ Bias > Width
    BY PowerLaws
  <2>2. /\ Bias \in Nat /\ MaxExp = 2 * Bias + 1 /\ Ones \in Nat \ {0}
        /\ SignBit = (MaxExp + 1) * Ones /\ 2 ^ Width = 2 * SignBit
    BY PowerFacts
  <2>3. SignBit \in Nat \ {0}
    <3>1. 1 * Ones <= (MaxExp + 1) * Ones
      BY <2>2, Products
    <3> QED BY <2>2, <3>1
  <2> QED BY <2>1, <2>2, <2>3 DEF TMin, SignBit
<1>2. /\ s \in {0, 1} /\ e \in 0 .. MaxExp /\ frac(u) \in 0 .. Ones - 1
      /\ m = Ones + frac(u) /\ m \in Nat
  BY <1>1, Fields DEF Field
<1>3. floatFloat2Int(u) =
          IF e = MaxExp THEN TMin
          ELSE IF e = 0 \/ E < 0 THEN 0
          ELSE IF E > Width - 1 THEN TMin
          ELSE IF s = 1 THEN Negated(Shifted(m, E)) ELSE Shifted(m, E)
  BY DEF floatFloat2Int
<1>4. e = MaxExp <=> ~Finite(u)
  BY DEF Finite
<1>5. /\ test_floatFloat2Int(u) = IF Finite(u) /\ Truncated(u) \in -SignBit .. SignBit - 1
                                  THEN Truncated(u) ELSE TMin
      /\ Finite(u) => Truncated(u) = IF s = 1 THEN -w ELSE w
  <2>1. HasInteger(u) => Finite(u)
    BY DEF HasInteger
  <2>2. ~Finite(u) => test_floatFloat2Int(u) = TMin
    BY DEF test_floatFloat2Int
  <2> QED BY <2>1, <2>2, TruncatedFacts
<1> HIDE DEF s, m
<1>6. CASE e = MaxExp
  BY <1>3, <1>4, <1>5, <1>6
<1>7. CASE e # MaxExp /\ e < Bias
  <2>1. w = 0 /\ Finite(u)
    BY <1>4, <1>7, WholeIsZero
  <2>2. E < 0
    BY <1>1, <1>2, <1>7
  <2> HIDE DEF w, e, E
  <2>3. floatFloat2Int(u) = 0
    BY <1>3, <1>7, <2>2
  <2> QED BY <1>1, <1>5, <2>1, <2>3
<1>8. CASE e # MaxExp /\ e >= Bias /\ E <= Width - 2
  <2>1. E \in Nat /\ e = Bias + E /\ Finite(u) /\ e # 0 /\ ~(E < 0) /\ ~(E > Width - 1)
    BY <1>1, <1>2, <1>4, <1>8
  <2>2. w \in Nat /\ w < SignBit
    BY <1>8, <2>1, WholeFacts
  <2> HIDE DEF e, E
  <2>3. Shifted(m, E) = w
    <3>1. CASE E > FracBits
      <4>1. w = (Ones + frac(u)) * Power(E - FracBits)
        <5>1. E >= FracBits
          BY <1>1, <2>1, <3>1
        <5> QED BY <2>1, <5>1, WholeFacts DEF e
      <4>2. w = m * 2 ^ (E - FracBits)
        BY <1>2, <4>1 DEF Power
      <4>3. Shifted(m, E) = AsInt(w % 2 ^ Width)
        BY <3>1, <4>2 DEF Shifted
      <4> HIDE DEF w
      <4>4. w % (2 * SignBit) = w
        <5>1. \A x, y \in Nat : x < y => x % y = x
          OBVIOUS
        <5> QED BY <1>1, <2>2, <5>1
      <4> QED BY <1>1, <2>2, <4>3, <4>4 DEF AsInt
    <3>2. CASE ~(E > FracBits)
      <4>1. w = (Ones + frac(u)) \div Power(FracBits - E)
        <5>1. E <= FracBits
          BY <1>1, <2>1, <3>2
        <5> QED BY <2>1, <5>1, WholeFacts DEF e
      <4> QED BY <1>2, <3>2, <4>1 DEF Power, Shifted
    <3> QED BY <3>1, <3>2
  <2> HIDE DEF w
  <2>4. Negated(w) = -w
    BY <1>1, <2>2 DEF Negated
  <2>5. floatFloat2Int(u) = IF s = 1 THEN -w ELSE w
    BY <1>3, <1>8, <2>1, <2>3, <2>4
  <2>6. (IF s = 1 THEN -w ELSE w) \in -SignBit .. SignBit - 1
    BY <1>1, <2>2
  <2> QED BY <1>5, <2>1, <2>5, <2>6
<1>9. CASE e # MaxExp /\ e >= Bias /\ E > Width - 2
  <2>1. E \in Nat /\ e = Bias + E /\ Finite(u) /\ E >= Width
    BY <1>1, <1>2, <1>4, <1>9
  <2>2. w \in Nat /\ w = (Ones + frac(u)) * Power(E - FracBits) /\ E - FracBits \in Nat
    <3>1. E >= FracBits
      BY <1>1, <2>1
    <3> QED BY <1>1, <2>1, <3>1, WholeFacts
  <2>3. 2 * (MaxExp + 1) <= Power(E - FracBits) /\ Power(E - FracBits) \in Nat
    <3>1. /\ ExpBits \in Nat /\ E - FracBits \in Nat /\ ExpBits < E - FracBits
          /\ E - FracBits <= MaxExp + 1 /\ E - FracBits \in 0 .. MaxExp + 1
      BY <1>1, <1>2, <2>1
    <3>2. 2 * Power(ExpBits) <= Power(E - FracBits)
      BY <3>1, PowerLaws
    <3>3. Power(E - FracBits) \in Nat \ {0}
      BY <3>1, PowerLaws
    <3> QED BY <3>2, <3>3, PowerLaws
  <2> DEFINE p == Power(E - FracBits)
  <2>4. 2 * SignBit <= Ones * p
    <3> HIDE DEF p
    <3>1. (2 * (MaxExp + 1)) * Ones <= p * Ones
      BY <1>1, <2>3, Products DEF p
    <3>2. SignBit = (MaxExp + 1) * Ones
      BY PowerFacts
    <3>3. (2 * (MaxExp + 1)) * Ones = 2 * SignBit /\ p * Ones = Ones * p
      BY <1>1, <2>3, <3>2 DEF p
    <3> QED BY <3>1, <3>3
  <2>5. Ones * p <= (Ones + frac(u)) * p
    <3>1. Ones <= Ones + frac(u) /\ Ones \in Nat /\ Ones + frac(u) \in Nat
      BY <1>1, <1>2
    <3> QED BY <2>3, <3>1, Products
  <2>6. 2 * SignBit <= w
    <3>1. Ones * p \in Nat
      BY <1>1, <2>3
    <3> HIDE DEF p, w
    <3> QED BY <1>1, <2>2, <2>4, <2>5, <3>1 DEF p
  <2>7. floatFloat2Int(u) = TMin
    <3>1. E > Width - 1 /\ ~(E < 0) /\ e # 0
      BY <1>1, <2>1
    <3> QED BY <1>3, <1>9, <3>1
  <2>8. (IF s = 1 THEN -w ELSE w) \notin -SignBit .. SignBit - 1
    <3> HIDE DEF w
    <3> QED BY <1>1, <2>2, <2>6
  <2> QED BY <1>5, <2>1, <2>7, <2>8
<1> QED
  <2>1. E <= Width - 2 \/ E > Width - 2
    BY <1>1, <1>2
  <2>2. e < Bias \/ e >= Bias
    BY <1>1, <1>2
  <2> QED BY <1>6, <1>7, <1>8, <1>9, <2>1, <2>2

\* floatFloat2Int errs exactly at the floats of a magnitude between 2^31 and
\* 2^32, both excluded: their leading one becomes the sign, and the fraction
\* stays behind it (bits.c:327-330).
THEOREM ToIntErrs ==
  ASSUME NEW u \in Bits
  PROVE  /\ floatFloat2Int(u) # test_floatFloat2Int(u)
               <=> exponent(u) = Bias + Width - 1 /\ frac(u) # 0
         /\ HasInteger(u) => ~(exponent(u) = Bias + Width - 1 /\ frac(u) # 0)
<1>1. CASE exponent(u) # Bias + Width - 1
  BY <1>1, ToIntIsExact
<1>2. CASE exponent(u) = Bias + Width - 1
  <2> DEFINE s == sign(u)
             E == Width - 1
             f == frac(u)
             x == MaxExp + 1
             w == Whole(u)
  <2>1. /\ FracBits \in Nat \ {0} /\ ExpBits \in Nat \ {0} /\ Width = 1 + ExpBits + FracBits
        /\ Bias > Width
    BY PowerLaws
  <2>2. /\ Bias \in Nat /\ MaxExp = 2 * Bias + 1 /\ Ones \in Nat \ {0}
        /\ SignBit = x * Ones /\ 2 ^ Width = 2 * SignBit /\ TMin = -SignBit
    BY PowerFacts DEF TMin, SignBit
  <2>3. /\ E \in Nat /\ E >= FracBits /\ E > FracBits /\ E - FracBits = ExpBits
        /\ exponent(u) = Bias + E /\ exponent(u) # MaxExp /\ exponent(u) # 0
        /\ exponent(u) - Bias = E
    BY <1>2, <2>1, <2>2
  <2>4. Finite(u) /\ s \in {0, 1} /\ f \in 0 .. Ones - 1
    BY <2>3, Fields DEF Finite, Field
  <2>5. w = (Ones + f) * x
    <3>1. w = (Ones + f) * Power(E - FracBits)
      BY <2>3, <2>4, WholeFacts
    <3> QED BY <2>3, <3>1, PowerLaws
  <2>6. x \in Nat \ {0}
    BY <2>2
  <2>7. floatFloat2Int(u) = IF s = 1 THEN Negated(Shifted(f + Ones, E)) ELSE Shifted(f + Ones, E)
    <3>1. ~(E < 0) /\ ~(E > Width - 1)
      BY <2>1
    <3> QED BY <2>3, <3>1 DEF floatFloat2Int
  <2>8. Shifted(f + Ones, E) = AsInt(((f + Ones) * x) % 2 ^ Width)
    <3>1. 2 ^ (E - FracBits) = x
      BY <2>3, PowerLaws DEF Power
    <3> QED BY <2>3, <3>1 DEF Shifted
  <2>9. /\ test_floatFloat2Int(u) = IF Truncated(u) \in -SignBit .. SignBit - 1
                                    THEN Truncated(u) ELSE TMin
        /\ Truncated(u) = IF s = 1 THEN -w ELSE w
        /\ HasInteger(u) <=> Truncated(u) \in -SignBit .. SignBit - 1
    BY <2>4, TruncatedFacts
  <2> DEFINE y == f * x
  <2> HIDE DEF w, x, E, s, f
  <2>10. w = SignBit + y /\ (f + Ones) * x = w /\ y \in Nat /\ SignBit \in Nat
    <3>1. (Ones + f) * x = x * Ones + f * x /\ (f + Ones) * x = (Ones + f) * x
      BY <2>2, <2>4, <2>6
    <3>2. f * x \in Nat /\ x * Ones \in Nat
      BY <2>2, <2>4, <2>6
    <3> QED BY <2>2, <2>5, <3>1, <3>2
  <2>11. y + x <= SignBit /\ (y = 0 <=> f = 0)
    <3>1. f * x + x <= Ones * x
      BY <2>2, <2>4, <2>6, Products
    <3>2. Ones * x = x * Ones
      BY <2>2, <2>6
    <3>3. f # 0 => 1 * x <= f * x
      BY <2>4, <2>6, Products
    <3>4. f = 0 => y = 0
      BY <2>6
    <3>5. f # 0 => y # 0
      BY <2>6, <3>3
    <3> QED BY <2>2, <3>1, <3>2, <3>4, <3>5
  <2> HIDE DEF y
  <2>12. Shifted(f + Ones, E) = y - SignBit
    <3>1. w % (2 * SignBit) = w
      <4>1. \A a, b \in Nat : a < b => a % b = a
        OBVIOUS
      <4> QED BY <2>6, <2>10, <2>11, <4>1
    <3> QED BY <2>2, <2>8, <2>10, <3>1 DEF AsInt
  <2>13. Negated(y - SignBit) = IF y = 0 THEN TMin ELSE SignBit - y
    BY <2>2, <2>10 DEF Negated
  <2>14. floatFloat2Int(u) = IF y = 0 THEN TMin ELSE IF s = 1 THEN SignBit - y ELSE y - SignBit
    BY <2>2, <2>7, <2>10, <2>12, <2>13
  <2>15. /\ test_floatFloat2Int(u) = TMin
         /\ y # 0 => ~HasInteger(u)
    <3>1. CASE s = 1
      BY <2>2, <2>9, <2>10, <3>1
    <3>2. CASE s # 1
      BY <2>2, <2>9, <2>10, <3>2
    <3> QED BY <3>1, <3>2
  <2>16. y # 0 => floatFloat2Int(u) # TMin
    BY <2>2, <2>6, <2>10, <2>11, <2>14
  <2>17. floatFloat2Int(u) # test_floatFloat2Int(u) <=> f # 0
    BY <2>11, <2>14, <2>15, <2>16
  <2> QED BY <1>2, <2>11, <2>15, <2>17 DEF f
<1> QED
  BY <1>1, <1>2

-----------------------------------------------------------------------------
(* The arguments.                                                          *)

LEMMA RangeFacts ==
  ASSUME NEW args
  PROVE  arg_test_range(args) \in 1 .. TEST_RANGE
<1>1. ASSUME NEW k PROVE Root(k) \in 1 .. TEST_RANGE
  <2> DEFINE S == {1} \cup {x \in 1 .. TEST_RANGE :
                              IF k = 3 THEN x ^ 3 < TEST_RANGE ELSE x ^ k <= TEST_RANGE}
  <2>1. S \subseteq 1 .. TEST_RANGE /\ 1 \in S /\ S \subseteq Nat
    BY BTestAssumption
  <2>2. IsFiniteSet(1 .. TEST_RANGE)
    BY FS_Interval, BTestAssumption
  <2>3. IsFiniteSet(S)
    BY <2>1, <2>2, FS_Subset
  <2>4. Root(k) = Max(S)
    BY DEF Root
  <2> HIDE DEF S
  <2>5. Max(S) \in S
    BY <2>1, <2>3, MaxFacts
  <2> QED BY <2>1, <2>4, <2>5
<1> QED
  BY <1>1 DEF arg_test_range

LEMMA IntBlockFacts ==
  ASSUME NEW min \in Int, NEW max \in Int, NEW k \in Int, NEW random \in Int
  PROVE  /\ IntBlock(min, max, k, random) \in Seq(Int)
         /\ Len(IntBlock(min, max, k, random)) <= 5
         /\ {min + k, max - k, random} \subseteq Range(IntBlock(min, max, k, random))
         /\ {k, -k} \cap (min .. max) \subseteq Range(IntBlock(min, max, k, random))
<1> DEFINE a == <<min + k, max - k>>
           b == Within(k, min, max)
           c == Within(-k, min, max)
           d == <<random>>
<1>1. /\ a \in Seq(Int) /\ Len(a) = 2 /\ Range(a) = {min + k, max - k}
      /\ d \in Seq(Int) /\ Len(d) = 1 /\ Range(d) = {random}
  <2>1. a \in Seq(Int) /\ Len(a) = 2 /\ DOMAIN a = {1, 2} /\ a[1] = min + k /\ a[2] = max - k
    OBVIOUS
  <2>2. d \in Seq(Int) /\ Len(d) = 1 /\ DOMAIN d = {1} /\ d[1] = random
    OBVIOUS
  <2> HIDE DEF a, d
  <2> QED BY <2>1, <2>2 DEF Range
<1>2. ASSUME NEW x \in Int
      PROVE  /\ Within(x, min, max) \in Seq(Int) /\ Len(Within(x, min, max)) <= 1
             /\ Len(Within(x, min, max)) \in Nat
             /\ {x} \cap (min .. max) \subseteq Range(Within(x, min, max))
  <2>1. CASE x \in min .. max
    <3>1. <<x>> \in Seq(Int) /\ Len(<<x>>) = 1 /\ 1 \in DOMAIN <<x>> /\ <<x>>[1] = x
      OBVIOUS
    <3>2. Within(x, min, max) = <<x>>
      BY <2>1 DEF Within
    <3> QED BY <3>1, <3>2 DEF Range
  <2>2. CASE x \notin min .. max
    <3>1. Within(x, min, max) = <<>>
      BY <2>2 DEF Within
    <3> QED BY <2>2, <3>1
  <2> QED BY <2>1, <2>2
<1>3. /\ b \in Seq(Int) /\ Len(b) <= 1 /\ Len(b) \in Nat
      /\ {k} \cap (min .. max) \subseteq Range(b)
  BY <1>2
<1>4. /\ c \in Seq(Int) /\ Len(c) <= 1 /\ Len(c) \in Nat
      /\ {-k} \cap (min .. max) \subseteq Range(c)
  <2>1. -k \in Int
    OBVIOUS
  <2> QED BY <1>2, <2>1
<1>5. IntBlock(min, max, k, random) = ((a \o b) \o c) \o d
  BY DEF IntBlock
<1> HIDE DEF a, b, c, d
<1>6. LET s == ((a \o b) \o c) \o d
      IN  /\ s \in Seq(Int) /\ Len(s) = Len(a) + Len(b) + Len(c) + Len(d)
          /\ Range(s) = Range(a) \cup Range(b) \cup Range(c) \cup Range(d)
  <2>1. a \in Seq(Int) /\ b \in Seq(Int) /\ c \in Seq(Int) /\ d \in Seq(Int)
    BY <1>1, <1>3, <1>4
  <2> QED BY <2>1, ConcatFour
<1> DEFINE s == IntBlock(min, max, k, random)
<1>7. /\ s \in Seq(Int) /\ Len(s) = Len(a) + Len(b) + Len(c) + Len(d)
      /\ Range(s) = Range(a) \cup Range(b) \cup Range(c) \cup Range(d)
  BY <1>5, <1>6
<1> HIDE DEF s
<1>8. Len(s) <= 5
  BY <1>1, <1>3, <1>4, <1>7
<1>9. s = IntBlock(min, max, k, random)
  BY DEF s
<1> QED
  BY <1>1, <1>3, <1>4, <1>7, <1>8, <1>9

LEMMA IntValsFacts ==
  ASSUME NEW test, test.min \in Int, test.max \in Int, test.min <= test.max,
         test.max - test.min # MAX_TEST_VALS,
         NEW range \in 1 .. TEST_RANGE, NEW random \in [1 .. range -> Int]
  PROVE  /\ IntVals(test.min, test.max, range, random) \in Seq(Int) \ {<<>>}
         /\ Len(IntVals(test.min, test.max, range, random)) <= MAX_TEST_VALS
         /\ PromisedInts(test, range) \subseteq
               Range(IntVals(test.min, test.max, range, random))
<1> DEFINE min == test.min
           max == test.max
           vals == IntVals(min, max, range, random)
<1>1. /\ range \in Nat \ {0} /\ range <= TEST_RANGE /\ TEST_RANGE \in Nat
      /\ MAX_TEST_VALS \in Nat /\ 5 * range <= MAX_TEST_VALS
  BY BTestAssumption DEF MAX_TEST_VALS
<1>2. min \in Int /\ max \in Int /\ min <= max /\ max - min # MAX_TEST_VALS
  OBVIOUS
<1>3. PromisedInts(test, range) =
          (Near(min, range) \cup Near(0, range) \cup Near(max, range)) \cap (min .. max)
  BY DEF PromisedInts
<1> HIDE DEF min, max
<1>4. CASE max - MAX_TEST_VALS <= min
  <2> DEFINE f == [k \in 1 .. max - min + 1 |-> min + k - 1]
  <2>1. vals = f
    BY <1>4 DEF IntVals
  <2>2. max - min + 1 \in Nat \ {0} /\ max - min + 1 <= MAX_TEST_VALS
    BY <1>1, <1>2, <1>4
  <2>3. f \in [1 .. max - min + 1 -> Int]
    BY <1>2
  <2>4. f \in Seq(Int)
    BY <2>2, <2>3, SeqDef
  <2>5. Len(f) = max - min + 1
    <3>1. DOMAIN f = 1 .. Len(f) /\ Len(f) \in Nat /\ DOMAIN f = 1 .. max - min + 1
      BY <2>4, LenProperties
    <3> QED BY <2>2, <3>1
  <2>6. ASSUME NEW x \in min .. max PROVE x \in Range(f)
    <3>1. x - min + 1 \in 1 .. max - min + 1 /\ min + (x - min + 1) - 1 = x
      BY <1>2
    <3>2. x - min + 1 \in DOMAIN f /\ f[x - min + 1] = x
      BY <3>1
    <3> QED BY <3>2 DEF Range
  <2> HIDE DEF f
  <2>7. f # <<>>
    BY <2>2, <2>5
  <2>8. PromisedInts(test, range) \subseteq Range(f)
    BY <1>3, <2>6
  <2> QED BY <2>1, <2>2, <2>4, <2>5, <2>7, <2>8 DEF min, max
<1>5. CASE ~(max - MAX_TEST_VALS <= min)
  <2> DEFINE block(k) == IntBlock(min, max, k - 1, random[k])
             ss == [k \in 1 .. range |-> block(k)]
  <2>1. vals = FlattenSeq(ss)
    BY <1>5 DEF IntVals
  <2>2. ASSUME NEW k \in 1 .. range
        PROVE  /\ block(k) \in Seq(Int) /\ Len(block(k)) <= 5
               /\ {min + (k - 1), max - (k - 1), random[k]} \subseteq Range(block(k))
               /\ {k - 1, -(k - 1)} \cap (min .. max) \subseteq Range(block(k))
    <3>1. k - 1 \in Int /\ random[k] \in Int
      BY <1>1
    <3> QED BY <1>2, <3>1, IntBlockFacts
  <2> HIDE DEF block
  <2>3. /\ ss \in [1 .. range -> Seq(Int)] /\ 5 \in Nat /\ \A k \in 1 .. range : Len(ss[k]) <= 5
        /\ \A k \in 1 .. range : ss[k] = block(k)
    BY <2>2
  <2> HIDE DEF ss
  <2>4. /\ FlattenSeq(ss) \in Seq(Int) /\ Len(FlattenSeq(ss)) <= 5 * range
        /\ \A k \in 1 .. range : Range(ss[k]) \subseteq Range(FlattenSeq(ss))
    BY <1>1, <2>3, FlattenFacts
  <2>5. ASSUME NEW k \in 0 .. range - 1
        PROVE  /\ {min + k, max - k} \subseteq Range(FlattenSeq(ss))
               /\ {k, -k} \cap (min .. max) \subseteq Range(FlattenSeq(ss))
    <3>1. k + 1 \in 1 .. range /\ (k + 1) - 1 = k
      BY <1>1
    <3>2. Range(block(k + 1)) \subseteq Range(FlattenSeq(ss))
      BY <2>3, <2>4, <3>1
    <3>3. /\ {min + k, max - k} \subseteq Range(block(k + 1))
          /\ {k, -k} \cap (min .. max) \subseteq Range(block(k + 1))
      BY <2>2, <3>1
    <3> QED BY <3>2, <3>3
  <2>6. FlattenSeq(ss) # <<>>
    <3>1. 0 \in 0 .. range - 1
      BY <1>1
    <3>2. min + 0 \in Range(FlattenSeq(ss))
      BY <2>5, <3>1
    <3>3. Range(<<>>) = {}
      BY DEF Range
    <3> QED BY <3>2, <3>3
  <2>7. ASSUME NEW x \in PromisedInts(test, range) PROVE x \in Range(FlattenSeq(ss))
    <3>1. /\ x \in min .. max
          /\ \E y \in {min, 0, max} : x \in y - range + 1 .. y + range - 1
      BY <1>3 DEF Near
    <3>2. CASE x \in min - range + 1 .. min + range - 1
      <4>1. x - min \in 0 .. range - 1 /\ min + (x - min) = x
        BY <1>1, <1>2, <3>1, <3>2
      <4> QED BY <2>5, <4>1
    <3>3. CASE x \in max - range + 1 .. max + range - 1
      <4>1. max - x \in 0 .. range - 1 /\ max - (max - x) = x
        BY <1>1, <1>2, <3>1, <3>3
      <4> QED BY <2>5, <4>1
    <3>4. CASE x \in 0 - range + 1 .. 0 + range - 1
      <4>1. CASE x >= 0
        <5>1. x \in 0 .. range - 1
          BY <1>1, <3>4, <4>1
        <5> QED BY <2>5, <3>1, <5>1
      <4>2. CASE x < 0
        <5>1. -x \in 0 .. range - 1 /\ -(-x) = x
          BY <1>1, <3>4, <4>2
        <5> QED BY <2>5, <3>1, <5>1
      <4> QED BY <1>2, <3>1, <4>1, <4>2
    <3> QED BY <3>1, <3>2, <3>3, <3>4
  <2> DEFINE all == FlattenSeq(ss)
  <2>8. Len(all) \in Nat
    BY <2>4, LenProperties
  <2> HIDE DEF all
  <2>9. Len(all) <= MAX_TEST_VALS
    BY <1>1, <2>4, <2>8 DEF all
  <2> QED BY <2>1, <2>4, <2>6, <2>7, <2>9 DEF min, max, all
<1> QED
  BY <1>4, <1>5

LEMMA Landmarks ==
  /\ smallest_norm = Ones /\ Ones \in Nat \ {0} /\ one \in Nat /\ one > 2 * Ones
  /\ largest_norm = 2 * one /\ inf = 2 * one + Ones /\ nan \in inf .. inf + Ones - 1
  /\ SignBit = 2 * one + 2 * Ones /\ Bits = 0 .. 2 * SignBit - 1
<1> DEFINE b == Bias
           o == Ones
           a == b * o
<1>1. /\ o \in Nat \ {0} /\ b \in Nat /\ b > 2 /\ MaxExp = 2 * b + 1
      /\ SignBit = (2 * b + 1 + 1) * o /\ Bits = 0 .. 2 * SignBit - 1
  BY PowerFacts DEF Bits
<1>2. /\ smallest_norm = o /\ one = a
      /\ largest_norm = (2 * b + 1 - 1) * o /\ inf = (2 * b + 1) * o /\ nan = inf + (o \div 2)
  BY <1>1 DEF smallest_norm, one, largest_norm, inf, nan
<1> HIDE DEF b, o
<1>3. /\ (2 * b + 1 + 1) * o = 2 * a + 2 * o
      /\ (2 * b + 1 - 1) * o = 2 * a /\ (2 * b + 1) * o = 2 * a + o
  BY <1>1
<1>4. a \in Nat /\ a = 3 * o + (b - 3) * o /\ (b - 3) * o \in Nat
  BY <1>1
<1>5. a > 2 * o
  BY <1>1, <1>4
<1> HIDE DEF a
<1>6. o \div 2 \in 0 .. o - 1
  BY <1>1
<1>7. /\ largest_norm = 2 * a /\ inf = 2 * a + o /\ SignBit = 2 * a + 2 * o
      /\ nan \in inf .. inf + o - 1
  BY <1>1, <1>2, <1>3, <1>4, <1>6
<1> QED
  BY <1>1, <1>2, <1>4, <1>5, <1>7 DEF a, b, o

LEMMA SignedFacts ==
  ASSUME NEW us \in Seq(0 .. SignBit - 1)
  PROVE  /\ Signed(us) \in Seq(Bits) /\ Len(Signed(us)) = 2 * Len(us)
         /\ Range(us) \subseteq Range(Signed(us))
         /\ \A x \in Range(us) : SignBit + x \in Range(Signed(us))
         /\ \A y \in Range(Signed(us)) : \E x \in Range(us) : y \in {x, SignBit + x}
<1> DEFINE m == Len(us)
           neg == [k \in 1 .. m |-> SignBit + us[k]]
<1>1. /\ SignBit \in Nat /\ Bits = 0 .. 2 * SignBit - 1
  BY Landmarks
<1>2. m \in Nat /\ DOMAIN us = 1 .. m /\ \A k \in 1 .. m : us[k] \in 0 .. SignBit - 1
  BY LenProperties
<1>3. Signed(us) = us \o neg
  BY <1>2 DEF Signed
<1>4. us \in Seq(Bits)
  <2>1. us \in [1 .. m -> Bits]
    <3>1. \A k \in 1 .. m : us[k] \in Bits
      BY <1>1, <1>2
    <3>2. us = [k \in 1 .. m |-> us[k]]
      BY <1>2
    <3> QED BY <3>1, <3>2
  <2> QED BY <1>2, <2>1, SeqDef
<1>5. neg \in [1 .. m -> Bits] /\ \A k \in 1 .. m : neg[k] = SignBit + us[k]
  <2>1. \A k \in 1 .. m : SignBit + us[k] \in Bits
    BY <1>1, <1>2
  <2> QED BY <2>1
<1> HIDE DEF neg
<1>6. neg \in Seq(Bits) /\ Len(neg) = m
  BY <1>2, <1>5, AsSequence
<1>7. /\ us \o neg \in Seq(Bits) /\ Len(us \o neg) = m + m
      /\ Range(us \o neg) = Range(us) \cup Range(neg)
  BY <1>4, <1>6, ConcatFacts
<1>8. /\ \A x \in Range(us) : SignBit + x \in Range(neg)
      /\ \A y \in Range(neg) : \E x \in Range(us) : y = SignBit + x
  <2>1. DOMAIN neg = 1 .. m
    BY <1>5
  <2> QED BY <1>2, <1>5, <2>1 DEF Range
<1> QED
  BY <1>2, <1>3, <1>7, <1>8

\* Both signs of a magnitude.
Both(x) == {x, SignBit + x}

LEMMA SignedOne ==
  ASSUME NEW x \in 0 .. SignBit - 1
  PROVE  /\ Signed(<<x>>) \in Seq(Bits) /\ Len(Signed(<<x>>)) = 2
         /\ Range(Signed(<<x>>)) = Both(x)
<1> DEFINE q == <<x>>
<1>1. q \in Seq(0 .. SignBit - 1) /\ Len(q) = 1 /\ DOMAIN q = {1} /\ q[1] = x
  OBVIOUS
<1> HIDE DEF q
<1>2. Range(q) = {x}
  BY <1>1 DEF Range
<1>3. /\ Signed(q) \in Seq(Bits) /\ Len(Signed(q)) = 2 * Len(q)
      /\ Range(q) \subseteq Range(Signed(q))
      /\ \A z \in Range(q) : SignBit + z \in Range(Signed(q))
      /\ \A y \in Range(Signed(q)) : \E z \in Range(q) : y \in {z, SignBit + z}
  BY <1>1, SignedFacts
<1>4. Signed(q) \in Seq(Bits) /\ Len(Signed(q)) = 2 /\ Range(Signed(q)) = Both(x)
  BY <1>1, <1>2, <1>3 DEF Both
<1> QED
  BY <1>4 DEF q

LEMMA SignedTwo ==
  ASSUME NEW x \in 0 .. SignBit - 1, NEW y \in 0 .. SignBit - 1
  PROVE  /\ Signed(<<x, y>>) \in Seq(Bits) /\ Len(Signed(<<x, y>>)) = 4
         /\ Range(Signed(<<x, y>>)) = Both(x) \cup Both(y)
<1> DEFINE q == <<x, y>>
<1>1. /\ q \in Seq(0 .. SignBit - 1) /\ Len(q) = 2
      /\ DOMAIN q = {1, 2} /\ q[1] = x /\ q[2] = y
  OBVIOUS
<1> HIDE DEF q
<1>2. Range(q) = {x, y}
  BY <1>1 DEF Range
<1>3. /\ Signed(q) \in Seq(Bits) /\ Len(Signed(q)) = 2 * Len(q)
      /\ Range(q) \subseteq Range(Signed(q))
      /\ \A z \in Range(q) : SignBit + z \in Range(Signed(q))
      /\ \A w \in Range(Signed(q)) : \E z \in Range(q) : w \in {z, SignBit + z}
  BY <1>1, SignedFacts
<1>4. /\ Signed(q) \in Seq(Bits) /\ Len(Signed(q)) = 4
      /\ Range(Signed(q)) = Both(x) \cup Both(y)
  BY <1>1, <1>2, <1>3 DEF Both
<1> QED
  BY <1>4 DEF q

\* The magnitudes of one round.
Samples(k) == {k, Ones + k, Ones - k, one + k, one - k, largest_norm - k}

LEMMA FloatBlockFacts ==
  ASSUME NEW k \in 0 .. Ones - 1
  PROVE  /\ FloatBlock(k) \in Seq(Bits) /\ Len(FloatBlock(k)) = 12
         /\ Range(FloatBlock(k)) = UNION {Both(x) : x \in Samples(k)}
<1> DEFINE a == Signed(<<k>>)
           b == Signed(<<smallest_norm + k, smallest_norm - k>>)
           c == Signed(<<one + k, one - k>>)
           d == Signed(<<largest_norm - k>>)
           w == ((a \o b) \o c) \o d
<1>1. /\ smallest_norm = Ones /\ Ones \in Nat \ {0} /\ one \in Nat /\ one > 2 * Ones
      /\ largest_norm = 2 * one /\ SignBit = 2 * one + 2 * Ones
  BY Landmarks
<1>2. /\ k \in 0 .. SignBit - 1
      /\ Ones + k \in 0 .. SignBit - 1 /\ Ones - k \in 0 .. SignBit - 1
      /\ one + k \in 0 .. SignBit - 1 /\ one - k \in 0 .. SignBit - 1
      /\ largest_norm - k \in 0 .. SignBit - 1
  BY <1>1
<1>3. a \in Seq(Bits) /\ Len(a) = 2 /\ Range(a) = Both(k)
  BY <1>2, SignedOne
<1>4. b \in Seq(Bits) /\ Len(b) = 4 /\ Range(b) = Both(Ones + k) \cup Both(Ones - k)
  BY <1>1, <1>2, SignedTwo
<1>5. c \in Seq(Bits) /\ Len(c) = 4 /\ Range(c) = Both(one + k) \cup Both(one - k)
  BY <1>2, SignedTwo
<1>6. d \in Seq(Bits) /\ Len(d) = 2 /\ Range(d) = Both(largest_norm - k)
  BY <1>2, SignedOne
<1>7. FloatBlock(k) = w
  BY DEF FloatBlock
<1> HIDE DEF a, b, c, d
<1>8. /\ w \in Seq(Bits) /\ Len(w) = Len(a) + Len(b) + Len(c) + Len(d)
      /\ Range(w) = Range(a) \cup Range(b) \cup Range(c) \cup Range(d)
  <2>1. a \in Seq(Bits) /\ b \in Seq(Bits) /\ c \in Seq(Bits) /\ d \in Seq(Bits)
    BY <1>3, <1>4, <1>5, <1>6
  <2> QED BY <2>1, ConcatFour
<1> HIDE DEF w
<1>9. Len(w) = 12
  BY <1>3, <1>4, <1>5, <1>6, <1>8
<1>10. Range(w) = UNION {Both(x) : x \in Samples(k)}
  BY <1>3, <1>4, <1>5, <1>6, <1>8 DEF Samples
<1> QED
  BY <1>7, <1>8, <1>9, <1>10

\* Not an argument at which a solved puzzle errs (ScaleErrs, ToIntErrs).
Tame(u) == u \in Bits /\ (frac(u) # 0 => exponent(u) \notin {MaxExp - 1, Bias + Width - 1})

LEMMA BothTame ==
  ASSUME NEW e \in 0 .. MaxExp, NEW f \in 0 .. Ones - 1,
         f # 0 => e \notin {MaxExp - 1, Bias + Width - 1}
  PROVE  \A u \in Both(e * Ones + f) : Tame(u)
<1>1. Ones \in Nat \ {0} /\ MaxExp \in Nat /\ SignBit = (MaxExp + 1) * Ones
  BY PowerFacts
<1>2. e * Ones + f = Packed(0, e, f) /\ SignBit + (e * Ones + f) = Packed(1, e, f)
  <2>1. e * Ones \in Nat /\ SignBit \in Nat
    BY <1>1
  <2> QED BY <1>1, <2>1 DEF Packed
<1>3. Field(0, e, f) /\ Field(1, e, f)
  BY DEF Field
<1>4. Tame(Packed(0, e, f)) /\ Tame(Packed(1, e, f))
  BY <1>3, PackedFields DEF Tame
<1> QED
  BY <1>2, <1>4 DEF Both

\* gen_vals spares the solved puzzles: what it tries near the greatest floats
\* is below them, and nothing is near the greatest int.
LEMMA SamplesTame ==
  /\ \A k \in 0 .. Ones - 1 : \A x \in Samples(k) : \A u \in Both(x) : Tame(u)
  /\ \A x \in {inf, nan} : \A u \in Both(x) : Tame(u)
<1> DEFINE o == Ones
<1>1. /\ o \in Nat \ {0} /\ Bias \in Nat /\ Bias > 2 /\ MaxExp = 2 * Bias + 1
      /\ Width \in Nat /\ Width >= 3 /\ Bias > Width
  <2>1. Width \in Nat /\ Width >= 3 /\ Bias > Width
    BY FloatAssumption DEF Width
  <2> QED BY <2>1, PowerFacts
<1>2. \A e \in 0 .. MaxExp, f \in 0 .. o - 1 :
          (f = 0 \/ e \notin {MaxExp - 1, Bias + Width - 1})
              => \A u \in Both(e * o + f) : Tame(u)
  BY BothTame
<1>3. /\ one = Bias * o /\ largest_norm = (MaxExp - 1) * o /\ inf = MaxExp * o
      /\ nan = inf + (o \div 2)
  BY DEF one, largest_norm, inf, nan
<1> HIDE DEF o
<1>4. ASSUME NEW k \in 0 .. o - 1, NEW e \in 0 .. MaxExp,
             e # 0, k = 0 \/ e - 1 \notin {MaxExp - 1, Bias + Width - 1}
      PROVE  \A u \in Both(e * o - k) : Tame(u)
  <2>1. CASE k = 0
    <3>1. e * o - k = e * o + 0 /\ 0 \in 0 .. o - 1
      BY <1>1, <2>1
    <3> QED BY <1>2, <3>1
  <2>2. CASE k # 0
    <3>1. e * o - k = (e - 1) * o + (o - k) /\ e - 1 \in 0 .. MaxExp /\ o - k \in 0 .. o - 1
      BY <1>1, <1>4, <2>2
    <3> QED BY <1>2, <1>4, <2>2, <3>1
  <2> QED BY <2>1, <2>2
<1>5. ASSUME NEW k \in 0 .. o - 1, NEW x \in Samples(k)
      PROVE  \A u \in Both(x) : Tame(u)
  <2>1. /\ 0 * o + k = k /\ 1 * o + k = o + k /\ 1 * o - k = o - k
        /\ 0 \in 0 .. MaxExp /\ 1 \in 0 .. MaxExp /\ Bias \in 0 .. MaxExp
        /\ Bias - 1 \in 0 .. MaxExp /\ MaxExp - 1 \in 0 .. MaxExp /\ MaxExp - 2 \in 0 .. MaxExp
        /\ {0, 1, Bias - 1, Bias, MaxExp - 2} \cap {MaxExp - 1, Bias + Width - 1} = {}
    BY <1>1
  <2>2. CASE x = k
    BY <1>2, <2>1, <2>2
  <2>3. CASE x = o + k
    BY <1>2, <2>1, <2>3
  <2>4. CASE x = o - k
    <3>1. 1 - 1 = 0 /\ 1 # 0
      OBVIOUS
    <3> QED BY <1>4, <2>1, <2>4, <3>1
  <2>5. CASE x = one + k
    BY <1>2, <1>3, <2>1, <2>5
  <2>6. CASE x = one - k
    <3>1. Bias # 0
      BY <1>1
    <3> QED BY <1>3, <1>4, <2>1, <2>6, <3>1
  <2>7. CASE x = largest_norm - k
    <3>1. MaxExp - 1 # 0 /\ (MaxExp - 1) - 1 = MaxExp - 2
      BY <1>1
    <3> QED BY <1>3, <1>4, <2>1, <2>7, <3>1
  <2> QED BY <2>2, <2>3, <2>4, <2>5, <2>6, <2>7 DEF Samples, o
<1>6. \A x \in {inf, nan} : \A u \in Both(x) : Tame(u)
  <2>1. /\ inf = MaxExp * o + 0 /\ nan = MaxExp * o + (o \div 2)
        /\ 0 \in 0 .. o - 1 /\ o \div 2 \in 0 .. o - 1
        /\ MaxExp \in 0 .. MaxExp /\ MaxExp \notin {MaxExp - 1, Bias + Width - 1}
    BY <1>1, <1>3
  <2> QED BY <1>2, <2>1
<1> QED
  BY <1>5, <1>6 DEF o

LEMMA FloatValsFacts ==
  ASSUME NEW range \in 1 .. TEST_RANGE, range <= Ones
  PROVE  /\ FloatVals(range) \in Seq(Bits) \ {<<>>}
         /\ Len(FloatVals(range)) <= MAX_TEST_VALS
         /\ PromisedFloats(range) \subseteq Range(FloatVals(range))
         /\ \A u \in Range(FloatVals(range)) : Tame(u)
<1> DEFINE block(k) == FloatBlock(k - 1)
           ss == [k \in 1 .. range |-> block(k)]
           all == FlattenSeq(ss)
           i1 == Signed(<<inf>>)
           i2 == Signed(<<nan>>)
           vals == FloatVals(range)
<1>1. /\ smallest_norm = Ones /\ Ones \in Nat \ {0} /\ one \in Nat /\ one > 2 * Ones
      /\ largest_norm = 2 * one /\ SignBit = 2 * one + 2 * Ones /\ Bits = 0 .. 2 * SignBit - 1
      /\ inf \in 0 .. SignBit - 1 /\ nan \in 0 .. SignBit - 1
  BY Landmarks
<1>2. /\ range \in Nat \ {0} /\ range <= TEST_RANGE /\ TEST_RANGE \in Nat
      /\ 12 * range + 4 <= MAX_TEST_VALS
  BY BTestAssumption DEF MAX_TEST_VALS
<1>3. ASSUME NEW k \in 1 .. range
      PROVE  /\ FloatBlock(k - 1) \in Seq(Bits) /\ Len(FloatBlock(k - 1)) = 12
  <2>1. k - 1 \in 0 .. Ones - 1
    BY <1>1, <1>2
  <2> QED BY <2>1, FloatBlockFacts
<1>4. /\ ss \in [1 .. range -> Seq(Bits)] /\ 12 \in Nat /\ \A k \in 1 .. range : Len(ss[k]) <= 12
      /\ \A k \in 1 .. range : ss[k] = FloatBlock(k - 1)
  <2>1. \A k \in 1 .. range : block(k) \in Seq(Bits) /\ Len(block(k)) = 12
    BY <1>3
  <2>2. \A k \in 1 .. range : block(k) = FloatBlock(k - 1)
    OBVIOUS
  <2> HIDE DEF block
  <2>3. ss \in [1 .. range -> Seq(Bits)] /\ \A k \in 1 .. range : ss[k] = block(k)
    BY <2>1
  <2> HIDE DEF ss
  <2>4. \A k \in 1 .. range : Len(ss[k]) = 12 /\ ss[k] = FloatBlock(k - 1)
    BY <2>1, <2>2, <2>3
  <2>5. 12 \in Nat /\ \A x : x = 12 => x <= 12
    OBVIOUS
  <2> QED BY <2>3, <2>4, <2>5
<1> HIDE DEF ss
<1>5. /\ all \in Seq(Bits) /\ Len(all) <= 12 * range
      /\ \A k \in 1 .. range : Range(ss[k]) \subseteq Range(all)
      /\ \A x \in Range(all) : \E k \in 1 .. range : x \in Range(ss[k])
  BY <1>2, <1>4, FlattenFacts
<1>7. /\ i1 \in Seq(Bits) /\ Len(i1) = 2 /\ Range(i1) = Both(inf)
      /\ i2 \in Seq(Bits) /\ Len(i2) = 2 /\ Range(i2) = Both(nan)
  BY <1>1, SignedOne
<1>8. vals = (all \o i1) \o i2
  BY DEF FloatVals, ss
<1> HIDE DEF all, i1, i2, vals
<1>9. /\ vals \in Seq(Bits) /\ Len(vals) = Len(all) + 2 + 2 /\ Len(all) \in Nat
      /\ Range(vals) = Range(all) \cup Range(i1) \cup Range(i2)
  <2>0. \A x, y \in Seq(Bits) : /\ x \o y \in Seq(Bits) /\ Len(x \o y) = Len(x) + Len(y)
                                /\ Range(x \o y) = Range(x) \cup Range(y)
    BY ConcatFacts
  <2>1. /\ all \o i1 \in Seq(Bits) /\ Len(all \o i1) = Len(all) + Len(i1)
        /\ Range(all \o i1) = Range(all) \cup Range(i1)
    BY <1>5, <1>7, <2>0
  <2> DEFINE w == all \o i1
  <2>2. vals = w \o i2
    BY <1>8
  <2> HIDE DEF w
  <2>3. w \in Seq(Bits) /\ Len(w) = Len(all) + Len(i1) /\ Range(w) = Range(all) \cup Range(i1)
    BY <2>1 DEF w
  <2>4. /\ w \o i2 \in Seq(Bits) /\ Len(w \o i2) = Len(w) + Len(i2)
        /\ Range(w \o i2) = Range(w) \cup Range(i2)
    BY <1>7, <2>3, <2>0
  <2>5. Len(all) \in Nat
    BY <1>5, LenProperties
  <2> QED BY <1>7, <2>2, <2>3, <2>4, <2>5
<1>10. vals # <<>> /\ Len(vals) <= MAX_TEST_VALS
  <2>1. Len(vals) # 0
    BY <1>9
  <2>2. Len(vals) <= 12 * range + 4 /\ Len(vals) \in Nat /\ MAX_TEST_VALS \in Nat
    BY <1>2, <1>5, <1>9 DEF MAX_TEST_VALS
  <2> QED BY <1>2, <2>1, <2>2
<1>11. ASSUME NEW k \in 0 .. range - 1,
              NEW x \in Samples(k)
       PROVE  Both(x) \subseteq Range(vals)
  <2>1. k + 1 \in 1 .. range /\ (k + 1) - 1 = k /\ k \in 0 .. Ones - 1
    BY <1>1, <1>2
  <2>2. Range(FloatBlock(k)) \subseteq Range(all)
    BY <1>4, <1>5, <2>1
  <2>3. Both(x) \subseteq Range(FloatBlock(k))
    BY <2>1, FloatBlockFacts
  <2> QED BY <1>9, <2>2, <2>3
<1>12. ASSUME NEW u \in PromisedFloats(range) PROVE u \in Range(vals)
  <2> DEFINE abs == u % SignBit
  <2>1. /\ u \in Bits
        /\ \/ \E x \in {0, smallest_norm, one} : abs \in Near(x, range)
           \/ abs \in largest_norm - range + 1 .. largest_norm
           \/ abs \in {inf, nan}
    BY DEF PromisedFloats
  <2>2. u \in Both(abs) /\ abs \in 0 .. SignBit - 1
    <3>1. abs \in 0 .. SignBit - 1
      <4>1. u \in Nat /\ SignBit \in Nat \ {0}
        BY <1>1, <2>1
      <4>2. \A y \in Nat \ {0}, z \in Nat : z % y \in 0 .. y - 1
        OBVIOUS
      <4> QED BY <4>1, <4>2
    <3>2. SignBit \in Nat \ {0} /\ u \in 0 .. 2 * SignBit - 1
      BY <1>1, <2>1
    <3>3. u = abs \/ u = SignBit + abs
      <4>1. CASE u < SignBit
        BY <3>2, <4>1
      <4>2. CASE ~(u < SignBit)
        <5>1. u - SignBit \in 0 .. SignBit - 1
          BY <3>2, <4>2
        <5>2. \A y \in Nat \ {0} : \A z \in 0 .. y - 1 : (y + z) % y = z
          <6>1. ASSUME NEW y \in Nat \ {0}, NEW z \in 0 .. y - 1 PROVE (y + z) % y = z
            <7>1. (1 * y + z) % y = z
              BY DivMod
            <7> QED BY <7>1
          <6> QED BY <6>1
        <5>3. (SignBit + (u - SignBit)) % SignBit = u - SignBit
          BY <3>2, <5>1, <5>2
        <5>4. SignBit + (u - SignBit) = u
          BY <3>2
        <5> QED BY <3>2, <5>3, <5>4
      <4> QED BY <4>1, <4>2
    <3> QED BY <3>1, <3>3 DEF Both
  <2> HIDE DEF abs
  <2>3. SUFFICES Both(abs) \subseteq Range(vals)
    BY <2>2
  <2>4. ASSUME NEW k \in 0 .. range - 1,
               abs \in {k, Ones + k, Ones - k, one + k, one - k, largest_norm - k}
        PROVE  Both(abs) \subseteq Range(vals)
    BY <1>11, <2>4 DEF Samples
  <2>5. CASE abs \in Near(0, range)
    <3>1. abs \in 0 .. range - 1
      BY <1>2, <2>2, <2>5 DEF Near
    <3> QED BY <2>4, <3>1
  <2>6. CASE abs \in Near(smallest_norm, range)
    <3>1. abs \in Ones - range + 1 .. Ones + range - 1
      BY <1>1, <2>6 DEF Near
    <3>2. CASE abs >= Ones
      <4>1. abs - Ones \in 0 .. range - 1 /\ abs = Ones + (abs - Ones)
        BY <1>1, <1>2, <2>2, <3>1, <3>2
      <4> QED BY <2>4, <4>1
    <3>3. CASE abs < Ones
      <4>1. Ones - abs \in 0 .. range - 1 /\ abs = Ones - (Ones - abs)
        BY <1>1, <1>2, <2>2, <3>1, <3>3
      <4> QED BY <2>4, <4>1
    <3> QED BY <1>1, <2>2, <3>2, <3>3
  <2>7. CASE abs \in Near(one, range)
    <3>1. abs \in one - range + 1 .. one + range - 1
      BY <2>7 DEF Near
    <3>2. CASE abs >= one
      <4>1. abs - one \in 0 .. range - 1 /\ abs = one + (abs - one)
        BY <1>1, <1>2, <2>2, <3>1, <3>2
      <4> QED BY <2>4, <4>1
    <3>3. CASE abs < one
      <4>1. one - abs \in 0 .. range - 1 /\ abs = one - (one - abs)
        BY <1>1, <1>2, <2>2, <3>1, <3>3
      <4> QED BY <2>4, <4>1
    <3> QED BY <1>1, <2>2, <3>2, <3>3
  <2>8. CASE abs \in largest_norm - range + 1 .. largest_norm
    <3>1. largest_norm - abs \in 0 .. range - 1 /\ abs = largest_norm - (largest_norm - abs)
      BY <1>1, <1>2, <2>2, <2>8
    <3> QED BY <2>4, <3>1
  <2>9. CASE abs = inf \/ abs = nan
    BY <1>7, <1>9, <2>9
  <2> QED BY <2>1, <2>5, <2>6, <2>7, <2>8, <2>9
<1>13. ASSUME NEW u \in Range(vals) PROVE Tame(u)
  <2>1. CASE u \in Range(i1) \cup Range(i2)
    BY <1>7, <2>1, SamplesTame
  <2>2. CASE u \in Range(all)
    <3>1. PICK k \in 1 .. range : u \in Range(ss[k])
      BY <1>5, <2>2
    <3>2. u \in Range(FloatBlock(k - 1)) /\ k - 1 \in 0 .. Ones - 1
      BY <1>1, <1>2, <1>4, <3>1
    <3>3. PICK x \in Samples(k - 1) : u \in Both(x)
      BY <3>2, FloatBlockFacts
    <3> QED BY <3>2, <3>3, SamplesTame
  <2> QED BY <1>9, <2>1, <2>2
<1> QED
  BY <1>9, <1>10, <1>12, <1>13 DEF vals

\* What the arguments of a puzzle are: bits of a float, or integers.
Arg(test) == IF OnFloats(test) THEN Bits ELSE Int

ArgvalOK == \A x \in DOMAIN argval : argval[x] \in Bits

\* An argument that btest has found for a puzzle on floats, or was given.
Tried(arg, u) == IF arg \in DOMAIN argval THEN u = argval[arg] ELSE Tame(u)

\* The arrays hold whatever gen_vals promises, and nothing wild.
Generated ==
    /\ test_vals \in Arrays(t.args, Arg(t))
    /\ \A arg \in 1 .. t.args :
          /\ Promised(t, arg) \subseteq Range(test_vals[arg])
          /\ OnFloats(t) => \A u \in Range(test_vals[arg]) : Tried(arg, u)

LEMMA TestFacts ==
  ASSUME NEW k \in Tests
  PROVE  LET test == test_set[k]
         IN  /\ test \in TestRecs /\ test.args \in 0 .. 3 /\ test.rating \in Nat
             /\ test.min \in Int /\ test.max \in Int /\ test.min <= test.max
             /\ test.max - test.min # MAX_TEST_VALS
             /\ test.name \in Solved => OnFloats(test) /\ test.args = 1
             /\ Tests = 1 .. Len(test_set) /\ Len(test_set) \in Nat
<1>1. /\ Tests = 1 .. Len(test_set) /\ Len(test_set) \in Nat
      /\ test_set[k] \in TestRecs
  BY TestSetAssumption, LenProperties, ElementOfSeq DEF Tests
<1>2. TMin .. TMax \subseteq Int
  OBVIOUS
<1> QED
  BY <1>1, <1>2, TestSetAssumption DEF TestRecs, Tests

LEMMA GenFacts ==
  ASSUME ArgvalOK, i \in Tests, NEW arg,
         NEW random \in [1 .. arg_test_range(t.args) -> Randoms]
  PROVE  LET vals == gen_vals(arg, arg_test_range(t.args), random)
         IN  /\ vals \in Seq(Arg(t)) \ {<<>>} /\ Len(vals) <= MAX_TEST_VALS
             /\ Promised(t, arg) \subseteq Range(vals)
             /\ OnFloats(t) => \A u \in Range(vals) : Tried(arg, u)
<1> DEFINE range == arg_test_range(t.args)
           vals == gen_vals(arg, range, random)
<1>1. range \in 1 .. TEST_RANGE /\ TEST_RANGE \in Nat /\ TEST_RANGE >= 4
  BY RangeFacts, BTestAssumption
<1>2. random \in [1 .. range -> Int]
  <2>1. Randoms \subseteq Int
    BY BTestAssumption
  <2> QED BY <2>1
<1>3. /\ t.min \in Int /\ t.max \in Int /\ t.min <= t.max /\ t.max - t.min # MAX_TEST_VALS
  BY TestFacts DEF t
<1>4. CASE arg \in DOMAIN argval
  <2> DEFINE x == IF OnFloats(t) THEN argval[arg] ELSE AsInt(argval[arg])
  <2>1. x \in Arg(t)
    <3>1. argval[arg] \in Bits
      BY <1>4 DEF ArgvalOK
    <3>2. SignBit \in Int /\ 2 ^ Width \in Int /\ Bits \subseteq Int
      BY Landmarks, PowerFacts
    <3>3. AsInt(argval[arg]) \in Int
      <4> DEFINE p == 2 ^ Width
      <4>1. p \in Int /\ argval[arg] \in Int
        BY <3>1, <3>2
      <4>2. AsInt(argval[arg]) = IF argval[arg] >= SignBit THEN argval[arg] - p ELSE argval[arg]
        BY DEF AsInt
      <4> HIDE DEF p
      <4> QED BY <4>1, <4>2
    <3> QED BY <3>1, <3>3 DEF Arg
  <2>2. vals = <<x>>
    BY <1>4 DEF gen_vals
  <2>3. Promised(t, arg) = {x}
    BY <1>4 DEF Promised
  <2> HIDE DEF x
  <2> DEFINE q == <<x>>
  <2>4. q \in Seq(Arg(t)) /\ Len(q) = 1 /\ DOMAIN q = {1} /\ q[1] = x
    BY <2>1
  <2>5. q # <<>> /\ 1 <= MAX_TEST_VALS
    BY <1>1 DEF MAX_TEST_VALS
  <2> HIDE DEF q
  <2>6. Range(q) = {x} /\ (OnFloats(t) => Tried(arg, x))
    BY <1>4, <2>4 DEF Range, Tried, x
  <2>7. vals = q
    BY <2>2 DEF q
  <2> HIDE DEF vals
  <2>8. /\ vals \in Seq(Arg(t)) \ {<<>>} /\ Len(vals) <= MAX_TEST_VALS
        /\ Promised(t, arg) \subseteq Range(vals)
        /\ OnFloats(t) => \A u \in Range(vals) : Tried(arg, u)
    BY <2>3, <2>4, <2>5, <2>6, <2>7
  <2> QED BY <2>8 DEF vals
<1>5. CASE arg \notin DOMAIN argval /\ OnFloats(t)
  <2> DEFINE r == IF range > Ones THEN Ones ELSE range
  <2>1. vals = FloatVals(r) /\ Arg(t) = Bits
    BY <1>5 DEF gen_vals, Arg
  <2>2. r \in 1 .. TEST_RANGE /\ r <= Ones
    BY <1>1, Landmarks
  <2>3. Promised(t, arg) = PromisedFloats(Min({range, Ones}))
    BY <1>5 DEF Promised
  <2>4. Min({range, Ones}) = r
    <3> DEFINE S == {range, Ones}
    <3>1. S \subseteq Nat /\ IsFiniteSet(S) /\ S # {}
      <4>1. IsFiniteSet({range}) /\ IsFiniteSet({range} \cup {Ones})
        BY FS_Singleton, FS_AddElement
      <4>2. S = {range} \cup {Ones}
        OBVIOUS
      <4>3. range \in Nat /\ Ones \in Nat
        BY <1>1, Landmarks
      <4> QED BY <4>1, <4>2, <4>3
    <3>2. Min(S) \in S /\ \A y \in S : Min(S) <= y
      BY <3>1, MinFacts
    <3> QED BY <1>1, <3>2, Landmarks
  <2> HIDE DEF r, range, vals
  <2>5. /\ vals \in Seq(Arg(t)) \ {<<>>} /\ Len(vals) <= MAX_TEST_VALS
        /\ Promised(t, arg) \subseteq Range(vals)
        /\ \A u \in Range(vals) : Tried(arg, u)
    BY <1>5, <2>1, <2>2, <2>3, <2>4, FloatValsFacts DEF Tried
  <2> QED BY <2>5 DEF vals, range
<1>6. CASE arg \notin DOMAIN argval /\ ~OnFloats(t)
  <2>1. vals = IntVals(t.min, t.max, range, random) /\ Arg(t) = Int
    BY <1>6 DEF gen_vals, Arg
  <2>2. Promised(t, arg) = PromisedInts(t, range)
    BY <1>6 DEF Promised
  <2> HIDE DEF range, vals
  <2>3. /\ vals \in Seq(Arg(t)) \ {<<>>} /\ Len(vals) <= MAX_TEST_VALS
        /\ Promised(t, arg) \subseteq Range(vals)
    BY <1>1, <1>2, <1>3, <2>1, <2>2, IntValsFacts
  <2> QED BY <1>6, <2>3 DEF vals, range
<1> QED
  BY <1>4, <1>5, <1>6

-----------------------------------------------------------------------------
(* The types.                                                              *)

\* Where the loops are, and the arguments they run over.
LoopTypes ==
    /\ pc \in {"next", "gen", "alarm", "call", "done", "lost"}
    /\ \A k \in DOMAIN test_vals : Len(test_vals[k]) \in 1 .. MAX_TEST_VALS
    /\ n \in Nat /\ (n = 0 \/ n < Product(Counts(test_vals)))
    /\ pc \in {"gen", "alarm", "call"} => i \in Tests
    /\ pc \in {"alarm", "call"} => Generated
    /\ pc = "alarm" => n = 0
    /\ pc = "call" => n < Product(Counts(test_vals))

ScoreTypes == /\ i \in 1 .. Len(test_set) + 1 /\ verdict \in [Tests -> Verdicts]
              /\ points \in 0 .. max_points /\ max_points \in Nat

ClockTypes == envbuf \in {0} \cup Tests /\ armed \in BOOLEAN /\ blocked \in BOOLEAN

InputTypes == timed \in BOOLEAN /\ ArgvalOK

TypeInv == LoopTypes /\ ScoreTypes /\ ClockTypes /\ InputTypes

LEMMA TestsFacts ==
  /\ Tests = 1 .. Len(test_set) /\ Len(test_set) \in Nat
  /\ \A k \in 1 .. Len(test_set) + 1 : k \notin Tests => k = Len(test_set) + 1
<1>1. /\ Tests = 1 .. Len(test_set) /\ Len(test_set) \in Nat
  BY TestSetAssumption, LenProperties DEF Tests
<1> QED
  BY <1>1

\* test_function returns.
LEMMA VerdictTypes ==
  ASSUME ScoreTypes, i \in Tests, NEW v \in Verdicts, Verdict(v)
  PROVE  ScoreTypes' /\ LoopTypes' /\ pc' = "next"
<1>1. t.rating \in Nat
  BY TestFacts DEF t
<1>2. i' \in 1 .. Len(test_set) + 1
  BY TestsFacts DEF Verdict
<1>3. verdict' \in [Tests -> Verdicts]
  BY DEF ScoreTypes, Verdict
<1>4. points' \in 0 .. max_points' /\ max_points' \in Nat
  BY <1>1 DEF ScoreTypes, Verdict
<1>5. test_vals' = <<>> /\ n' = 0 /\ pc' = "next"
  BY DEF Verdict
<1>6. DOMAIN test_vals' = {}
  BY <1>5
<1>7. LoopTypes'
  BY <1>5, <1>6 DEF LoopTypes
<1> QED
  BY <1>2, <1>3, <1>4, <1>5, <1>7 DEF ScoreTypes

LEMMA GeneratedKept ==
  ASSUME Generated, UNCHANGED <<argval, i, test_vals>>
  PROVE  Generated'
<1>1. t' = t
  BY DEF t
<1> QED
  BY <1>1 DEF Generated, Promised, Tried

LEMMA GenerateTypes ==
  ASSUME TypeInv, GenerateAny
  PROVE  LoopTypes'
<1>1. PICK random \in [1 .. t.args -> [1 .. arg_test_range(t.args) -> Randoms]] :
          Generate(random)
  BY DEF GenerateAny
<1>2. pc = "gen" /\ i \in Tests /\ ArgvalOK
  BY DEF GenerateAny, TypeInv, LoopTypes, InputTypes
<1> DEFINE m == t.args
           vals(arg) == gen_vals(arg, arg_test_range(t.args), random[arg])
<1>3. ASSUME NEW arg \in 1 .. m
      PROVE  /\ vals(arg) \in Seq(Arg(t)) \ {<<>>} /\ Len(vals(arg)) <= MAX_TEST_VALS
             /\ Promised(t, arg) \subseteq Range(vals(arg))
             /\ OnFloats(t) => \A u \in Range(vals(arg)) : Tried(arg, u)
  <2>1. random[arg] \in [1 .. arg_test_range(t.args) -> Randoms]
    OBVIOUS
  <2> QED BY <1>2, <2>1, GenFacts
<1>4. /\ test_vals' = [arg \in 1 .. m |-> vals(arg)]
      /\ n' = 0 /\ pc' = "alarm" /\ i' = i /\ argval' = argval
  BY <1>1 DEF Generate, input
<1>5. m \in 0 .. 3
  BY <1>2, TestFacts DEF t
<1>6. t' = t
  BY <1>4 DEF t
<1> HIDE DEF vals
<1>7. test_vals' \in Arrays(m, Arg(t)) /\ \A arg \in 1 .. m : test_vals'[arg] = vals(arg)
  BY <1>3, <1>4 DEF Arrays
<1>8. \A arg \in 1 .. m : /\ Promised(t, arg)' = Promised(t, arg)
                         /\ \A u : Tried(arg, u)' <=> Tried(arg, u)
  BY <1>4, <1>6 DEF Promised, Tried
<1>9. Generated'
  BY <1>3, <1>6, <1>7, <1>8 DEF Generated
<1>10. /\ \A k \in 1 .. m : Len(test_vals'[k]) \in 1 .. MAX_TEST_VALS
       /\ DOMAIN test_vals' = 1 .. m
  <2>1. MAX_TEST_VALS \in Nat
    BY BTestAssumption DEF MAX_TEST_VALS
  <2>2. DOMAIN test_vals' = 1 .. m
    BY <1>4
  <2>3. ASSUME NEW k \in 1 .. m PROVE Len(test_vals'[k]) \in 1 .. MAX_TEST_VALS
    <3>1. /\ test_vals'[k] \in Seq(Arg(t)) /\ test_vals'[k] # <<>>
          /\ Len(test_vals'[k]) <= MAX_TEST_VALS
      BY <1>3, <1>7
    <3>2. Len(test_vals'[k]) \in Nat /\ Len(test_vals'[k]) # 0
      BY <3>1, LenProperties, EmptySeq
    <3> QED BY <2>1, <3>1, <3>2
  <2> QED BY <2>2, <2>3
<1> QED
  BY <1>2, <1>4, <1>9, <1>10 DEF LoopTypes

LEMMA CallTotal ==
  ASSUME i \in Tests, Generated
  PROVE  /\ Product(Counts(test_vals)) \in Nat \ {0}
         /\ t.args \in 0 .. 3 /\ t.args \in Nat
<1>0. test_vals \in Arrays(t.args, Arg(t))
  BY DEF Generated
<1>1. t.args \in 0 .. 3 /\ t.args \in Nat
  BY TestFacts DEF t
<1>2. Counts(test_vals) \in Seq(Nat \ {0}) /\ Len(Counts(test_vals)) = t.args
  BY <1>0, <1>1, CountsFacts
<1>3. Len(Counts(test_vals)) <= 3
  BY <1>1, <1>2
<1> QED
  BY <1>1, <1>2, <1>3, ProductFacts

\* One call of the puzzle and its reference.
LEMMA CallCases ==
  ASSUME Call
  PROVE  LET a == Combination(test_vals, n)
             last == n + 1 = Product(Counts(test_vals))
         IN  /\ pc = "call" /\ ~Loops(t, a)
             /\ UNCHANGED <<input, clock>>
             /\ \/ Errs(t, a) /\ Verdict("failed")
                \/ ~Errs(t, a) /\ last /\ Verdict("passed")
                \/ ~Errs(t, a) /\ ~last /\ n' = n + 1 /\ UNCHANGED <<i, pc, test_vals, score>>
BY DEF Call, CallWith

LEMMA CallTypes ==
  ASSUME TypeInv, Call
  PROVE  LoopTypes' /\ ScoreTypes'
<1>1. /\ i \in Tests /\ Generated /\ ScoreTypes /\ LoopTypes /\ n \in Nat
      /\ n < Product(Counts(test_vals)) /\ pc = "call"
  BY CallCases DEF TypeInv, LoopTypes
<1>2. Product(Counts(test_vals)) \in Nat
  <2>1. i \in Tests /\ Generated
    BY <1>1
  <2> QED BY <2>1, CallTotal
<1>3. CASE Verdict("failed") \/ Verdict("passed")
  BY <1>1, <1>3, VerdictTypes DEF Verdicts
<1>4. CASE /\ n + 1 # Product(Counts(test_vals)) /\ n' = n + 1
           /\ UNCHANGED <<i, pc, test_vals, score>> /\ UNCHANGED input
  <2>1. Generated'
    BY <1>1, <1>4, GeneratedKept DEF input
  <2> DEFINE total == Product(Counts(test_vals))
  <2>2. total' = total
    BY <1>4 DEF Counts
  <2>3. n' \in Nat /\ n' < total
    BY <1>1, <1>2, <1>4
  <2> HIDE DEF total
  <2>4. n' < total'
    BY <2>2, <2>3
  <2>5. LoopTypes'
    BY <1>1, <1>4, <2>1, <2>3, <2>4 DEF LoopTypes, total
  <2>6. ScoreTypes'
    BY <1>1, <1>4 DEF ScoreTypes, score
  <2> QED BY <2>5, <2>6
<1> QED
  BY <1>3, <1>4, CallCases

LEMMA TypeStep ==
  ASSUME TypeInv, [Next]_vars
  PROVE  TypeInv'
<1>1. LoopTypes /\ ScoreTypes /\ ClockTypes /\ InputTypes
  BY DEF TypeInv
<1>2. InputTypes'
  <2>1. UNCHANGED input
    BY CallCases DEF Next, Run, Start, Skip, Finish, GenerateAny, Generate, SetAlarm,
       TimesOut, TimesOutLate, vars
  <2> QED BY <1>1, <2>1 DEF InputTypes, ArgvalOK, input
<1>3. ClockTypes'
  <2>1. CASE Start \/ Skip \/ Finish \/ UNCHANGED vars
    BY <1>1, <2>1 DEF Start, Skip, Finish, vars, clock, ClockTypes
  <2>2. CASE GenerateAny
    BY <1>1, <2>2 DEF GenerateAny, Generate, ClockTypes, LoopTypes
  <2>3. CASE SetAlarm
    <3>1. armed' \in BOOLEAN
      BY <2>3 DEF SetAlarm
    <3>2. envbuf' = envbuf /\ blocked' = blocked
      BY <2>3 DEF SetAlarm
    <3> QED BY <1>1, <3>1, <3>2 DEF ClockTypes
  <2>4. CASE Call
    <3>1. UNCHANGED clock
      BY <2>4, CallCases
    <3> QED BY <1>1, <3>1 DEF ClockTypes, clock
  <2>5. CASE TimesOut \/ TimesOutLate
    <3>1. armed' = FALSE /\ blocked' = FALSE /\ envbuf' = envbuf
      BY <2>5 DEF TimesOut, TimesOutLate, Jumped
    <3> QED BY <1>1, <3>1 DEF ClockTypes
  <2> QED BY <2>1, <2>2, <2>3, <2>4, <2>5 DEF Next, Run
<1>4. LoopTypes' /\ ScoreTypes'
  <2>1. CASE Start
    BY <1>1, <2>1 DEF Start, LoopTypes, ScoreTypes, Counts, score, input
  <2>2. CASE Skip
    <3>1. i' \in 1 .. Len(test_set) + 1
      <4>1. i \in Tests /\ i' = i + 1
        BY <2>2 DEF Skip
      <4> QED BY <4>1, TestsFacts
    <3> QED BY <1>1, <2>2, <3>1 DEF Skip, LoopTypes, ScoreTypes, Counts, score
  <2>3. CASE Finish
    BY <1>1, <2>3 DEF Finish, LoopTypes, ScoreTypes, Counts, score
  <2>4. CASE GenerateAny
    <3>1. UNCHANGED <<i, score>>
      BY <2>4 DEF GenerateAny, Generate
    <3>2. ScoreTypes'
      BY <1>1, <3>1 DEF ScoreTypes, score
    <3> QED BY <2>4, <3>2, GenerateTypes
  <2>5. CASE SetAlarm
    <3>1. i \in Tests /\ Generated /\ n = 0 /\ pc = "alarm"
      BY <1>1, <2>5 DEF SetAlarm, LoopTypes
    <3>2. pc' = "call" /\ UNCHANGED <<input, i, test_vals, n, score>>
      BY <2>5 DEF SetAlarm
    <3>3. Generated'
      BY <3>1, <3>2, GeneratedKept DEF input
    <3> DEFINE total == Product(Counts(test_vals))
    <3>4. total \in Nat \ {0} /\ total' = total
      <4>1. i \in Tests /\ Generated
        BY <3>1
      <4>2. total \in Nat \ {0}
        BY <4>1, CallTotal
      <4>3. total' = total
        BY <3>2 DEF Counts
      <4> QED BY <4>2, <4>3
    <3> HIDE DEF total
    <3>5. n' < total'
      BY <3>1, <3>2, <3>4
    <3>6. LoopTypes'
      BY <1>1, <3>1, <3>2, <3>3, <3>5 DEF LoopTypes, total
    <3>7. ScoreTypes'
      BY <1>1, <3>2 DEF ScoreTypes, score
    <3> QED BY <3>6, <3>7
  <2>6. CASE Call
    BY <2>6, CallTypes
  <2>7. CASE TimesOut
    <3>1. i \in Tests /\ Verdict("timeout")
      BY <1>1, <2>7 DEF TimesOut, InFrame, LoopTypes
    <3> QED BY <1>1, <3>1, VerdictTypes DEF Verdicts
  <2>8. CASE TimesOutLate
    <3>1. CASE pc = "gen" /\ Verdict("timeout")
      <4>1. i \in Tests
        BY <1>1, <3>1 DEF LoopTypes
      <4> QED BY <1>1, <3>1, <4>1, VerdictTypes DEF Verdicts
    <3>2. CASE pc' = "lost" /\ UNCHANGED <<i, test_vals, n, score>>
      BY <1>1, <3>2 DEF LoopTypes, ScoreTypes, Counts, score
    <3> QED BY <2>8, <3>1, <3>2 DEF TimesOutLate
  <2>9. CASE UNCHANGED vars
    <3>1. UNCHANGED <<argval, i, pc, test_vals, n, verdict, points, max_points>>
      BY <2>9 DEF vars, input, loop, score
    <3>2. Generated => Generated'
      BY <3>1, GeneratedKept
    <3> QED BY <1>1, <3>1, <3>2 DEF LoopTypes, ScoreTypes, Counts
  <2> QED BY <2>1, <2>2, <2>3, <2>4, <2>5, <2>6, <2>7, <2>8, <2>9 DEF Next, Run
<1> QED
  BY <1>2, <1>3, <1>4 DEF TypeInv

LEMMA InitTypes ==
  ASSUME Init
  PROVE  TypeInv
<1>1. ArgvalOK
  <2>1. PICK given \in SUBSET (1 .. 3) : argval \in [given -> Given]
    BY DEF Init
  <2> QED BY <2>1, BTestAssumption DEF ArgvalOK
<1>2. LoopTypes
  <2>1. test_vals = <<>> /\ n = 0 /\ pc = "next"
    BY DEF Init
  <2>2. DOMAIN test_vals = {}
    BY <2>1
  <2> QED BY <2>1, <2>2 DEF LoopTypes
<1>3. ScoreTypes
  <2>1. i = 1 /\ points = 0 /\ max_points = 0
    BY DEF Init
  <2>2. verdict \in [Tests -> Verdicts]
    BY DEF Init, Verdicts
  <2> QED BY <2>1, <2>2, TestsFacts DEF ScoreTypes
<1>4. ClockTypes /\ timed \in BOOLEAN
  BY DEF Init, ClockTypes
<1> QED
  BY <1>1, <1>2, <1>3, <1>4 DEF TypeInv, InputTypes

LEMMA BTestTypes == Spec => []TypeInv
<1>1. Init => TypeInv
  BY InitTypes
<1>2. TypeInv /\ [Next]_vars => TypeInv'
  BY TypeStep
<1> QED
  BY <1>1, <1>2, PTL DEF Spec

\* The arrays of arguments are never empty and never longer than MAX_TEST_VALS,
\* and no array is read past its end.
THEOREM BTestTypeCorrect == Spec => []TypeOK
<1>1. TypeInv => TypeOK
  BY DEF TypeInv, LoopTypes, ScoreTypes, ClockTypes, TypeOK
<1> QED
  BY <1>1, BTestTypes, PTL

-----------------------------------------------------------------------------
(* The verdicts.                                                           *)

\* The puzzle is right at a, and returns.
RightAt(test, a) == ~Errs(test, a) /\ ~Loops(test, a)

RightThroughout(test) == \A a \in PromisedArgs(test) : RightAt(test, a)

\* The puzzle is wrong somewhere; if it is solved, at the argument that was
\* given, whose result is out of range.
Faulted(test) ==
    /\ WrongSomewhere(test)
    /\ test.name \in Solved => 1 \in DOMAIN argval /\ ~InRange(test, argval[1])

VerdictInv ==
    /\ pc = "call" => \A m \in 0 .. n - 1 : RightAt(t, Combination(test_vals, m))
    /\ \A k \in Tests : /\ verdict[k] = "passed" => RightThroughout(test_set[k])
                        /\ verdict[k] = "failed" => Faulted(test_set[k])

\* All this depends on the input alone.
LEMMA FrozenFacts ==
  ASSUME UNCHANGED input, NEW test
  PROVE  /\ \A a : RightAt(test, a)' <=> RightAt(test, a)
         /\ RightThroughout(test)' <=> RightThroughout(test)
         /\ Faulted(test)' <=> Faulted(test)
<1>1. argval' = argval /\ flaw' = flaw
  BY DEF input
<1>2. \A a : /\ Errs(test, a)' <=> Errs(test, a)
             /\ Loops(test, a)' <=> Loops(test, a)
  BY <1>1 DEF Errs, Loops
<1>3. \A a : RightAt(test, a)' <=> RightAt(test, a)
  BY <1>2 DEF RightAt
<1>4. PromisedArgs(test)' = PromisedArgs(test)
  BY <1>1 DEF PromisedArgs, Promised
<1>5. WrongSomewhere(test)' <=> WrongSomewhere(test)
  BY <1>1, <1>2 DEF WrongSomewhere
<1> QED
  BY <1>1, <1>3, <1>4, <1>5 DEF RightThroughout, Faulted

\* A puzzle that was right at every combination is right at all arguments that
\* are promised.
LEMMA PassedIsRight ==
  ASSUME i \in Tests, Generated,
         \A m \in 0 .. Product(Counts(test_vals)) - 1 : RightAt(t, Combination(test_vals, m))
  PROVE  RightThroughout(t)
<1> DEFINE args == t.args
           S == Arg(t)
<1>1. args \in 0 .. 3 /\ test_vals \in Arrays(args, S)
  BY CallTotal DEF Generated
<1> SUFFICES ASSUME NEW a \in PromisedArgs(t) PROVE RightAt(t, a)
  BY DEF RightThroughout
<1>2. Picks(a, test_vals)
  <2>1. DOMAIN test_vals = 1 .. args
    BY <1>1 DEF Arrays
  <2> QED BY <2>1 DEF PromisedArgs, Generated, Picks
<1> HIDE DEF args, S
<1>3. \E at \in 0 .. Product(Counts(test_vals)) - 1 : Combination(test_vals, at) = a
  BY <1>1, <1>2, EveryCombination
<1> QED
  BY <1>3

\* A solved puzzle errs only where its result is out of range.
LEMMA SolvedErrs ==
  ASSUME NEW test, test.name \in Solved, NEW u \in Bits, Errs(test, <<u>>)
  PROVE  ~Tame(u) /\ ~InRange(test, u)
<1>1. CASE test.name = "floatScale2"
  <2>1. floatScale2(u) # test_floatScale2(u)
    BY <1>1 DEF Errs
  <2>2. frac(u) # 0 /\ exponent(u) = MaxExp - 1 /\ ~HasDouble(u)
    BY <2>1, ScaleErrs
  <2> QED BY <1>1, <2>2 DEF Tame, InRange
<1>2. CASE test.name = "floatFloat2Int"
  <2>1. floatFloat2Int(u) # test_floatFloat2Int(u)
    BY <1>2 DEF Errs
  <2>2. frac(u) # 0 /\ exponent(u) = Bias + Width - 1 /\ ~HasInteger(u)
    BY <2>1, ToIntErrs
  <2> QED BY <1>2, <2>2 DEF Tame, InRange
<1> QED
  BY <1>1, <1>2 DEF Solved

\* A puzzle that erred is wrong somewhere.
LEMMA FailedIsWrong ==
  ASSUME i \in Tests, Generated, n \in Nat, Errs(t, Combination(test_vals, n))
  PROVE  Faulted(t)
<1> DEFINE a == Combination(test_vals, n)
<1>1. t.args \in 0 .. 3 /\ test_vals \in Arrays(t.args, Arg(t))
  BY CallTotal DEF Generated
<1>2. a \in [1 .. t.args -> Arg(t)] /\ \A k \in 1 .. t.args : a[k] \in Range(test_vals[k])
  BY <1>1, CombinationFacts
<1> HIDE DEF a
<1>3. CASE t.name \in Solved
  <2>1. OnFloats(t) /\ t.args = 1
    BY <1>3, TestFacts DEF t
  <2>2. a \in [1 .. 1 -> Bits]
    BY <1>2, <2>1 DEF Arg
  <2>3. a[1] \in Bits
    BY <2>2
  <2>4. Errs(t, a)
    BY DEF a
  <2>5. Errs(t, <<a[1]>>)
    BY <1>3, <2>4 DEF Errs, Solved
  <2>6. ~Tame(a[1]) /\ ~InRange(t, a[1])
    BY <1>3, <2>3, <2>5, SolvedErrs
  <2>7. Tried(1, a[1])
    <3>1. 1 \in 1 .. t.args
      BY <2>1
    <3> QED BY <1>2, <2>1, <3>1 DEF Generated
  <2>8. 1 \in DOMAIN argval /\ a[1] = argval[1]
    BY <2>6, <2>7 DEF Tried
  <2> QED BY <1>3, <2>3, <2>5, <2>6, <2>8 DEF WrongSomewhere, Faulted
<1>4. CASE t.name \notin Solved
  <2>1. Errs(t, a)
    BY DEF a
  <2>2. flaw.at = a
    BY <1>4, <2>1 DEF Errs, Solved
  <2> QED BY <1>4, <2>1, <2>2 DEF WrongSomewhere, Faulted
<1> QED
  BY <1>3, <1>4

LEMMA VerdictKept ==
  ASSUME VerdictInv, ScoreTypes, i \in Tests, UNCHANGED input, NEW v \in Verdicts, Verdict(v),
         v = "passed" => RightThroughout(t), v = "failed" => Faulted(t)
  PROVE  VerdictInv'
<1>1. verdict' = [verdict EXCEPT ![i] = v] /\ pc' = "next"
  BY DEF Verdict
<1>2. \A k \in Tests : verdict'[k] = IF k = i THEN v ELSE verdict[k]
  BY <1>1 DEF ScoreTypes
<1>3. \A k \in Tests : /\ verdict'[k] = "passed" => RightThroughout(test_set[k])
                       /\ verdict'[k] = "failed" => Faulted(test_set[k])
  BY <1>2 DEF VerdictInv, t
<1>4. \A k \in Tests : /\ RightThroughout(test_set[k])' <=> RightThroughout(test_set[k])
                       /\ Faulted(test_set[k])' <=> Faulted(test_set[k])
  BY FrozenFacts
<1> QED
  BY <1>1, <1>3, <1>4 DEF VerdictInv

LEMMA VerdictIdle ==
  ASSUME VerdictInv, UNCHANGED <<input, verdict>>,
         pc' = "call" => \A m \in 0 .. n' - 1 : RightAt(t, Combination(test_vals, m))'
  PROVE  VerdictInv'
<1>1. \A k \in Tests : /\ RightThroughout(test_set[k])' <=> RightThroughout(test_set[k])
                       /\ Faulted(test_set[k])' <=> Faulted(test_set[k])
  BY FrozenFacts
<1> QED
  BY <1>1 DEF VerdictInv

LEMMA VerdictStep ==
  ASSUME TypeInv, VerdictInv, [Next]_vars
  PROVE  VerdictInv'
<1>1. LoopTypes /\ ScoreTypes
  BY DEF TypeInv
<1>2. CASE Start \/ Skip \/ Finish \/ GenerateAny
  <2>1. UNCHANGED <<input, verdict>> /\ pc' # "call"
    BY <1>2 DEF Start, Skip, Finish, GenerateAny, Generate, score
  <2> QED BY <2>1, VerdictIdle
<1>3. CASE SetAlarm
  <2>1. UNCHANGED <<input, verdict>> /\ n' = 0
    BY <1>1, <1>3 DEF SetAlarm, score, LoopTypes
  <2>2. \A m \in 0 .. n' - 1 : FALSE
    BY <2>1
  <2> QED BY <2>1, <2>2, VerdictIdle
<1>4. CASE Call
  <2> DEFINE a == Combination(test_vals, n)
             total == Product(Counts(test_vals))
  <2>1. /\ pc = "call" /\ ~Loops(t, a) /\ UNCHANGED <<input, clock>>
        /\ \/ Errs(t, a) /\ Verdict("failed")
           \/ ~Errs(t, a) /\ n + 1 = total /\ Verdict("passed")
           \/ ~Errs(t, a) /\ n' = n + 1 /\ UNCHANGED <<i, pc, test_vals, score>>
    BY <1>4, CallCases
  <2>2. i \in Tests /\ Generated /\ n \in Nat
    BY <1>1, <2>1 DEF LoopTypes
  <2>3. CASE Errs(t, a) /\ Verdict("failed")
    <3>1. Faulted(t)
      BY <2>2, <2>3, FailedIsWrong
    <3> QED BY <1>1, <2>1, <2>2, <2>3, <3>1, VerdictKept DEF Verdicts
  <2>4. ~Errs(t, a) => \A m \in 0 .. n : RightAt(t, Combination(test_vals, m))
    <3> SUFFICES ASSUME ~Errs(t, a), NEW m \in 0 .. n
                 PROVE  RightAt(t, Combination(test_vals, m))
      OBVIOUS
    <3>1. m \in 0 .. n - 1 \/ m = n
      BY <2>2
    <3>2. RightAt(t, a)
      BY <2>1 DEF RightAt
    <3> QED BY <2>1, <3>1, <3>2 DEF VerdictInv
  <2>5. CASE ~Errs(t, a) /\ n + 1 = total /\ Verdict("passed")
    <3>1. 0 .. total - 1 = 0 .. n
      BY <2>2, <2>5
    <3>2. RightThroughout(t)
      BY <2>2, <2>4, <2>5, <3>1, PassedIsRight
    <3> QED BY <1>1, <2>1, <2>2, <2>5, <3>2, VerdictKept DEF Verdicts
  <2>6. CASE ~Errs(t, a) /\ n' = n + 1 /\ UNCHANGED <<i, pc, test_vals, score>>
    <3>1. t' = t /\ test_vals' = test_vals /\ verdict' = verdict /\ UNCHANGED input
      BY <2>1, <2>6 DEF t, score
    <3>2. \A x : RightAt(t, x)' <=> RightAt(t, x)
      <4>1. \A x : RightAt(test_set[i], x)' <=> RightAt(test_set[i], x)
        BY <2>6, <3>1 DEF RightAt, Errs, Loops, input
      <4> QED BY <4>1 DEF t
    <3>3. \A m \in 0 .. n' - 1 : m \in 0 .. n
      BY <2>2, <2>6
    <3>4. \A m \in 0 .. n' - 1 : RightAt(t, Combination(test_vals, m))'
      BY <2>4, <2>6, <3>1, <3>2, <3>3
    <3> QED BY <3>1, <3>4, VerdictIdle
  <2> QED BY <2>1, <2>3, <2>5, <2>6
<1>5. CASE TimesOut
  <2>1. i \in Tests /\ Verdict("timeout") /\ UNCHANGED input
    BY <1>1, <1>5 DEF TimesOut, InFrame, LoopTypes
  <2> QED BY <1>1, <2>1, VerdictKept DEF Verdicts
<1>6. CASE TimesOutLate
  <2>1. UNCHANGED input
    BY <1>6 DEF TimesOutLate
  <2>2. CASE pc = "gen" /\ Verdict("timeout")
    <3>1. i \in Tests
      BY <1>1, <2>2 DEF LoopTypes
    <3> QED BY <1>1, <2>1, <2>2, <3>1, VerdictKept DEF Verdicts
  <2>3. CASE pc' = "lost" /\ UNCHANGED score
    BY <2>1, <2>3, VerdictIdle DEF score
  <2> QED BY <1>6, <2>2, <2>3 DEF TimesOutLate
<1>7. CASE UNCHANGED vars
  <2>1. /\ UNCHANGED <<input, verdict, i, pc, test_vals, n>>
    BY <1>7 DEF vars, loop, score
  <2>2. \A x : RightAt(test_set[i], x)' <=> RightAt(test_set[i], x)
    BY <2>1 DEF RightAt, Errs, Loops, input
  <2>3. pc' = "call" => \A m \in 0 .. n' - 1 : RightAt(t, Combination(test_vals, m))'
    BY <2>1, <2>2 DEF VerdictInv, t
  <2> QED BY <2>1, <2>3, VerdictIdle
<1> QED
  BY <1>2, <1>3, <1>4, <1>5, <1>6, <1>7 DEF Next, Run

LEMMA VerdictsInv == Spec => []VerdictInv
<1>1. Init => VerdictInv
  <2> SUFFICES ASSUME Init PROVE VerdictInv
    OBVIOUS
  <2>1. pc = "next" /\ \A k \in Tests : verdict[k] = "none"
    BY DEF Init
  <2> QED BY <2>1 DEF VerdictInv
<1>2. TypeInv /\ VerdictInv /\ [Next]_vars => VerdictInv'
  BY VerdictStep
<1> QED
  BY <1>1, <1>2, BTestTypes, PTL DEF Spec

\* A puzzle passes only if it is right at every argument that gen_vals promises
\* to try, with every other, and fails only if it is wrong somewhere, whatever
\* alarms go off, early or late (btest.c:270-399).
THEOREM VerdictsAreRight == Spec => []VerdictsRight
<1>1. VerdictInv => VerdictsRight
  BY DEF VerdictInv, VerdictsRight, RightThroughout, RightAt, Faulted
<1> QED
  BY <1>1, VerdictsInv, PTL

\* A solved puzzle that passes is right at every float whose result is in range,
\* tried or not, and one that fails was given an argument whose result is out of
\* range (tests.c:86-98, btest.c:131-171).
THEOREM RightWhereInRange == Spec => []RightInRange
<1>1. VerdictInv => RightInRange
  <2> SUFFICES ASSUME VerdictInv, NEW k \in Tests, test_set[k].name \in Solved
               PROVE  /\ \A u \in Bits : InRange(test_set[k], u) => ~Errs(test_set[k], <<u>>)
                      /\ verdict[k] = "failed" =>
                            1 \in DOMAIN argval /\ ~InRange(test_set[k], argval[1])
    BY DEF RightInRange
  <2> QED BY SolvedErrs DEF VerdictInv, Faulted
<1> QED
  BY <1>1, VerdictsInv, PTL

-----------------------------------------------------------------------------
(* The alarm.                                                              *)

\* From sigsetjmp to the return of test_function.
AlarmInv ==
    /\ blocked = FALSE
    /\ pc \in {"alarm", "call"} /\ timed => envbuf = i
    /\ pc = "call" /\ timed => armed

LEMMA CallEffects ==
  ASSUME Call
  PROVE  /\ UNCHANGED <<input, clock>>
         /\ \/ pc' = "next"
            \/ UNCHANGED <<i, pc, test_vals, score>>
BY DEF Call, CallWith, Verdict

LEMMA AlarmStep ==
  ASSUME AlarmInv, [Next]_vars
  PROVE  AlarmInv'
<1>1. CASE Start \/ Skip \/ Finish
  BY <1>1 DEF Start, Skip, Finish, AlarmInv, clock
<1>2. CASE GenerateAny
  BY <1>2 DEF GenerateAny, Generate, AlarmInv, input
<1>3. CASE SetAlarm
  BY <1>3 DEF SetAlarm, AlarmInv, input
<1>4. CASE Call
  BY <1>4, CallEffects DEF AlarmInv, input, clock
<1>5. CASE TimesOut \/ TimesOutLate
  BY <1>5 DEF TimesOut, TimesOutLate, Jumped, Verdict, AlarmInv
<1>6. CASE UNCHANGED vars
  BY <1>6 DEF vars, input, loop, clock, AlarmInv
<1> QED
  BY <1>1, <1>2, <1>3, <1>4, <1>5, <1>6 DEF Next, Run

\* While a puzzle runs, an alarm is set that ends this puzzle and no other, and
\* SIGALRM can be delivered, however many puzzles have been left by the jump
\* (btest.c:99-105, 347-358).
THEOREM AlarmsCover == Spec => []AlarmCovers
<1>1. Init => AlarmInv
  BY DEF Init, AlarmInv
<1>2. AlarmInv /\ [Next]_vars => AlarmInv'
  BY AlarmStep
<1>3. AlarmInv => AlarmCovers
  BY DEF AlarmInv, AlarmCovers
<1> QED
  BY <1>1, <1>2, <1>3, PTL DEF Spec
=============================================================================
