------------------------------ MODULE SetFacts ------------------------------
(***************************************************************************)
(* Facts about finite sets that the other proofs need: what Min and Max of *)
(* FiniteSetsExt return, induction over the sizes of finite sets, and sums *)
(* over finite sets; and about quotients.  Min and Max are defined by      *)
(* CHOOSE, so that there is something to choose has to be proved:          *)
(* otherwise the finite set would have a smallest subset without the       *)
(* element sought.                                                         *)
(***************************************************************************)
EXTENDS Integers, FiniteSetsExt, FiniteSetTheorems, WellFoundedInduction, TLAPS

\* A finite set of natural numbers that is not empty has a least element.
LEMMA MinFacts ==
  ASSUME NEW S \in SUBSET Nat, IsFiniteSet(S), S # {}
  PROVE  Min(S) \in S /\ \A y \in S : Min(S) <= y
<1> DEFINE HasMin(U) == \E x \in U : \A y \in U : x <= y
           Bad == {U \in SUBSET S : U # {} /\ ~HasMin(U)}
<1>1. Bad = {}
  <2> SUFFICES ASSUME Bad # {} PROVE FALSE
    OBVIOUS
  <2>1. Bad \subseteq FiniteSubsetsOf(S)
    BY FS_Subset DEF FiniteSubsetsOf
  <2>2. PICK U \in Bad : \A T \in Bad : ~(<<T, U>> \in StrictSubsetOrdering(S))
    <3> HIDE DEF Bad
    <3> QED BY <2>1, FS_StrictSubsetOrderingWellFounded, WFMin
  <2>3. PICK x \in U : TRUE
    OBVIOUS
  <2>4. CASE U \ {x} = {}
    <3>1. U = {x}
      BY <2>4, <2>3
    <3> QED BY <3>1, <2>3
  <2>5. CASE U \ {x} # {}
    <3>1. <<U \ {x}, U>> \in StrictSubsetOrdering(S)
      BY <2>3 DEF StrictSubsetOrdering
    <3>2. HasMin(U \ {x})
      BY <2>2, <2>5, <3>1
    <3>3. PICK m \in U \ {x} : \A y \in U \ {x} : m <= y
      BY <3>2
    <3>4. CASE m <= x
      BY <3>3, <3>4, <2>3
    <3>5. CASE ~(m <= x)
      BY <3>3, <3>5, <2>3
    <3> QED BY <3>4, <3>5
  <2> QED BY <2>4, <2>5
<1>2. HasMin(S)
  BY <1>1
<1> QED
  BY <1>2 DEF Min

\* A finite set of natural numbers that is not empty has a greatest element.
LEMMA MaxFacts ==
  ASSUME NEW S \in SUBSET Nat, IsFiniteSet(S), S # {}
  PROVE  Max(S) \in S /\ \A y \in S : y <= Max(S)
<1> DEFINE HasMax(U) == \E x \in U : \A y \in U : y <= x
           Bad == {U \in SUBSET S : U # {} /\ ~HasMax(U)}
<1>1. Bad = {}
  <2> SUFFICES ASSUME Bad # {} PROVE FALSE
    OBVIOUS
  <2>1. Bad \subseteq FiniteSubsetsOf(S)
    BY FS_Subset DEF FiniteSubsetsOf
  <2>2. PICK U \in Bad : \A T \in Bad : ~(<<T, U>> \in StrictSubsetOrdering(S))
    <3> HIDE DEF Bad
    <3> QED BY <2>1, FS_StrictSubsetOrderingWellFounded, WFMin
  <2>3. PICK x \in U : TRUE
    OBVIOUS
  <2>4. CASE U \ {x} = {}
    <3>1. U = {x}
      BY <2>4, <2>3
    <3> QED BY <3>1, <2>3
  <2>5. CASE U \ {x} # {}
    <3>1. <<U \ {x}, U>> \in StrictSubsetOrdering(S)
      BY <2>3 DEF StrictSubsetOrdering
    <3>2. HasMax(U \ {x})
      BY <2>2, <2>5, <3>1
    <3>3. PICK m \in U \ {x} : \A y \in U \ {x} : y <= m
      BY <3>2
    <3>4. CASE x <= m
      BY <3>3, <3>4, <2>3
    <3>5. CASE ~(x <= m)
      BY <3>3, <3>5, <2>3
    <3> QED BY <3>4, <3>5
  <2> QED BY <2>4, <2>5
<1>2. HasMax(S)
  BY <1>1
<1> QED
  BY <1>2 DEF Max

\* Induction up to k, for the elements of a set.
LEMMA UpTo ==
  ASSUME NEW k \in Nat, NEW S, 0 \in S,
         \A n \in 0 .. k - 1 : n \in S => n + 1 \in S
  PROVE  \A n \in 0 .. k : n \in S
<1> DEFINE Without == {n \in 0 .. k : n \notin S}
<1>1. SUFFICES ASSUME Without # {} PROVE FALSE
  OBVIOUS
<1>2. IsFiniteSet(Without) /\ Without \subseteq Nat
  <2>1. IsFiniteSet(0 .. k) /\ Without \subseteq 0 .. k
    BY FS_Interval
  <2> QED BY <2>1, FS_Subset
<1>3. Min(Without) \in Without /\ \A n \in Without : Min(Without) <= n
  <2> HIDE DEF Without
  <2> QED BY <1>1, <1>2, MinFacts
<1> DEFINE least == Min(Without)
<1> HIDE DEF least
<1>4. least \in 0 .. k /\ least \notin S /\ \A n \in 0 .. k : n \notin S => least <= n
  BY <1>3 DEF least
<1>5. least # 0 /\ least - 1 \in 0 .. k - 1
  BY <1>4
<1>6. least - 1 \in S
  BY <1>4, <1>5
<1>7. (least - 1) + 1 \in S
  BY <1>5, <1>6
<1> QED
  BY <1>4, <1>7

\* What holds of the empty set and of a set with one more element holds of a
\* finite set: H is the set of those of its subsets of which it holds.
LEMMA Subsets ==
  ASSUME NEW S, IsFiniteSet(S), NEW H, {} \in H,
         \A U \in SUBSET S : U # {} /\ (\A x \in U : U \ {x} \in H) => U \in H
  PROVE  \A U \in SUBSET S : U \in H
<1> DEFINE Sized == {n \in Nat : \A U \in SUBSET S : Cardinality(U) = n => U \in H}
<1>1. \A U \in SUBSET S : /\ IsFiniteSet(U) /\ Cardinality(U) \in Nat
                          /\ Cardinality(U) = 0 <=> U = {}
                          /\ \A x \in U : Cardinality(U \ {x}) = Cardinality(U) - 1
  BY FS_Subset, FS_CardinalityType, FS_EmptySet, FS_RemoveElement
<1>2. 0 \in Sized
  BY <1>1
<1>3. ASSUME NEW n \in Nat, n \in Sized PROVE n + 1 \in Sized
  <2> SUFFICES ASSUME NEW U \in SUBSET S, Cardinality(U) = n + 1 PROVE U \in H
    OBVIOUS
  <2>1. U # {} /\ \A x \in U : U \ {x} \in SUBSET S /\ Cardinality(U \ {x}) = n
    BY <1>1
  <2> QED BY <1>3, <2>1
<1> HIDE DEF Sized
<1>4. ASSUME NEW U \in SUBSET S PROVE Cardinality(U) \in Sized
  <2> DEFINE k == Cardinality(U)
  <2>1. k \in Nat
    BY <1>1
  <2> HIDE DEF k
  <2>2. \A n \in 0 .. k - 1 : n \in Sized => n + 1 \in Sized
    BY <1>3
  <2>3. \A n \in 0 .. k : n \in Sized
    BY <1>2, <2>1, <2>2, UpTo
  <2> QED BY <2>1, <2>3 DEF k
<1> QED
  BY <1>4 DEF Sized

LEMMA FiniteImage ==
  ASSUME NEW S, IsFiniteSet(S), NEW h
  PROVE  IsFiniteSet({h[x] : x \in S})
<1> DEFINE H == {U \in SUBSET S : IsFiniteSet({h[x] : x \in U})}
<1>1. {} \in H
  <2>1. {h[x] : x \in {}} = {}
    OBVIOUS
  <2>2. IsFiniteSet({h[x] : x \in {}})
    BY <2>1, FS_EmptySet
  <2> QED BY <2>2
<1>2. ASSUME NEW U \in SUBSET S, U # {}, \A x \in U : U \ {x} \in H
      PROVE  U \in H
  <2>1. PICK x \in U : TRUE
    BY <1>2
  <2> DEFINE V == {h[y] : y \in U}
             W == {h[y] : y \in U \ {x}}
  <2>2. V = W \cup {h[x]}
    OBVIOUS
  <2>3. IsFiniteSet(W)
    BY <1>2
  <2> HIDE DEF W, V
  <2>4. IsFiniteSet(V)
    BY <2>2, <2>3, FS_AddElement
  <2> QED BY <2>4 DEF V
<1> HIDE DEF H
<1>3. \A U \in SUBSET S : U \in H
  BY <1>1, <1>2, Subsets
<1> QED
  BY <1>3 DEF H

-----------------------------------------------------------------------------
(* Sums.                                                                   *)

Total(f, S) == MapThenSumSet(LAMBDA x : f[x], S)

\* g is what the definition of the sum computes for the subsets of S.
IsSum(g, f, S) ==
    g = [s \in SUBSET S |->
            IF s = {} THEN 0
            ELSE f[CHOOSE x \in s : TRUE] + g[s \ {CHOOSE x \in s : TRUE}]]

LEMMA SumStep ==
  ASSUME NEW g, NEW f, NEW S, IsSum(g, f, S), NEW s \in SUBSET S
  PROVE  /\ g[{}] = 0
         /\ s # {} => \E x \in s : x = (CHOOSE y \in s : TRUE) /\ g[s] = f[x] + g[s \ {x}]
<1>1. g[{}] = 0
  BY DEF IsSum
<1>2. ASSUME s # {}
      PROVE  \E x \in s : x = (CHOOSE y \in s : TRUE) /\ g[s] = f[x] + g[s \ {x}]
  <2>1. (CHOOSE y \in s : TRUE) \in s
    BY <1>2
  <2> QED BY <1>2, <2>1 DEF IsSum
<1> QED
  BY <1>1, <1>2

LEMMA SumNat ==
  ASSUME NEW g, NEW f, NEW S, IsFiniteSet(S), IsSum(g, f, S), \A x \in S : f[x] \in Nat
  PROVE  \A s \in SUBSET S : g[s] \in Nat
<1> DEFINE H == {s \in SUBSET S : g[s] \in Nat}
<1>1. {} \in H
  BY SumStep
<1>2. ASSUME NEW U \in SUBSET S, U # {}, \A x \in U : U \ {x} \in H
      PROVE  U \in H
  <2>1. PICK c \in U : g[U] = f[c] + g[U \ {c}]
    BY <1>2, SumStep
  <2> QED BY <1>2, <2>1
<1> HIDE DEF H
<1>3. \A U \in SUBSET S : U \in H
  BY <1>1, <1>2, Subsets
<1> QED
  BY <1>3 DEF H

\* The order in which the elements are chosen does not matter.
LEMMA SumAny ==
  ASSUME NEW g, NEW f, NEW S, IsFiniteSet(S), IsSum(g, f, S), \A x \in S : f[x] \in Nat
  PROVE  \A s \in SUBSET S, x \in S : x \in s => g[s] = f[x] + g[s \ {x}]
<1> DEFINE H == {s \in SUBSET S : \A x \in s : g[s] = f[x] + g[s \ {x}]}
<1>1. {} \in H
  OBVIOUS
<1>2. ASSUME NEW U \in SUBSET S, U # {}, \A x \in U : U \ {x} \in H
      PROVE  U \in H
  <2>1. PICK c \in U : g[U] = f[c] + g[U \ {c}]
    BY <1>2, SumStep
  <2>2. ASSUME NEW x \in U, x # c PROVE g[U] = f[x] + g[U \ {x}]
    <3>1. /\ g[U \ {c}] = f[x] + g[(U \ {c}) \ {x}]
          /\ g[U \ {x}] = f[c] + g[(U \ {c}) \ {x}]
      <4>1. (U \ {c}) \ {x} = (U \ {x}) \ {c}
        OBVIOUS
      <4> QED BY <1>2, <2>2, <4>1
    <3>2. f[c] \in Nat /\ f[x] \in Nat /\ g[(U \ {c}) \ {x}] \in Nat
      BY SumNat
    <3> QED BY <2>1, <3>1, <3>2
  <2> QED BY <2>1, <2>2
<1> HIDE DEF H
<1>3. \A U \in SUBSET S : U \in H
  BY <1>1, <1>2, Subsets
<1> QED
  BY <1>3 DEF H

LEMMA SumExists ==
  ASSUME NEW f, NEW S, IsFiniteSet(S)
  PROVE  \E g : IsSum(g, f, S)
<1> DEFINE chosen(s) == CHOOSE x \in s : TRUE
           Small(n) == {s \in SUBSET S : Cardinality(s) <= n}
           Upto(g, n) == g = [s \in Small(n) |->
                                  IF s = {} THEN 0 ELSE f[chosen(s)] + g[s \ {chosen(s)}]]
           N == {n \in Nat : \E g : Upto(g, n)}
           size == Cardinality(S)
<1>1. /\ size \in Nat
      /\ \A s \in SUBSET S : /\ Cardinality(s) \in Nat /\ Cardinality(s) <= size
                             /\ Cardinality(s) = 0 <=> s = {}
                             /\ s # {} => /\ s \ {chosen(s)} \in SUBSET S
                                          /\ Cardinality(s \ {chosen(s)}) = Cardinality(s) - 1
  <2>1. ASSUME NEW s \in SUBSET S
        PROVE  /\ IsFiniteSet(s) /\ Cardinality(s) \in Nat /\ Cardinality(s) <= size
               /\ Cardinality(s) = 0 <=> s = {}
    BY FS_Subset, FS_CardinalityType, FS_EmptySet
  <2>2. ASSUME NEW s \in SUBSET S, s # {}
        PROVE  Cardinality(s \ {chosen(s)}) = Cardinality(s) - 1
    <3>1. chosen(s) \in s
      BY <2>2
    <3> HIDE DEF chosen
    <3> QED BY <2>1, <3>1, FS_RemoveElement
  <2> QED BY <2>1, <2>2, FS_CardinalityType
<1> HIDE DEF size, chosen
<1>2. 0 \in N
  <2> DEFINE g == [s \in Small(0) |-> 0]
  <2>1. \A s \in Small(0) : s = {}
    <3> SUFFICES ASSUME NEW s \in Small(0) PROVE s = {}
      OBVIOUS
    <3>1. Cardinality(s) \in Nat /\ Cardinality(s) <= 0 /\ (Cardinality(s) = 0 <=> s = {})
      BY <1>1
    <3> QED BY <3>1
  <2>2. Upto(g, 0)
    BY <2>1
  <2> QED BY <2>2
<1>3. ASSUME NEW n \in Nat, n \in N PROVE n + 1 \in N
  <2>1. PICK h : Upto(h, n)
    BY <1>3
  <2> DEFINE g == [s \in Small(n + 1) |-> IF s = {} THEN 0 ELSE f[chosen(s)] + h[s \ {chosen(s)}]]
  <2>2. \A s \in Small(n) : s \in Small(n + 1) /\ g[s] = h[s]
    <3>1. ASSUME NEW s \in Small(n) PROVE s \in Small(n + 1)
      <4>1. Cardinality(s) \in Nat /\ Cardinality(s) <= n
        BY <1>1
      <4>2. Cardinality(s) <= n + 1
        BY <4>1
      <4> QED BY <4>2
    <3> QED BY <2>1, <3>1
  <2>3. ASSUME NEW s \in Small(n + 1), s # {}
        PROVE  s \ {chosen(s)} \in Small(n)
    <3>1. /\ s \ {chosen(s)} \in SUBSET S
          /\ Cardinality(s \ {chosen(s)}) = Cardinality(s) - 1
          /\ Cardinality(s) \in Nat /\ Cardinality(s) <= n + 1
      BY <1>1, <2>3
    <3> QED BY <3>1
  <2>4. Upto(g, n + 1)
    <3>1. \A s \in Small(n + 1) : s # {} => h[s \ {chosen(s)}] = g[s \ {chosen(s)}]
      BY <2>2, <2>3
    <3> HIDE DEF Small
    <3> QED BY <3>1
  <2> HIDE DEF g, Upto
  <2> QED BY <2>4
<1>4. size \in N
  <2> HIDE DEF N
  <2>1. \A n \in 0 .. size - 1 : n \in N => n + 1 \in N
    BY <1>1, <1>3
  <2>2. \A n \in 0 .. size : n \in N
    BY <1>1, <1>2, <2>1, UpTo
  <2> QED BY <1>1, <2>2
<1>5. PICK g : Upto(g, size)
  BY <1>4
<1>6. Small(size) = SUBSET S
  BY <1>1
<1> QED
  BY <1>5, <1>6 DEF IsSum, chosen

LEMMA TotalIsSum ==
  ASSUME NEW f, NEW S, IsFiniteSet(S)
  PROVE  \E g : IsSum(g, f, S) /\ Total(f, S) = g[S]
<1> DEFINE g == CHOOSE g : IsSum(g, f, S)
<1>1. IsSum(g, f, S)
  BY SumExists
<1>2. Total(f, S) = g[S]
  BY DEF Total, MapThenSumSet, MapThenFoldSet, IsSum
<1> QED
  BY <1>1, <1>2

\* Sums of equal numbers are equal, whatever larger set they are computed in.
LEMMA SumSame ==
  ASSUME NEW g, NEW e, NEW S, IsFiniteSet(S), IsSum(g, e, S),
         NEW h, NEW f, NEW T, IsSum(h, f, T), S \subseteq T,
         \A x \in S : e[x] = f[x]
  PROVE  g[S] = h[S]
<1> DEFINE H == {s \in SUBSET S : g[s] = h[s]}
<1>1. {} \in H
  BY SumStep
<1>2. ASSUME NEW U \in SUBSET S, U # {}, \A x \in U : U \ {x} \in H
      PROVE  U \in H
  <2>1. PICK c \in U : c = (CHOOSE x \in U : TRUE) /\ g[U] = e[c] + g[U \ {c}]
    BY <1>2, SumStep
  <2>2. PICK d \in U : d = (CHOOSE x \in U : TRUE) /\ h[U] = f[d] + h[U \ {d}]
    BY <1>2, SumStep
  <2> QED BY <1>2, <2>1, <2>2
<1> HIDE DEF H
<1>3. \A U \in SUBSET S : U \in H
  BY <1>1, <1>2, Subsets
<1> QED
  BY <1>3 DEF H

\* The sum of the numbers f[x].
LEMMA TotalFacts ==
  ASSUME NEW S, IsFiniteSet(S), NEW f, \A x \in S : f[x] \in Nat
  PROVE  /\ Total(f, S) \in Nat
         /\ S = {} => Total(f, S) = 0
         /\ \A x \in S : Total(f, S) = f[x] + Total(f, S \ {x})
<1>1. PICK g : IsSum(g, f, S) /\ Total(f, S) = g[S]
  BY TotalIsSum
<1>2. ASSUME NEW x \in S PROVE Total(f, S \ {x}) = g[S \ {x}]
  <2> DEFINE U == S \ {x}
  <2>1. IsFiniteSet(U) /\ U \subseteq S
    BY FS_Subset
  <2> HIDE DEF U
  <2>2. PICK h : IsSum(h, f, U) /\ Total(f, U) = h[U]
    BY <2>1, TotalIsSum
  <2>3. h[U] = g[U]
    BY <1>1, <2>1, <2>2, SumSame
  <2> QED BY <2>2, <2>3 DEF U
<1>3. /\ g[S] \in Nat
      /\ \A x \in S : g[S] = f[x] + g[S \ {x}]
  <2>1. S \in SUBSET S
    OBVIOUS
  <2>2. \A s \in SUBSET S : g[s] \in Nat
    BY <1>1, SumNat
  <2>3. \A s \in SUBSET S, x \in S : x \in s => g[s] = f[x] + g[s \ {x}]
    BY <1>1, SumAny
  <2> QED BY <2>1, <2>2, <2>3
<1>4. S = {} => g[S] = 0
  BY <1>1, SumStep
<1> QED
  BY <1>1, <1>2, <1>3, <1>4

LEMMA TotalSame ==
  ASSUME NEW S, IsFiniteSet(S), NEW e, NEW f, \A x \in S : e[x] = f[x]
  PROVE  Total(e, S) = Total(f, S)
<1>1. PICK g : IsSum(g, e, S) /\ Total(e, S) = g[S]
  BY TotalIsSum
<1>2. PICK h : IsSum(h, f, S) /\ Total(f, S) = h[S]
  BY TotalIsSum
<1> QED
  BY <1>1, <1>2, SumSame

\* Summing over the values of a one-to-one function.
LEMMA TotalMapped ==
  ASSUME NEW S, IsFiniteSet(S), NEW h, NEW f, NEW g,
         \A x, y \in S : h[x] = h[y] => x = y,
         \A x \in S : f[x] = g[h[x]] /\ f[x] \in Nat
  PROVE  Total(f, S) = Total(g, {h[x] : x \in S})
<1> DEFINE H == {U \in SUBSET S : Total(f, U) = Total(g, {h[x] : x \in U})}
<1>1. \A U \in SUBSET S : /\ IsFiniteSet(U) /\ IsFiniteSet({h[x] : x \in U})
                          /\ \A x \in U : f[x] \in Nat
                          /\ \A y \in {h[x] : x \in U} : g[y] \in Nat
  <2>1. ASSUME NEW U \in SUBSET S PROVE IsFiniteSet(U) /\ IsFiniteSet({h[x] : x \in U})
    <3>1. IsFiniteSet(U)
      BY FS_Subset
    <3> QED BY <3>1, FiniteImage
  <2>2. ASSUME NEW U \in SUBSET S
        PROVE  (\A x \in U : f[x] \in Nat) /\ \A y \in {h[x] : x \in U} : g[y] \in Nat
    OBVIOUS
  <2> QED BY <2>1, <2>2
<1>2. {} \in H
  <2>1. {h[x] : x \in {}} = {}
    OBVIOUS
  <2> QED BY <1>1, <2>1, TotalFacts
<1>3. ASSUME NEW U \in SUBSET S, U # {}, \A x \in U : U \ {x} \in H
      PROVE  U \in H
  <2>1. PICK x \in U : TRUE
    BY <1>3
  <2> DEFINE V == {h[y] : y \in U}
             W == {h[y] : y \in U \ {x}}
  <2>2. V \ {h[x]} = W /\ h[x] \in V
    OBVIOUS
  <2>3. Total(f, U) = f[x] + Total(f, U \ {x})
    BY <1>1, TotalFacts
  <2>4. Total(g, V) = g[h[x]] + Total(g, W)
    <3>1. IsFiniteSet(V) /\ \A y \in V : g[y] \in Nat
      BY <1>1
    <3> HIDE DEF V, W
    <3> QED BY <2>2, <3>1, TotalFacts
  <2>5. Total(f, U \ {x}) = Total(g, W)
    BY <1>3
  <2> HIDE DEF W
  <2>6. Total(f, U) = Total(g, V)
    BY <2>3, <2>4, <2>5
  <2> QED BY <2>6
<1> HIDE DEF H
<1>4. \A U \in SUBSET S : U \in H
  BY <1>2, <1>3, Subsets
<1> QED
  BY <1>4 DEF H

\* Intervals that lie apart below top have no more than top elements together.
LEMMA TotalApart ==
  ASSUME NEW S, IsFiniteSet(S), NEW lo, NEW f,
         \A x \in S : lo[x] \in Nat /\ f[x] \in Nat /\ f[x] # 0,
         \A x, y \in S : x # y => lo[x] + f[x] <= lo[y] \/ lo[y] + f[y] <= lo[x],
         NEW top \in Nat, \A x \in S : lo[x] + f[x] <= top
  PROVE  Total(f, S) <= top
<1> DEFINE Below(U, e) == \A x \in U : lo[x] + f[x] <= e
           H == {U \in SUBSET S : \A e \in Nat : Below(U, e) => Total(f, U) <= e}
<1>1. \A U \in SUBSET S : IsFiniteSet(U)
  BY FS_Subset
<1>2. {} \in H
  <2>1. Total(f, {}) = 0
    BY <1>1, TotalFacts
  <2> QED BY <2>1
<1>3. ASSUME NEW U \in SUBSET S, U # {}, \A x \in U : U \ {x} \in H
      PROVE  U \in H
  <2> DEFINE L == {lo[x] : x \in U}
  <2>1. PICK x \in U : \A y \in U : lo[y] <= lo[x]
    <3>1. IsFiniteSet(L)
      BY <1>1, FiniteImage
    <3>2. L \in SUBSET Nat /\ L # {}
      BY <1>3
    <3> HIDE DEF L
    <3>3. Max(L) \in L /\ \A n \in L : n <= Max(L)
      BY <3>1, <3>2, MaxFacts
    <3> QED BY <3>3 DEF L
  <2>2. Below(U \ {x}, lo[x])
    <3> SUFFICES ASSUME NEW y \in U \ {x} PROVE lo[y] + f[y] <= lo[x]
      OBVIOUS
    <3>1. /\ lo[x] \in Nat /\ f[x] \in Nat /\ f[x] # 0 /\ lo[y] \in Nat /\ f[y] \in Nat
          /\ lo[x] + f[x] <= lo[y] \/ lo[y] + f[y] <= lo[x]
          /\ lo[y] <= lo[x]
      BY <2>1
    <3> QED BY <3>1
  <2>3. Total(f, U \ {x}) <= lo[x] /\ Total(f, U \ {x}) \in Nat
    <3>1. U \ {x} \in SUBSET S /\ lo[x] \in Nat
      OBVIOUS
    <3>2. Total(f, U \ {x}) \in Nat
      BY <1>1, <3>1, TotalFacts
    <3> QED BY <1>3, <2>2, <3>1, <3>2
  <2>4. Total(f, U) = f[x] + Total(f, U \ {x})
    BY <1>1, TotalFacts
  <2>5. ASSUME NEW e \in Nat, Below(U, e) PROVE Total(f, U) <= e
    <3>1. lo[x] + f[x] <= e /\ lo[x] \in Nat /\ f[x] \in Nat
      BY <2>5
    <3> QED BY <2>3, <2>4, <3>1
  <2> QED BY <2>5
<1> HIDE DEF H
<1>4. S \in H
  <2>1. \A U \in SUBSET S : U \in H
    BY <1>2, <1>3, Subsets
  <2> QED BY <2>1
<1> QED
  BY <1>4 DEF H

\* The maximum of a set with one more element.
LEMMA MaxAdd ==
  ASSUME NEW S \in SUBSET Nat, IsFiniteSet(S), S # {}, NEW y \in Nat
  PROVE  Max(S \cup {y}) = IF y > Max(S) THEN y ELSE Max(S)
<1> DEFINE U == S \cup {y}
<1>1. Max(S) \in S /\ \A x \in S : x <= Max(S)
  BY MaxFacts
<1>2. IsFiniteSet(U) /\ U \in SUBSET Nat /\ U # {} /\ \A x : x \in U <=> (x \in S \/ x = y)
  BY FS_AddElement
<1> HIDE DEF U
<1>3. Max(U) \in U /\ \A x \in U : x <= Max(U)
  BY <1>2, MaxFacts
<1>4. Max(U) \in Nat /\ Max(S) \in Nat /\ Max(S) \in U /\ y \in U
  BY <1>1, <1>2, <1>3
<1>5. Max(U) = IF y > Max(S) THEN y ELSE Max(S)
  BY <1>1, <1>2, <1>3, <1>4
<1> QED
  BY <1>5 DEF U

-----------------------------------------------------------------------------
(* Quotients and products.                                                 *)

\* The quotient and the remainder are the only ones.
LEMMA DivMod ==
  ASSUME NEW q \in Nat, NEW d \in Nat \ {0}, NEW r \in 0 .. d - 1
  PROVE  /\ q * d + r \in Nat
         /\ (q * d + r) \div d = q /\ (q * d + r) % d = r
<1> DEFINE z == q * d + r
           k == z \div d
<1>1. q * d \in Nat /\ z \in Nat /\ z = q * d + r
  OBVIOUS
<1>2. k \in Nat /\ k * d \in Nat /\ z = k * d + (z % d) /\ z % d \in 0 .. d - 1
  BY <1>1
<1> HIDE DEF z, k
<1>3. ASSUME NEW x \in Nat, NEW y \in Nat, x < y
      PROVE  x * d + d <= y * d
  <2>1. y = x + (y - x) /\ y - x - 1 \in Nat
    BY <1>3
  <2>2. y * d = x * d + d + (y - x - 1) * d
    BY <2>1
  <2>3. (y - x - 1) * d \in Nat /\ x * d \in Nat
    BY <2>1
  <2> QED BY <2>2, <2>3
<1>4. ~(k < q) /\ ~(q < k)
  BY <1>1, <1>2, <1>3
<1>5. k = q
  BY <1>2, <1>4
<1> QED
  BY <1>1, <1>2, <1>5 DEF k, z

\* Comparing products.
LEMMA Products ==
  ASSUME NEW a \in Nat, NEW b \in Nat, NEW c \in Nat
  PROVE  /\ a <= b => a * c <= b * c
         /\ a < b => a * c + c <= b * c
         /\ c # 0 /\ a * c = b * c => a = b
         /\ a * c \in Nat
<1>1. a * c \in Nat /\ b * c \in Nat
  OBVIOUS
<1>2. ASSUME NEW x \in Nat, NEW y \in Nat, x < y PROVE x * c + c <= y * c
  <2>1. y - x - 1 \in Nat /\ y = x + 1 + (y - x - 1)
    BY <1>2
  <2>2. y * c = x * c + c + (y - x - 1) * c
    BY <2>1
  <2>3. (y - x - 1) * c \in Nat /\ x * c \in Nat
    BY <2>1
  <2> QED BY <2>2, <2>3
<1>3. a < b => a * c + c <= b * c
  BY <1>2
<1>4. b < a => b * c + c <= a * c
  BY <1>2
<1> QED
  BY <1>1, <1>3, <1>4

\* A common factor of dividend and divisor.
LEMMA DivCancel ==
  ASSUME NEW a \in Nat, NEW b \in Nat \ {0}, NEW c \in Nat \ {0}
  PROVE  (a * c) \div (b * c) = a \div b
<1> DEFINE q == a \div b
           r == a % b
<1>1. q \in Nat /\ r \in 0 .. b - 1 /\ a = q * b + r
  OBVIOUS
<1> HIDE DEF q, r
<1>2. b * c \in Nat \ {0} /\ r * c + c <= b * c /\ r * c \in Nat
  <2>1. r \in Nat /\ r < b
    BY <1>1
  <2>2. r * c + c <= b * c
    BY <2>1, Products
  <2>3. b * c \in Nat /\ r * c \in Nat
    BY <2>1
  <2> QED BY <2>2, <2>3
<1>3. a * c = q * (b * c) + r * c
  BY <1>1
<1>4. r * c \in 0 .. (b * c) - 1
  BY <1>2
<1>5. (a * c) \div (b * c) = q
  BY <1>1, <1>2, <1>3, <1>4, DivMod
<1> QED
  BY <1>5 DEF q

=============================================================================
