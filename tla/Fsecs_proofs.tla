---------------------------- MODULE Fsecs_proofs ----------------------------
(***************************************************************************)
(* Proofs about the K-best sampling.  The first part is about fcyc alone,  *)
(* for every number of samples, every K and every time it may be given:    *)
(* the result is the smallest time measured, and values holds the K        *)
(* smallest times.  The second part is about fcyc with the cycle counter:  *)
(* for every width of the words, every K and every duration, the counter   *)
(* gives the cycles that have really passed, and fcyc returns the least of *)
(* its measurements.                                                       *)
(***************************************************************************)
EXTENDS Fsecs, SetFacts

Entries == 0 .. Kept - 1

\* While a new time moves down, the other entries are in order, and it is not
\* greater than the entries above it.
Ordered ==
    /\ \A i, k \in Entries : i < k /\ i # pos /\ k # pos => values[i] <= values[k]
    /\ pos \in Entries => \A k \in Entries : k > pos => values[pos] <= values[k]

Sorted == \A i, k \in Entries : i <= k => values[i] <= values[k]

\* Entries are times that were measured, and every time has an entry that is
\* not greater.
Covers ==
    /\ \A i \in Entries : \E n \in Taken : samples[n] = values[i]
    /\ \A n \in Taken : \E i \in Entries : values[i] <= samples[n]

FcycInv ==
    /\ TypeOK
    /\ pc = "sort" => pos \in Entries /\ Ordered
    /\ pc # "sort" => Sorted
    /\ pc = "measure" => samplecount < maxsamples
    /\ pc = "done" => samplecount > 0 /\ result = values[0]
    /\ Covers

-----------------------------------------------------------------------------
LEMMA KeptFacts ==
  ASSUME TypeOK
  PROVE  /\ Kept \in Nat /\ Kept <= kbest /\ Kept <= samplecount
         /\ Entries \subseteq Positions
         /\ \A i \in Entries : values[i] \in Int
         /\ samplecount \in Nat
BY FcycAssumption DEF TypeOK, Kept, Entries, Positions

LEMMA SamplesFacts ==
  ASSUME TypeOK
  PROVE  \A n \in Taken : samples[n] \in Int
BY FcycAssumption DEF TypeOK

\* Once the new time has come to its place, all entries are in order.
LEMMA SortEnds ==
  ASSUME TypeOK, Ordered, pos \in Entries, ~Unsorted
  PROVE  Sorted
<1> USE KeptFacts
<1>1. \A i \in Entries : i < pos => values[i] <= values[pos]
  <2> SUFFICES ASSUME NEW i \in Entries, i < pos PROVE values[i] <= values[pos]
    OBVIOUS
  <2>1. pos - 1 \in Entries /\ pos > 0
    BY DEF Entries
  <2>2. values[pos - 1] <= values[pos]
    BY <2>1 DEF Unsorted
  <2>3. values[i] <= values[pos - 1]
    BY <2>1 DEF Ordered, Entries
  <2> QED
    BY <2>1, <2>2, <2>3
<1> QED
  BY <1>1 DEF Sorted, Ordered, Entries

LEMMA MeasureKeepsInv ==
  ASSUME FcycInv, NEW val \in Int, Measure(val)
  PROVE  FcycInv'
<1>1. TypeOK /\ Sorted /\ Covers /\ samplecount < maxsamples /\ pc = "measure"
  BY DEF FcycInv, Measure
<1>2. val \in Int /\ samplecount \in Nat /\ samplecount' = samplecount + 1
  BY <1>1, KeptFacts, FcycAssumption DEF Measure
<1>3. /\ DOMAIN samples' = Taken' /\ samples'[samplecount] = val
      /\ \A n \in Taken : samples'[n] = samples[n] /\ n \in Taken'
      /\ samplecount \in Taken'
      /\ \A n \in Taken' : n \in Taken \/ n = samplecount
  BY <1>2 DEF Measure, Taken
<1>4. /\ pc' = "sort" /\ result' = result
  BY DEF Measure
<1>5. /\ \A n \in Taken' : samples'[n] \in Int
      /\ samplecount' \in 0 .. maxsamples
  BY <1>1, <1>2, <1>3, FcycAssumption DEF TypeOK
<1> SUFFICES TypeOK' /\ pos' \in Entries' /\ Ordered' /\ Covers'
  BY <1>4 DEF FcycInv
<1>6. CASE samplecount < kbest /\ Fill(samplecount, val)
  <2>1. /\ pos' = samplecount /\ samplecount \in Positions
        /\ Kept = samplecount /\ Kept' = samplecount + 1
    BY <1>2, <1>6, FcycAssumption DEF Fill, Kept, Positions
  <2>2. /\ values' \in [Positions -> Int] /\ values'[samplecount] = val
        /\ \A i \in Positions : i # samplecount => values'[i] = values[i]
    BY <1>1, <1>2, <1>6, <2>1 DEF Fill, TypeOK
  <2>3. /\ Entries \subseteq Entries' /\ samplecount \in Entries'
        /\ \A i \in Entries' : i = samplecount \/ i \in Entries
        /\ \A i \in Entries : i < samplecount /\ values'[i] = values[i]
    <3>1. Entries = 0 .. samplecount - 1 /\ Entries' = 0 .. samplecount
      BY <1>2, <2>1 DEF Entries
    <3>2. \A i \in Entries : i \in Positions /\ i < samplecount
      BY <1>2, <2>1, <3>1, FcycAssumption DEF Positions
    <3> QED
      BY <1>2, <2>2, <3>1, <3>2
  <2>4. TypeOK'
    BY <1>1, <1>3, <1>4, <1>5, <2>1, <2>2 DEF TypeOK
  <2>5. Ordered'
    BY <1>1, <1>2, <2>1, <2>3 DEF Ordered, Sorted, Entries
  <2>6. Covers'
    <3>1. ASSUME NEW i \in Entries' PROVE \E n \in Taken' : samples'[n] = values'[i]
      BY <1>1, <1>3, <2>2, <2>3 DEF Covers
    <3>2. ASSUME NEW n \in Taken' PROVE \E i \in Entries' : values'[i] <= samples'[n]
      BY <1>1, <1>2, <1>3, <2>2, <2>3 DEF Covers
    <3> QED
      BY <3>1, <3>2 DEF Covers
  <2> QED
    BY <2>1, <2>3, <2>4, <2>5, <2>6
<1>7. CASE samplecount >= kbest /\ val < values[kbest - 1] /\ Fill(kbest - 1, val)
  <2>1. /\ pos' = kbest - 1 /\ kbest - 1 \in Positions
        /\ Kept = kbest /\ Kept' = kbest
        /\ Entries = Positions /\ Entries' = Positions
    BY <1>2, <1>7, FcycAssumption DEF Fill, Kept, Positions, Entries
  <2>2. /\ values' \in [Positions -> Int] /\ values'[kbest - 1] = val
        /\ \A i \in Positions : i # kbest - 1 => values'[i] = values[i]
    BY <1>1, <1>2, <1>7, <2>1 DEF Fill, TypeOK
  <2>3. TypeOK'
    BY <1>1, <1>3, <1>4, <1>5, <2>1, <2>2 DEF TypeOK
  <2>4. Ordered'
    BY <1>1, <1>2, <2>1, <2>2, FcycAssumption DEF Ordered, Sorted, Positions
  <2>5. Covers'
    <3>1. ASSUME NEW i \in Entries' PROVE \E n \in Taken' : samples'[n] = values'[i]
      BY <1>1, <1>3, <2>1, <2>2 DEF Covers
    <3>2. ASSUME NEW n \in Taken PROVE \E i \in Entries' : values'[i] <= samples'[n]
      <4>1. PICK i \in Entries : values[i] <= samples[n]
        BY <1>1 DEF Covers
      <4>2. CASE i # kbest - 1
        BY <1>3, <2>1, <2>2, <4>1, <4>2
      <4>3. CASE i = kbest - 1
        <5>1. values'[i] <= values[i]
          BY <1>1, <1>2, <1>7, <2>1, <2>2, <4>3 DEF TypeOK
        <5> QED
          BY <1>1, <1>3, <2>1, <2>2, <4>1, <5>1, SamplesFacts DEF TypeOK
      <4> QED
        BY <4>2, <4>3
    <3>3. \E i \in Entries' : values'[i] <= samples'[samplecount]
      BY <1>2, <1>3, <2>1, <2>2
    <3> QED
      BY <1>3, <3>1, <3>2, <3>3 DEF Covers
  <2> QED
    BY <2>1, <2>3, <2>4, <2>5
<1>8. CASE samplecount >= kbest /\ val >= values[kbest - 1] /\ pos' = 0 /\ UNCHANGED values
  <2>1. /\ Kept = kbest /\ Kept' = kbest /\ 0 \in Positions /\ kbest - 1 \in Positions
        /\ Entries = Positions /\ Entries' = Positions
    BY <1>2, <1>8, FcycAssumption DEF Kept, Positions, Entries
  <2>2. TypeOK'
    BY <1>1, <1>3, <1>4, <1>5, <1>8, <2>1 DEF TypeOK
  <2>3. Ordered'
    BY <1>1, <1>8, <2>1 DEF Ordered, Sorted, Positions
  <2>4. Covers'
    <3>1. \E i \in Entries' : values'[i] <= samples'[samplecount]
      BY <1>1, <1>2, <1>3, <1>8, <2>1 DEF TypeOK
    <3> QED
      BY <1>1, <1>3, <1>8, <2>1, <3>1 DEF Covers
  <2> QED
    BY <1>8, <2>1, <2>2, <2>3, <2>4
<1> QED
  BY <1>6, <1>7, <1>8 DEF Measure, Place

LEMMA SwapKeepsInv ==
  ASSUME FcycInv, Swap
  PROVE  FcycInv'
<1>1. /\ TypeOK /\ pos \in Entries /\ Ordered /\ Covers
      /\ pos > 0 /\ values[pos - 1] > values[pos]
      /\ pc' = "sort" /\ pos' = pos - 1
      /\ samplecount' = samplecount /\ samples' = samples /\ result' = result
  BY DEF FcycInv, Swap, Unsorted
<1>2. /\ Kept' = Kept /\ Entries' = Entries /\ Taken' = Taken
      /\ pos - 1 \in Entries /\ Entries \subseteq Positions /\ Positions' = Positions
      /\ \A i \in Entries : i \in Int
  BY <1>1, KeptFacts DEF Kept, Entries, Taken, Positions
<1>3. /\ values \in [Positions -> Int] /\ values' \in [Positions -> Int]
      /\ values'[pos] = values[pos - 1] /\ values'[pos - 1] = values[pos]
      /\ \A i \in Positions : i # pos /\ i # pos - 1 => values'[i] = values[i]
  BY <1>1, <1>2 DEF Swap, TypeOK
<1>4. TypeOK'
  BY <1>1, <1>2, <1>3 DEF TypeOK, Swap
<1>5. Ordered'
  <2>1. ASSUME NEW i \in Entries, NEW k \in Entries, i < k, i # pos - 1, k # pos - 1
        PROVE  values'[i] <= values'[k]
    <3>1. (i # pos /\ k # pos) \/ i = pos \/ k = pos
      OBVIOUS
    <3> QED
      BY <1>1, <1>2, <1>3, <2>1, <3>1 DEF Ordered
  <2>2. ASSUME NEW k \in Entries, k > pos - 1
        PROVE  values'[pos - 1] <= values'[k]
    BY <1>1, <1>2, <1>3, <2>2 DEF Ordered
  <2> QED
    BY <1>1, <1>2, <2>1, <2>2 DEF Ordered
<1>6. Covers'
  <2>1. ASSUME NEW i \in Entries
        PROVE  /\ \E k \in Entries : values'[i] = values[k]
               /\ \E k \in Entries : values'[k] = values[i]
    BY <1>1, <1>2, <1>3, <2>1
  <2>2. ASSUME NEW i \in Entries PROVE \E n \in Taken : samples[n] = values'[i]
    BY <1>1, <2>1, <2>2 DEF Covers
  <2>3. ASSUME NEW n \in Taken PROVE \E i \in Entries : values'[i] <= samples[n]
    BY <1>1, <2>1, <2>3 DEF Covers
  <2> QED
    BY <1>1, <1>2, <2>2, <2>3 DEF Covers
<1> QED
  BY <1>1, <1>2, <1>4, <1>5, <1>6 DEF FcycInv

LEMMA RepeatKeepsInv ==
  ASSUME FcycInv, Repeat
  PROVE  FcycInv'
<1>1. Sorted
  BY SortEnds DEF Repeat, FcycInv
<1>2. samplecount < maxsamples
  BY KeptFacts, FcycAssumption DEF Repeat, Enough, FcycInv
<1> QED
  BY <1>1, <1>2 DEF Repeat, FcycInv, TypeOK, Sorted, Covers, Entries, Kept, Taken, Positions

LEMMA ReturnKeepsInv ==
  ASSUME FcycInv, Return
  PROVE  FcycInv'
<1>1. Sorted
  BY SortEnds DEF Return, FcycInv
<1>2. pos \in Entries /\ TypeOK
  BY DEF Return, FcycInv
<1>3. samplecount > 0 /\ values[0] \in Int
  BY <1>2, KeptFacts, FcycAssumption DEF Entries, TypeOK, Positions
<1> QED
  BY <1>1, <1>3 DEF Return, FcycInv, TypeOK, Sorted, Covers, Entries, Kept, Taken, Positions

LEMMA AgainKeepsInv ==
  ASSUME FcycInv, Again
  PROVE  FcycInv'
<1>1. /\ values' = [i \in Positions |-> 0] /\ samplecount' = 0
      /\ samples' = [n \in {} |-> 0] /\ pos' = 0 /\ pc' = "measure" /\ result' = result
  BY DEF Again, init_sampler
<1>2. Entries' = {} /\ Taken' = {} /\ 0 \in Positions
  BY <1>1, FcycAssumption DEF Entries, Kept, Taken, Positions
<1>3. TypeOK'
  BY <1>1, <1>2, FcycAssumption DEF TypeOK, FcycInv
<1> QED
  BY <1>1, <1>2, <1>3, FcycAssumption DEF FcycInv, Sorted, Covers

LEMMA StutterKeepsInv ==
  ASSUME FcycInv, UNCHANGED vars
  PROVE  FcycInv'
BY DEF vars, FcycInv, TypeOK, Ordered, Sorted, Covers, Entries, Kept, Taken, Positions

LEMMA StepKeepsInv == FcycInv /\ [Next]_vars => FcycInv'
<1> SUFFICES ASSUME FcycInv, [Next]_vars PROVE FcycInv'
  OBVIOUS
<1>1. ASSUME NEW val \in Int, Measure(val) PROVE FcycInv'
  BY <1>1, MeasureKeepsInv
<1>2. CASE Swap \/ Repeat \/ Return \/ Again \/ UNCHANGED vars
  BY <1>2, SwapKeepsInv, RepeatKeepsInv, ReturnKeepsInv, AgainKeepsInv, StutterKeepsInv
<1> QED
  BY <1>1, <1>2 DEF Next, Run

LEMMA InitInv == Init => FcycInv
<1> SUFFICES ASSUME Init PROVE FcycInv
  OBVIOUS
<1>1. Entries = {} /\ Taken = {} /\ 0 \in Positions
  BY FcycAssumption DEF Init, Entries, Kept, Taken, Positions
<1> QED
  BY <1>1, FcycAssumption DEF Init, FcycInv, TypeOK, Sorted, Covers

\* The invariant above, for every sequence of measurements (fcyc.c:67-88, 129-153).
THEOREM FcycInvariant == Spec => []FcycInv
<1> QED
  BY InitInv, StepKeepsInv, PTL DEF Spec

\* add_sample never writes outside values, and fcyc never takes more than
\* maxsamples samples (fcyc.c:67-88, 142).
THEOREM FcycTypeCorrect == Spec => []TypeOK
<1>1. FcycInv => TypeOK
  BY DEF FcycInv
<1> QED
  BY <1>1, FcycInvariant, PTL

LEMMA InvReturnsLeast == FcycInv => ReturnsLeast
<1> SUFFICES ASSUME FcycInv, pc = "done"
             PROVE  /\ \E n \in Taken : samples[n] = result
                    /\ \A n \in Taken : result <= samples[n]
  BY DEF ReturnsLeast
<1>1. TypeOK /\ Sorted /\ Covers /\ samplecount > 0 /\ result = values[0]
  BY DEF FcycInv
<1>2. 0 \in Entries
  BY <1>1, KeptFacts, FcycAssumption DEF Entries, Kept
<1>3. \A i \in Entries : values[0] <= values[i]
  BY <1>1, <1>2 DEF Sorted, Entries
<1>4. ASSUME NEW n \in Taken PROVE result <= samples[n]
  <2>1. PICK i \in Entries : values[i] <= samples[n]
    BY <1>1 DEF Covers
  <2> QED
    BY <1>1, <1>2, <1>3, <2>1, KeptFacts, SamplesFacts
<1> QED
  BY <1>1, <1>2, <1>4 DEF Covers

\* The result of fcyc is the smallest time it has measured (fcyc.c:162).
THEOREM ResultIsLeast == Spec => []ReturnsLeast
<1> QED
  BY InvReturnsLeast, FcycInvariant, PTL

-----------------------------------------------------------------------------
(* The K smallest times.                                                   *)

KeptUpTo(v)  == {i \in Entries : values[i] <= v}
TakenUpTo(v) == {n \in Taken : samples[n] <= v}

Lesser(a, b) == IF a <= b THEN a ELSE b

\* For every v, as many times up to v are kept as were measured, and at most
\* kbest.  The sort, which moves the entries, changes nothing in this.
Counted == \A v \in Int :
              Cardinality(KeptUpTo(v)) = Lesser(kbest, Cardinality(TakenUpTo(v)))

LEMMA CountFacts ==
  ASSUME TypeOK, NEW v \in Int
  PROVE  /\ IsFiniteSet(KeptUpTo(v)) /\ Cardinality(KeptUpTo(v)) \in Nat
         /\ IsFiniteSet(TakenUpTo(v)) /\ Cardinality(TakenUpTo(v)) \in Nat
         /\ Cardinality(TakenUpTo(v)) <= samplecount
         /\ IsFiniteSet(Positions) /\ Cardinality(Positions) = kbest
<1>1. /\ IsFiniteSet(Entries) /\ IsFiniteSet(Taken) /\ Cardinality(Taken) = samplecount
      /\ IsFiniteSet(Positions) /\ Cardinality(Positions) = kbest
  <2>1. Kept - 1 \in Int /\ samplecount - 1 \in Int /\ kbest - 1 \in Int
        /\ samplecount \in Nat /\ kbest \in Nat
    BY KeptFacts, FcycAssumption
  <2>2. IsFiniteSet(0 .. Kept - 1)
    BY <2>1, FS_Interval
  <2>3. IsFiniteSet(0 .. samplecount - 1) /\ Cardinality(0 .. samplecount - 1) = samplecount
    BY <2>1, FS_Interval
  <2>4. IsFiniteSet(0 .. kbest - 1) /\ Cardinality(0 .. kbest - 1) = kbest
    BY <2>1, FS_Interval
  <2> QED
    BY <2>2, <2>3, <2>4 DEF Entries, Taken, Positions
<1>2. KeptUpTo(v) \subseteq Entries /\ TakenUpTo(v) \subseteq Taken
  BY DEF KeptUpTo, TakenUpTo
<1> QED
  BY <1>1, <1>2, FS_Subset, FS_CardinalityType

\* A new time counts for every v that it is not greater than.
LEMMA TakenCount ==
  ASSUME FcycInv, NEW val \in Int, Measure(val), NEW v \in Int
  PROVE  Cardinality(TakenUpTo(v)') =
            IF val <= v THEN Cardinality(TakenUpTo(v)) + 1 ELSE Cardinality(TakenUpTo(v))
<1>1. TypeOK /\ samplecount \in Nat
  BY KeptFacts DEF FcycInv
<1>2. /\ Taken' = Taken \cup {samplecount} /\ samplecount \notin Taken
      /\ samples'[samplecount] = val /\ \A n \in Taken : samples'[n] = samples[n]
  BY <1>1 DEF Measure, Taken
<1>3. TakenUpTo(v)' = {n \in Taken' : samples'[n] <= v}
  BY DEF TakenUpTo
<1>4. CASE val <= v
  <2>1. TakenUpTo(v)' = TakenUpTo(v) \cup {samplecount} /\ samplecount \notin TakenUpTo(v)
    BY <1>2, <1>3, <1>4 DEF TakenUpTo
  <2> QED BY <1>1, <1>4, <2>1, CountFacts, FS_AddElement
<1>5. CASE ~(val <= v)
  <2>1. TakenUpTo(v)' = TakenUpTo(v)
    BY <1>2, <1>3, <1>5 DEF TakenUpTo
  <2> QED BY <1>5, <2>1
<1> QED
  BY <1>4, <1>5

LEMMA MeasureKeepsCount ==
  ASSUME FcycInv, Counted, NEW val \in Int, Measure(val)
  PROVE  Counted'
<1>1. /\ TypeOK /\ TypeOK' /\ Sorted /\ samplecount \in Nat /\ pc = "measure"
      /\ Kept \in Nat /\ kbest \in Nat \ {0}
  BY MeasureKeepsInv, KeptFacts, FcycAssumption DEF FcycInv, Measure
<1> SUFFICES ASSUME NEW v \in Int
             PROVE  Cardinality(KeptUpTo(v)') = Lesser(kbest, Cardinality(TakenUpTo(v)'))
  BY DEF Counted
<1> DEFINE k == Cardinality(KeptUpTo(v))
           s == Cardinality(TakenUpTo(v))
<1>2. /\ k \in Nat /\ s \in Nat /\ s <= samplecount /\ k = Lesser(kbest, s)
      /\ IsFiniteSet(KeptUpTo(v))
      /\ Cardinality(TakenUpTo(v)') = IF val <= v THEN s + 1 ELSE s
      /\ IsFiniteSet(Positions) /\ Cardinality(Positions) = kbest
  BY <1>1, CountFacts, TakenCount DEF Counted
<1>3. KeptUpTo(v)' = {i \in Entries' : values'[i] <= v}
  BY DEF KeptUpTo
<1>4. CASE samplecount < kbest /\ Fill(samplecount, val)
  <2>1. Kept = samplecount /\ Kept' = samplecount + 1 /\ samplecount \in Positions
    BY <1>1, <1>4 DEF Measure, Kept, Positions
  <2>2. /\ Entries' = Entries \cup {samplecount} /\ samplecount \notin Entries
        /\ values'[samplecount] = val /\ \A i \in Entries : values'[i] = values[i]
    BY <1>1, <1>4, <2>1 DEF Fill, TypeOK, Entries, Positions
  <2>3. CASE val <= v
    <3>1. KeptUpTo(v)' = KeptUpTo(v) \cup {samplecount} /\ samplecount \notin KeptUpTo(v)
      BY <1>3, <2>2, <2>3 DEF KeptUpTo
    <3>2. Cardinality(KeptUpTo(v)') = k + 1
      BY <1>2, <3>1, FS_AddElement
    <3> HIDE DEF k, s
    <3> QED BY <1>1, <1>2, <1>4, <2>3, <3>2 DEF Lesser
  <2>4. CASE ~(val <= v)
    <3>1. KeptUpTo(v)' = KeptUpTo(v)
      BY <1>3, <2>2, <2>4 DEF KeptUpTo
    <3> QED BY <1>2, <2>4, <3>1
  <2> QED BY <2>3, <2>4
<1>5. CASE samplecount >= kbest
  <2> DEFINE w == values[kbest - 1]
  <2>1. /\ Entries = Positions /\ Entries' = Positions /\ kbest - 1 \in Positions
        /\ w \in Int
    BY <1>1, <1>5 DEF Measure, Kept, Entries, Positions, TypeOK
  <2>2. \A i \in Positions : values[i] <= w
    BY <1>1, <2>1 DEF Sorted, Positions
  <2>3. w <= v => KeptUpTo(v) = Positions /\ kbest <= s
    <3>1. ASSUME w <= v PROVE KeptUpTo(v) = Positions
      BY <1>1, <2>1, <2>2, <3>1 DEF KeptUpTo, TypeOK
    <3> HIDE DEF w
    <3> QED BY <1>1, <1>2, <3>1 DEF Lesser
  <2>4. CASE val < w /\ Fill(kbest - 1, val)
    <3>1. /\ values'[kbest - 1] = val
          /\ \A i \in Positions : i # kbest - 1 => values'[i] = values[i]
      BY <1>1, <2>1, <2>4 DEF Fill, TypeOK
    <3>2. CASE w <= v
      <4>1. KeptUpTo(v)' = Positions
        BY <1>1, <1>3, <2>1, <2>2, <2>4, <3>1, <3>2 DEF TypeOK
      <4> HIDE DEF k, s, w
      <4> QED BY <1>1, <1>2, <2>3, <3>2, <4>1 DEF Lesser
    <3>3. CASE val <= v /\ ~(w <= v)
      <4>1. KeptUpTo(v)' = KeptUpTo(v) \cup {kbest - 1} /\ kbest - 1 \notin KeptUpTo(v)
        BY <1>3, <2>1, <3>1, <3>3 DEF KeptUpTo
      <4>2. Cardinality(KeptUpTo(v)') = k + 1
        BY <1>2, <4>1, FS_AddElement
      <4>3. Cardinality(KeptUpTo(v)') <= kbest
        BY <1>2, <1>3, <2>1, FS_Subset
      <4> HIDE DEF k, s, w
      <4> QED BY <1>1, <1>2, <3>3, <4>2, <4>3 DEF Lesser
    <3>4. CASE ~(val <= v)
      <4>1. KeptUpTo(v)' = KeptUpTo(v)
        BY <1>3, <2>1, <2>4, <3>1, <3>4 DEF KeptUpTo
      <4> QED BY <1>2, <3>4, <4>1
    <3> QED BY <3>2, <3>3, <3>4
  <2>5. CASE val >= w /\ UNCHANGED values
    <3>1. Cardinality(KeptUpTo(v)') = k
      BY <1>3, <2>1, <2>5 DEF KeptUpTo
    <3>3. w <= v => k = kbest
      BY <1>2, <2>3
    <3>2. val <= v => w <= v
      BY <2>1, <2>5
    <3> HIDE DEF k, s, w
    <3> QED BY <1>1, <1>2, <2>3, <3>1, <3>2, <3>3 DEF Lesser
  <2> QED BY <1>1, <1>5, <2>1, <2>4, <2>5 DEF Measure, Place
<1> QED
  BY <1>1, <1>4, <1>5 DEF Measure, Place

\* The sort exchanges two entries.
LEMMA SwapKeepsCount ==
  ASSUME FcycInv, Counted, Swap
  PROVE  Counted'
<1>1. /\ TypeOK /\ pos \in Entries /\ pos > 0
      /\ values' = [values EXCEPT ![pos - 1] = values[pos], ![pos] = values[pos - 1]]
      /\ samplecount' = samplecount /\ samples' = samples
  BY DEF FcycInv, Swap, Unsorted
<1>2. /\ Entries' = Entries /\ Taken' = Taken /\ pos - 1 \in Entries
      /\ Entries \subseteq Positions /\ pos # pos - 1
  BY <1>1, KeptFacts DEF Kept, Entries, Taken
<1>3. /\ values'[pos] = values[pos - 1] /\ values'[pos - 1] = values[pos]
      /\ \A i \in Entries : i # pos /\ i # pos - 1 => values'[i] = values[i]
  BY <1>1, <1>2 DEF TypeOK
<1> SUFFICES ASSUME NEW v \in Int
             PROVE  Cardinality(KeptUpTo(v)') = Cardinality(KeptUpTo(v))
                    /\ TakenUpTo(v)' = TakenUpTo(v)
  BY DEF Counted
<1> DEFINE from(i) == IF i = pos THEN pos - 1 ELSE IF i = pos - 1 THEN pos ELSE i
           g == [i \in KeptUpTo(v) |-> from(i)]
<1>4. KeptUpTo(v)' = {i \in Entries : values'[i] <= v}
  BY <1>2 DEF KeptUpTo
<1>5. \A i \in Entries : /\ from(i) \in Entries /\ from(from(i)) = i
                         /\ values'[from(i)] = values[i]
  <2> TAKE i \in Entries
  <2>1. CASE i = pos
    BY <1>1, <1>2, <1>3, <2>1
  <2>2. CASE i = pos - 1
    BY <1>1, <1>2, <1>3, <2>2
  <2>3. CASE i # pos /\ i # pos - 1
    BY <1>1, <1>2, <1>3, <2>3
  <2> QED BY <2>1, <2>2, <2>3
<1> HIDE DEF from
<1>6. \A i \in KeptUpTo(v) : from(i) \in KeptUpTo(v)'
  BY <1>4, <1>5 DEF KeptUpTo
<1>7. \A i \in KeptUpTo(v)' : from(i) \in KeptUpTo(v)
  BY <1>4, <1>5 DEF KeptUpTo
<1>8. g \in Bijection(KeptUpTo(v), KeptUpTo(v)')
  <2>1. g \in [KeptUpTo(v) -> KeptUpTo(v)']
    BY <1>6
  <2>2. \A i, j \in KeptUpTo(v) : g[i] = g[j] => i = j
    BY <1>5 DEF KeptUpTo
  <2>3. \A i \in KeptUpTo(v)' : \E j \in KeptUpTo(v) : g[j] = i
    <3> TAKE i \in KeptUpTo(v)'
    <3>1. from(i) \in KeptUpTo(v) /\ i \in Entries
      BY <1>4, <1>7
    <3>2. g[from(i)] = i
      BY <1>5, <3>1
    <3> QED BY <3>1, <3>2
  <2> HIDE DEF g
  <2> QED BY <2>1, <2>2, <2>3, Zenon DEF Bijection, Injection, Surjection, IsInjective
<1>9. Cardinality(KeptUpTo(v)') = Cardinality(KeptUpTo(v))
  BY <1>1, <1>8, CountFacts, FS_Bijection DEF ExistsBijection
<1> QED
  BY <1>1, <1>2, <1>9 DEF TakenUpTo

LEMMA AgainKeepsCount ==
  ASSUME samplecount' = 0
  PROVE  Counted'
<1>1. Entries' = {} /\ Taken' = {}
  BY FcycAssumption DEF Entries, Kept, Taken
<1>2. \A v \in Int : KeptUpTo(v)' = {} /\ TakenUpTo(v)' = {}
  BY <1>1 DEF KeptUpTo, TakenUpTo
<1> QED
  BY <1>2, FS_EmptySet, FcycAssumption DEF Counted, Lesser

LEMMA CountStep ==
  ASSUME FcycInv, Counted, [Next]_vars
  PROVE  Counted'
<1>1. ASSUME NEW val \in Int, Measure(val) PROVE Counted'
  BY <1>1, MeasureKeepsCount
<1>2. CASE Repeat \/ Return \/ UNCHANGED vars
  BY <1>2 DEF Repeat, Return, vars, Counted, KeptUpTo, TakenUpTo, Entries, Kept, Taken
<1>3. CASE Again
  BY <1>3, AgainKeepsCount DEF Again, init_sampler
<1> QED
  BY <1>1, <1>2, <1>3, SwapKeepsCount DEF Next, Run

LEMMA InitCounted == Init => Counted
<1> SUFFICES ASSUME Init PROVE Counted
  OBVIOUS
<1>1. Entries = {} /\ Taken = {}
  BY FcycAssumption DEF Init, Entries, Kept, Taken
<1>2. \A v \in Int : KeptUpTo(v) = {} /\ TakenUpTo(v) = {}
  BY <1>1 DEF KeptUpTo, TakenUpTo
<1> QED
  BY <1>2, FS_EmptySet, FcycAssumption DEF Counted, Lesser

LEMMA MinOfTwo ==
  ASSUME NEW a \in Nat, NEW b \in Nat
  PROVE  Min({a, b}) = Lesser(a, b)
<1>1. \E x \in {a, b} : \A y \in {a, b} : x <= y
  BY DEF Lesser
<1>2. Min({a, b}) \in {a, b} /\ \A y \in {a, b} : Min({a, b}) <= y
  BY <1>1 DEF Min
<1> QED
  BY <1>2 DEF Lesser

\* Whenever the sort is over, values holds the kbest smallest of all times
\* measured, in order (fcyc.c:67-88): what has_converged compares are the best
\* and the K-th best time.
THEOREM BestAreHeld == Spec => []HoldsBest
<1>1. FcycInv /\ Counted => HoldsBest
  <2> SUFFICES ASSUME FcycInv, Counted, pc # "sort" \/ ~Unsorted PROVE HoldsBest
    BY DEF HoldsBest
  <2>1. TypeOK /\ Sorted
    BY SortEnds DEF FcycInv
  <2>2. ASSUME NEW n \in Taken
        PROVE  Cardinality({i \in 0 .. Kept - 1 : values[i] <= samples[n]})
                  = Min({kbest, Cardinality({m \in Taken : samples[m] <= samples[n]})})
    <3>1. samples[n] \in Int
      BY <2>1, SamplesFacts
    <3>2. Cardinality(TakenUpTo(samples[n])) \in Nat /\ kbest \in Nat
      BY <2>1, <3>1, CountFacts, FcycAssumption
    <3> QED
      BY <3>1, <3>2, MinOfTwo DEF Counted, KeptUpTo, TakenUpTo, Entries
  <2>3. \A v \in {samples[n] : n \in Taken} :
           Cardinality({i \in 0 .. Kept - 1 : values[i] <= v})
              = Min({kbest, Cardinality({m \in Taken : samples[m] <= v})})
    BY <2>2
  <2> QED
    BY <2>1, <2>3 DEF HoldsBest, Sorted, Entries
<1>2. FcycInv /\ Counted /\ [Next]_vars => Counted'
  BY CountStep
<1> QED
  BY <1>1, <1>2, InitCounted, FcycInvariant, PTL DEF Spec


-----------------------------------------------------------------------------
(* fcyc with the cycle counter.                                            *)

\* The counter has been started, and elapsed cycles have passed since.
Running == \E s \in Instants : /\ now = s + elapsed
                               /\ cyc_hi = Hi(s) /\ cyc_lo = Lo(s)

ClockTypeOK ==
    /\ now \in Instants /\ ticks \in Nat
    /\ cyc_hi \in 0 .. Word - 1 /\ cyc_lo \in 0 .. Word - 1
    /\ cyc_per_tick \in Int
    /\ cyc_per_tick = 0 \/ cyc_per_tick > RECORDTHRESH
    /\ oldt \in Nat /\ e \in 0 .. NEVENT
    /\ elapsed \in Nat

SettingsOK ==
    /\ at \in {"top", "start", "calibrate", "run", "exit"}
    /\ cache_bytes \in CacheSizes /\ cache_buf \in {0, cache_bytes}

FsecsInv ==
    /\ FcycInv
    /\ ClockTypeOK
    /\ SettingsOK
    /\ at # "top" => pc = "measure"
    /\ at \in {"run", "calibrate"} => Running
    /\ truth = samples

-----------------------------------------------------------------------------
(* Arithmetic.                                                             *)

LEMMA DivRem ==
  ASSUME NEW W \in Nat, W > 1, NEW t \in Nat
  PROVE  t \div W \in Nat /\ t % W \in 0 .. W - 1 /\ t = W * (t \div W) + (t % W)
BY Z3T(20)

LEMMA ModLow ==
  ASSUME NEW W \in Nat, W > 1, NEW a \in 0 .. W - 1
  PROVE  a % W = a
BY Z3T(20)

LEMMA ModNegative ==
  ASSUME NEW W \in Nat, W > 1, NEW a \in Int, -W <= a, a < 0
  PROVE  a % W = a + W
BY Z3T(20)

LEMMA DivInt ==
  ASSUME NEW a \in Int, NEW b \in Nat, b > 0
  PROVE  a \div b \in Int
BY Z3T(20)

LEMMA Monotone ==
  ASSUME NEW W \in Nat, W > 1, NEW a \in Nat, NEW b \in Nat,
         NEW p \in 0 .. W - 1, NEW q \in 0 .. W - 1, W * a + p <= W * b + q
  PROVE  a <= b
<1> SUFFICES ASSUME a >= b + 1 PROVE FALSE
  OBVIOUS
<1>1. W * a >= W * (b + 1)
  BY Z3T(20)
<1>2. W * (b + 1) = W * b + W
  BY Z3T(20)
<1>3. W * a \in Nat /\ W * b \in Nat
  BY Z3T(20)
<1> QED
  BY <1>1, <1>2, <1>3

LEMMA Difference ==
  ASSUME NEW W \in Nat, NEW h \in Nat, NEW k \in Nat, NEW p \in Nat, NEW q \in Nat
  PROVE  /\ (h - k) * W + (p - q) = (W * h + p) - (W * k + q)
         /\ (h - k - 1) * W + (p - q + W) = (W * h + p) - (W * k + q)
<1>1. (h - k) * W + (p - q) = (W * h + p) - (W * k + q)
  BY Z3T(20)
<1>2. (h - k - 1) * W + (p - q + W) = (W * h + p) - (W * k + q)
  BY Z3T(20)
<1> QED
  BY <1>1, <1>2

LEMMA WordFacts ==
  ASSUME NEW t \in Instants
  PROVE  /\ t \in Nat
         /\ Hi(t) \in 0 .. Word - 1 /\ Lo(t) \in 0 .. Word - 1
         /\ t = Word * Hi(t) + Lo(t)
<1>1. t \in Nat /\ t < Word * Word
  BY ClockAssumption, Z3T(20) DEF Instants
<1>2. Hi(t) \in Nat /\ Lo(t) \in 0 .. Word - 1 /\ t = Word * Hi(t) + Lo(t)
  BY <1>1, DivRem, ClockAssumption DEF Hi, Lo
<1>3. Hi(t) <= Word - 1
  <2> SUFFICES ASSUME Hi(t) >= Word PROVE FALSE
    BY <1>2, ClockAssumption
  <2>1. Word * Hi(t) >= Word * Word
    BY <1>2, ClockAssumption, Z3T(20)
  <2> QED
    BY <1>1, <1>2, <2>1, ClockAssumption, Z3T(20)
<1> QED
  BY <1>1, <1>2, <1>3, ClockAssumption

\* The subtraction of two words with a borrow gives the cycles between two
\* instants, however often the low word has gone round (clock.c:62-66).
THEOREM CounterExact ==
  ASSUME now \in Instants, NEW s \in Instants, s <= now
  PROVE  get_counter(Hi(s), Lo(s)) = now - s
<1>1. /\ s \in Nat /\ now \in Nat
      /\ Hi(s) \in 0 .. Word - 1 /\ Lo(s) \in 0 .. Word - 1
      /\ Hi(now) \in 0 .. Word - 1 /\ Lo(now) \in 0 .. Word - 1
      /\ s = Word * Hi(s) + Lo(s) /\ now = Word * Hi(now) + Lo(now)
  BY WordFacts
<1>2. Word \in Nat /\ Word > 1
  BY ClockAssumption
<1>3. Hi(s) <= Hi(now)
  BY <1>1, <1>2, Monotone
<1>4. CASE Lo(now) >= Lo(s)
  <2>1. (Lo(now) - Lo(s)) % Word = Lo(now) - Lo(s)
    BY <1>1, <1>2, <1>4, ModLow
  <2>2. ~((Lo(now) - Lo(s)) % Word > Lo(now))
    BY <1>1, <2>1
  <2>3. (Hi(now) - Hi(s) - 0) % Word = Hi(now) - Hi(s)
    <3>1. Hi(now) - Hi(s) - 0 = Hi(now) - Hi(s) /\ Hi(now) - Hi(s) \in 0 .. Word - 1
      BY <1>1, <1>2, <1>3
    <3> QED
      BY <1>2, <3>1, ModLow
  <2>4. get_counter(Hi(s), Lo(s)) = (Hi(now) - Hi(s)) * Word + (Lo(now) - Lo(s))
    BY <2>1, <2>2, <2>3 DEF get_counter, Bit
  <2> QED
    BY <1>1, <1>2, <2>4, Difference
<1>5. CASE Lo(now) < Lo(s)
  <2>1. (Lo(now) - Lo(s)) % Word = Lo(now) - Lo(s) + Word
    BY <1>1, <1>2, <1>5, ModNegative
  <2>2. (Lo(now) - Lo(s)) % Word > Lo(now)
    BY <1>1, <1>2, <2>1
  <2>3. Hi(s) # Hi(now)
    BY <1>1, <1>2, <1>5
  <2>4. (Hi(now) - Hi(s) - 1) % Word = Hi(now) - Hi(s) - 1
    <3>1. Hi(now) - Hi(s) - 1 \in 0 .. Word - 1
      BY <1>1, <1>2, <1>3, <2>3
    <3> QED
      BY <1>2, <3>1, ModLow
  <2>5. get_counter(Hi(s), Lo(s))
          = (Hi(now) - Hi(s) - 1) * Word + (Lo(now) - Lo(s) + Word)
    BY <2>1, <2>2, <2>4 DEF get_counter, Bit
  <2> QED
    BY <1>1, <1>2, <2>5, Difference
<1> QED
  BY <1>1, <1>4, <1>5

LEMMA RunningExact ==
  ASSUME now \in Instants, elapsed \in Nat, Running
  PROVE  Counter = elapsed
<1>1. PICK s \in Instants : now = s + elapsed /\ cyc_hi = Hi(s) /\ cyc_lo = Lo(s)
  BY DEF Running
<1>2. s \in Nat /\ s <= now /\ now - s = elapsed
  BY <1>1, WordFacts
<1> QED
  BY <1>1, <1>2, CounterExact DEF Counter

-----------------------------------------------------------------------------
(* The steps.                                                              *)

LEMMA StopKeepsInv ==
  ASSUME FsecsInv, StopCounter
  PROVE  FsecsInv'
<1>1. /\ FcycInv /\ ClockTypeOK /\ SettingsOK /\ truth = samples
      /\ Running /\ Measure(Counter - Compensation) /\ at' = "top"
      /\ UNCHANGED <<timeVars, clockVars, ratioVars, setVars, cache_buf, elapsed>>
  BY DEF FsecsInv, StopCounter, At
<1>2. Counter = elapsed
  BY <1>1, RunningExact DEF ClockTypeOK
<1>3. Counter - Compensation \in Int
  BY <1>1, <1>2 DEF ClockTypeOK, Compensation
<1>4. FcycInv'
  BY <1>1, <1>3, MeasureKeepsInv
<1>5. truth' = samples'
  BY <1>1, <1>2 DEF StopCounter, Measure
<1> QED
  BY <1>1, <1>4, <1>5 DEF FsecsInv, ClockTypeOK, SettingsOK, timeVars, clockVars, ratioVars,
                          setVars

LEMMA StartKeepsRunning ==
  ASSUME now \in Instants, Started, elapsed' = 0
  PROVE  Running' /\ now' \in Instants /\ ticks' = 0
         /\ cyc_hi' \in 0 .. Word - 1 /\ cyc_lo' \in 0 .. Word - 1
<1>1. now' = now + 0 /\ now \in Nat
  BY WordFacts DEF Started
<1> QED
  BY <1>1, WordFacts DEF Started, start_counter, Running

LEMMA ElapsesKeepsInv ==
  ASSUME FsecsInv, Timed, NEW d \in Nat, Elapses(d), now' = now + d, now' \in Instants,
         ticks' \in Nat
  PROVE  FsecsInv'
<1>1. at \in {"run", "calibrate"} /\ Running /\ elapsed \in Nat
  BY DEF FsecsInv, Timed, At, ClockTypeOK
<1>2. Running' /\ elapsed' \in Nat
  <2>1. PICK s \in Instants : now = s + elapsed /\ cyc_hi = Hi(s) /\ cyc_lo = Lo(s)
    BY <1>1 DEF Running
  <2>2. now' = s + elapsed' /\ elapsed' \in Nat
    BY <1>1, <2>1, WordFacts DEF Elapses
  <2> QED
    BY <2>1, <2>2 DEF Elapses, clockVars, Running
<1>3. FcycInv'
  BY StutterKeepsInv DEF FsecsInv, Elapses
<1> QED
  BY <1>2, <1>3 DEF FsecsInv, ClockTypeOK, SettingsOK, Elapses, vars, clockVars, ratioVars,
                    setVars

LEMMA WatchKeepsInv ==
  ASSUME FsecsInv, Watch
  PROVE  FsecsInv'
<1>1. /\ ClockTypeOK /\ Running /\ EventSeen /\ UNCHANGED vars
      /\ UNCHANGED <<at, setVars, cache_buf, realVars, now, clockVars>>
  BY DEF FsecsInv, Watch, At, EventSeen
<1>2. Counter \in Nat
  BY <1>1, RunningExact DEF ClockTypeOK
<1>3. oldt' \in Nat
  BY <1>1, <1>2 DEF EventSeen
<1>4. /\ cyc_per_tick' \in Int /\ (cyc_per_tick' = 0 \/ cyc_per_tick' > RECORDTHRESH)
      /\ e' \in 0 .. NEVENT /\ ticks' \in Nat
  <2>1. CASE ticks > 0 /\ e' = e + 1 /\ ticks' = 0
             /\ LET cpt == (Counter - oldt) \div ticks
                IN  cyc_per_tick' = IF Better(cpt) THEN cpt ELSE cyc_per_tick
    <3> DEFINE cpt == (Counter - oldt) \div ticks
    <3>1. cpt \in Int
      BY <1>1, <1>2, <2>1, DivInt DEF ClockTypeOK
    <3>2. Better(cpt) => cpt > RECORDTHRESH
      BY DEF Better
    <3>3. (cyc_per_tick' = cpt /\ Better(cpt)) \/ cyc_per_tick' = cyc_per_tick
      BY <2>1
    <3> HIDE DEF cpt
    <3> QED
      BY <1>1, <2>1, <3>1, <3>2, <3>3, ClockAssumption DEF ClockTypeOK, EventSeen
  <2>2. CASE ticks = 0 /\ UNCHANGED <<cyc_per_tick, e, ticks>>
    BY <1>1, <2>2 DEF ClockTypeOK
  <2> QED
    BY <1>1, <2>1, <2>2 DEF EventSeen
<1>5. FcycInv'
  BY <1>1, StutterKeepsInv DEF FsecsInv
<1>6. Running'
  BY <1>1 DEF Running, realVars, clockVars
<1> QED
  BY <1>1, <1>3, <1>4, <1>5, <1>6 DEF FsecsInv, ClockTypeOK, SettingsOK, vars, clockVars,
                                      setVars, realVars

LEMMA FsecsStepKeepsInv == FsecsInv /\ [FsecsNext]_allVars => FsecsInv'
<1> SUFFICES ASSUME FsecsInv, [FsecsNext]_allVars PROVE FsecsInv'
  OBVIOUS
<1> USE DEF FsecsInv
<1>1. ASSUME Begin \/ Clear PROVE FsecsInv'
  <2>1. /\ UNCHANGED vars /\ at' = "start" /\ pc = "measure" /\ now' \in Instants
        /\ UNCHANGED <<ticks, clockVars, ratioVars, setVars, realVars>>
        /\ cache_buf' \in {0, cache_bytes}
    BY <1>1, FsecsAssumption DEF Begin, Clear, At, SettingsOK
  <2> QED
    BY <2>1, StutterKeepsInv DEF vars, ClockTypeOK, SettingsOK, clockVars, ratioVars,
                                 setVars, realVars
<1>2. CASE Calibrate
  <2>1. /\ UNCHANGED vars /\ at' = "calibrate" /\ pc = "measure"
        /\ Started /\ elapsed' = 0 /\ oldt' = 0 /\ e' = 0
        /\ UNCHANGED <<cyc_per_tick, setVars, cache_buf, truth>>
    BY <1>2 DEF Calibrate, CalibrationBegins, At
  <2>2. /\ Running' /\ now' \in Instants /\ ticks' = 0
        /\ cyc_hi' \in 0 .. Word - 1 /\ cyc_lo' \in 0 .. Word - 1
    BY <2>1, StartKeepsRunning DEF ClockTypeOK
  <2> QED
    BY <2>1, <2>2, StutterKeepsInv, ClockAssumption DEF vars, ClockTypeOK, SettingsOK, setVars
<1>3. CASE Watch
  BY <1>3, WatchKeepsInv
<1>4. CASE StartCounter
  <2>1. /\ UNCHANGED vars /\ at' = "run" /\ pc = "measure" /\ Started /\ elapsed' = 0
        /\ UNCHANGED <<ratioVars, setVars, cache_buf, truth>>
    BY <1>4 DEF StartCounter, At
  <2>2. /\ Running' /\ now' \in Instants /\ ticks' = 0
        /\ cyc_hi' \in 0 .. Word - 1 /\ cyc_lo' \in 0 .. Word - 1
    BY <2>1, StartKeepsRunning DEF ClockTypeOK
  <2> QED
    BY <2>1, <2>2, StutterKeepsInv DEF vars, ClockTypeOK, SettingsOK, ratioVars, setVars
<1>5. CASE StopCounter
  BY <1>5, StopKeepsInv
<1>6. CASE Sampling
  <2>1. FcycInv' /\ samples' = samples /\ pc = "sort"
    BY <1>6, SwapKeepsInv, RepeatKeepsInv, ReturnKeepsInv DEF Sampling, Swap, Repeat, Return
  <2> QED
    BY <1>6, <2>1 DEF Sampling, ClockTypeOK, SettingsOK, timeVars, clockVars, ratioVars,
                      setVars, realVars
<1>7. CASE NextCall
  <2>1. FcycInv' /\ samples' = truth' /\ pc = "done"
    BY <1>7, AgainKeepsInv DEF NextCall, Again, init_sampler
  <2> QED
    BY <1>7, <2>1 DEF NextCall, ClockTypeOK, SettingsOK, timeVars, clockVars, ratioVars,
                      setVars
<1>8. CASE SetCacheSize
  BY <1>8, StutterKeepsInv DEF SetCacheSize, set_fcyc_cache_size, vars, ClockTypeOK,
     SettingsOK, timeVars, clockVars, ratioVars, realVars
<1>9. CASE SetFlags
  BY <1>9, StutterKeepsInv DEF SetFlags, vars, ClockTypeOK, SettingsOK, timeVars, clockVars,
     ratioVars, realVars
<1>10. CASE Work
  <2>1. PICK d \in Works : Passes(d) /\ Elapses(d)
    BY <1>10 DEF Work
  <2>2. d \in Nat /\ Timed /\ ticks' \in Nat /\ now' = now + d /\ now' \in Instants
    BY <1>10, <2>1, FsecsAssumption DEF Work, Passes, ClockTypeOK
  <2> QED
    BY <2>1, <2>2, ElapsesKeepsInv
<1>11. CASE Tick
  <2>1. PICK d \in TickCosts : Interrupts(d) /\ Elapses(d)
    BY <1>11 DEF Tick
  <2>2. d \in Nat /\ Timed /\ ticks' \in Nat /\ now' = now + d /\ now' \in Instants
    BY <1>11, <2>1, FsecsAssumption DEF Tick, Interrupts, ClockTypeOK
  <2> QED
    BY <2>1, <2>2, ElapsesKeepsInv
<1>12. CASE UNCHANGED allVars
  BY <1>12, StutterKeepsInv DEF allVars, vars, ClockTypeOK, SettingsOK, timeVars, clockVars,
     ratioVars, setVars, realVars, Running
<1>13. CASE ClearFails
  BY <1>13, StutterKeepsInv DEF ClearFails, At, vars, ClockTypeOK, SettingsOK, timeVars,
     clockVars, ratioVars, setVars, realVars
<1> QED
  BY <1>1, <1>2, <1>3, <1>4, <1>5, <1>6, <1>7, <1>8, <1>9, <1>10, <1>11, <1>12,
     <1>13
  DEF FsecsNext, Program

LEMMA FsecsInitInv == FsecsInit => FsecsInv
<1> SUFFICES ASSUME FsecsInit PROVE FsecsInv
  OBVIOUS
<1>1. FcycInv /\ truth = samples
  BY InitInv DEF FsecsInit, Init
<1>2. ClockTypeOK /\ SettingsOK
  BY ClockAssumption, FsecsAssumption DEF FsecsInit, ClockTypeOK, SettingsOK
<1> QED
  BY <1>1, <1>2 DEF FsecsInit, FsecsInv

THEOREM FsecsInvariant == FsecsSpec => []FsecsInv
<1> QED
  BY FsecsInitInv, FsecsStepKeepsInv, PTL DEF FsecsSpec

\* The buffer that clear walks through has the size last set, whatever the
\* order of calls (fcyc.c:105-119, 191-200).
THEOREM FsecsTypeCorrect == FsecsSpec => []FsecsTypeOK
<1>1. FsecsInv => FsecsTypeOK
  BY DEF FsecsInv, FcycInv, ClockTypeOK, SettingsOK, FsecsTypeOK
<1> QED
  BY <1>1, FsecsInvariant, PTL

\* fcyc returns the least of the times that really passed (fcyc.c:126-168,
\* clock.c:53-71).
THEOREM LeastElapsedReturned == FsecsSpec => []ReturnsLeastElapsed
<1>1. FsecsInv => ReturnsLeastElapsed
  BY InvReturnsLeast DEF FsecsInv, FcycInv, TypeOK, ReturnsLeast, ReturnsLeastElapsed
<1> QED
  BY <1>1, FsecsInvariant, PTL

\* The sampler that fsecs.c sets up is fcyc: whatever the counter, its ticks and
\* the settings do, they only make up the numbers that add_sample is given
\* (fcyc.c:126-168).
THEOREM SamplesAsFcyc == FsecsSpec => Spec
<1>1. FsecsInit => Init
  BY DEF FsecsInit
<1>2. FsecsInv /\ [FsecsNext]_allVars => [Next]_vars
  <2> SUFFICES ASSUME FsecsInv, [FsecsNext]_allVars PROVE [Next]_vars
    OBVIOUS
  <2>1. CASE StopCounter
    <3>1. Measure(Counter - Compensation)
      BY <2>1 DEF StopCounter
    <3>2. Running /\ ClockTypeOK
      BY <2>1 DEF FsecsInv, StopCounter, At
    <3>3. Counter - Compensation \in Int
      BY <3>2, RunningExact DEF ClockTypeOK, Compensation
    <3> QED
      BY <3>1, <3>3 DEF Next, Run
  <2>2. CASE Sampling \/ NextCall
    BY <2>2 DEF Sampling, NextCall, Next, Run
  <2>3. CASE \/ Begin \/ Clear \/ ClearFails \/ Calibrate \/ Watch \/ StartCounter
           \/ SetCacheSize \/ SetFlags
    BY <2>3 DEF Begin, Clear, ClearFails, Calibrate, Watch, StartCounter, SetCacheSize, SetFlags
  <2>4. CASE Work \/ Tick
    BY <2>4 DEF Work, Tick, Elapses
  <2>5. CASE UNCHANGED allVars
    BY <2>5 DEF allVars
  <2> QED
    BY <2>1, <2>2, <2>3, <2>4, <2>5 DEF FsecsNext, Program
<1> QED
  BY <1>1, <1>2, FsecsInvariant, PTL DEF FsecsSpec, Spec

\* So values holds the kbest smallest of the measurements, in order, also when
\* the counter takes them.
THEOREM BestMeasurementsHeld == FsecsSpec => []HoldsBest
<1> QED
  BY SamplesAsFcyc, BestAreHeld, PTL

=============================================================================
