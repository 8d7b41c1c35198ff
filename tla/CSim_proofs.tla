---------------------------- MODULE CSim_proofs ----------------------------
(***************************************************************************)
(* Proofs about csim, for every geometry of the cache and every trace: a   *)
(* set never holds a tag twice and its stamps are pairwise different, so   *)
(* the line it replaces is determined; the counters fit the contents; and  *)
(* every step is one of a cache with least-recently-used replacement.      *)
(***************************************************************************)
EXTENDS CSim, SetFacts

-----------------------------------------------------------------------------
(* One use of the cache.                                                   *)

Used0(tag) == [validbit |-> 1, tag |-> tag, stamp |-> 0]

\* new is set after line i has been used for tag; no other line has the tag.
UsedAt(set, tag, i, new) ==
    /\ i \in Index
    /\ new = [set EXCEPT ![i] = Used0(tag)]
    /\ \A k \in Valid(set) : set[k].tag = tag => k = i

\* What is known of the lines of a set between two trace lines.
Sound(set) ==
    /\ set \in [Index -> Line]
    /\ \A i \in Valid(set) : set[i].tag \in Tags /\ set[i].stamp \in Nat
    /\ \A i, k \in Valid(set) : i # k => set[i].tag # set[k].tag

LEMMA IndexFinite ==
  ASSUME NEW I \in SUBSET Index
  PROVE  /\ IsFiniteSet(I)
         /\ I # {} => Min(I) \in I
<1>1. IsFiniteSet(Index) /\ Index \subseteq Nat
  BY FS_Interval, CSimAssumption DEF Index
<1>2. IsFiniteSet(I)
  BY <1>1, FS_Subset
<1> QED
  BY <1>1, <1>2, MinFacts

\* A line with another stamp, spelled out.
LEMMA RecordFacts ==
  ASSUME NEW line \in Line, NEW n
  PROVE  [line EXCEPT !.stamp = n]
            = [validbit |-> line.validbit, tag |-> line.tag, stamp |-> n]
BY DEF Line

\* A full set has an oldest line.
LEMMA OldestFacts ==
  ASSUME NEW set, Sound(set), IsFull(set)
  PROVE  /\ Oldest(set) \in Index
         /\ \A k \in Index : set[k].stamp <= set[Oldest(set)].stamp
<1> DEFINE Stamps == {set[i].stamp : i \in Index}
           Old == {i \in Index : \A k \in Index : set[i].stamp >= set[k].stamp}
<1>1. Stamps \subseteq Nat /\ Stamps # {}
  BY CSimAssumption DEF Sound, IsFull, Index
<1>2. IsFiniteSet(Stamps)
  <2>1. Stamps \subseteq 0 .. MaxLines
    BY CSimAssumption DEF Sound, IsFull, Line
  <2>2. IsFiniteSet(0 .. MaxLines)
    BY FS_Interval, CSimAssumption
  <2> QED
    BY <2>1, <2>2, FS_Subset
<1>3. Max(Stamps) \in Stamps /\ \A n \in Stamps : n <= Max(Stamps)
  BY <1>1, <1>2, MaxFacts
<1>4. PICK i \in Index : set[i].stamp = Max(Stamps)
  BY <1>3
<1>5. i \in Old
  BY <1>1, <1>3, <1>4
<1>6. Min(Old) \in Old
  BY <1>5, IndexFinite
<1> QED
  BY <1>6 DEF Oldest

\* What a use of line i for tag counts as: a hit finds the tag in the line, a
\* miss fills a free line, and a miss in a full set evicts the oldest line.
Counted(set, tag, i, hit, miss, evict) ==
    \/ /\ i \in Valid(set) /\ set[i].tag = tag
       /\ hit = 1 /\ miss = 0 /\ evict = 0
    \/ /\ i \notin Valid(set) /\ Matching(set, tag) = {}
       /\ hit = 0 /\ miss = 1 /\ evict = 0
    \/ /\ IsFull(set) /\ Matching(set, tag) = {}
       /\ \A k \in Index : set[k].stamp <= set[i].stamp
       /\ hit = 0 /\ miss = 1 /\ evict = 1

LEMMA UpdateFacts ==
  ASSUME NEW set, Sound(set), NEW tag \in Tags
  PROVE  LET u == updateCache(set, tag)
         IN  \E i : UsedAt(set, tag, i, u.set)
                    /\ Counted(set, tag, i, u.hit, u.miss, u.evict)
<1> DEFINE u == updateCache(set, tag)
<1>1. CASE Matching(set, tag) # {}
  <2> DEFINE i == Min(Matching(set, tag))
  <2>1. i \in Matching(set, tag)
    BY <1>1, IndexFinite DEF Matching, Valid
  <2> HIDE DEF i
  <2>2. u = [set |-> Touch(set, i), hit |-> 1, miss |-> 0, evict |-> 0]
    BY <1>1 DEF updateCache, Hit, i
  <2>3. i \in Valid(set) /\ set[i].tag = tag /\ i \in Index /\ set[i].validbit = 1
    BY <2>1 DEF Matching, Valid
  <2>4. [set[i] EXCEPT !.stamp = 0] = Used0(tag)
    BY <2>3, RecordFacts DEF Used0, Sound
  <2>5. Touch(set, i) = [set EXCEPT ![i] = Used0(tag)]
    BY <2>3, <2>4 DEF Touch
  <2>6. UsedAt(set, tag, i, u.set)
    BY <2>2, <2>3, <2>5 DEF UsedAt, Sound
  <2>7. Counted(set, tag, i, u.hit, u.miss, u.evict)
    BY <2>2, <2>3 DEF Counted
  <2> QED
    BY <2>6, <2>7
<1>2. CASE Matching(set, tag) = {} /\ IsFull(set)
  <2> DEFINE i == Oldest(set)
  <2>1. u = [set |-> Store(set, i, tag), hit |-> 0, miss |-> 1, evict |-> 1]
    BY <1>2 DEF updateCache, Replace
  <2>2. i \in Index /\ \A k \in Index : set[k].stamp <= set[i].stamp
    BY <1>2, OldestFacts
  <2> HIDE DEF i
  <2>3. UsedAt(set, tag, i, u.set)
    BY <1>2, <2>1, <2>2 DEF UsedAt, Store, Used0, Matching
  <2>4. Counted(set, tag, i, u.hit, u.miss, u.evict)
    BY <1>2, <2>1, <2>2 DEF Counted
  <2> QED
    BY <2>3, <2>4
<1>3. CASE Matching(set, tag) = {} /\ ~IsFull(set)
  <2> DEFINE i == Min(Index \ Valid(set))
  <2>1. i \in Index \ Valid(set)
    BY <1>3, IndexFinite DEF IsFull, Valid
  <2> HIDE DEF i
  <2>2. u = [set |-> Store(set, i, tag), hit |-> 0, miss |-> 1, evict |-> 0]
    BY <1>3 DEF updateCache, Place, i
  <2>3. UsedAt(set, tag, i, u.set)
    BY <1>3, <2>1, <2>2 DEF UsedAt, Store, Used0, Matching
  <2>4. Counted(set, tag, i, u.hit, u.miss, u.evict)
    BY <1>3, <2>1, <2>2 DEF Counted
  <2> QED
    BY <2>3, <2>4
<1> QED
  BY <1>1, <1>2, <1>3

\* A set is sound after a use as well.
LEMMA UseKeepsSound ==
  ASSUME NEW set, Sound(set), NEW tag \in Tags, NEW i, NEW new, UsedAt(set, tag, i, new)
  PROVE  /\ Sound(new)
         /\ Valid(new) = Valid(set) \cup {i}
<1>1. Used0(tag) \in Line
  BY CSimAssumption DEF Used0, Line
<1>2. new \in [Index -> Line] /\ new[i] = Used0(tag) /\ i \in Index
      /\ \A k \in Index : k # i => new[k] = set[k]
  BY <1>1 DEF UsedAt, Sound
<1>3. Valid(new) = Valid(set) \cup {i}
  BY <1>2 DEF Valid, Used0
<1>4. \A k \in Valid(new) : new[k].tag \in Tags /\ new[k].stamp \in Nat
  BY <1>2, <1>3 DEF Sound, Used0, Valid
<1>5. ASSUME NEW j \in Valid(new), NEW k \in Valid(new), j # k
      PROVE  new[j].tag # new[k].tag
  BY <1>2, <1>3, <1>5 DEF Sound, Used0, Valid, UsedAt
<1> QED
  BY <1>2, <1>3, <1>4, <1>5 DEF Sound

\* The store of an M hits the line its load has used, and leaves the set as it is.
LEMMA SecondUse ==
  ASSUME NEW set, Sound(set), NEW tag \in Tags, NEW i, NEW new, UsedAt(set, tag, i, new)
  PROVE  LET v == updateCache(new, tag)
         IN  v.set = new /\ v.hit = 1 /\ v.miss = 0 /\ v.evict = 0
<1> DEFINE v == updateCache(new, tag)
<1>1. Sound(new) /\ i \in Valid(new)
  BY UseKeepsSound
<1>2. new[i] = Used0(tag) /\ i \in Index
  BY DEF UsedAt, Sound
<1>3. PICK j : UsedAt(new, tag, j, v.set) /\ Counted(new, tag, j, v.hit, v.miss, v.evict)
  BY <1>1, UpdateFacts
<1>4. i = j
  <2>1. new[i].tag = tag
    BY <1>2 DEF Used0
  <2>2. \A k \in Valid(new) : new[k].tag = tag => k = j
    BY <1>3 DEF UsedAt
  <2> QED
    BY <1>1, <2>1, <2>2
<1>5. v.set = new
  BY <1>1, <1>2, <1>3, <1>4 DEF UsedAt, Sound
<1>6. i \in Matching(new, tag)
  BY <1>1, <1>2 DEF Matching, Used0
<1>7. v.hit = 1 /\ v.miss = 0 /\ v.evict = 0
  BY <1>3, <1>6 DEF Counted
<1> QED
  BY <1>5, <1>7

-----------------------------------------------------------------------------
(* The invariant.                                                          *)

\* Between two trace lines every valid line has been aged since it was used.
Ages == \A x \in Sets : \A i \in Valid(cache[x]) :
           cache[x][i].tag \in Tags /\ cache[x][i].stamp \in 1 .. lines

CSimInv == TypeOK /\ LinesDistinct /\ Ages

LEMMA TagsOfAddresses ==
  ASSUME NEW a \in Addresses
  PROVE  sIndex(a) \in Sets /\ tagOf(a) \in Tags
<1>1. a \div B \in Nat
  BY CSimAssumption
<1> QED
  BY <1>1, CSimAssumption DEF sIndex, Sets, Tags

\* Ageing changes nothing but the stamps of the valid lines.
LEMMA AgedFacts ==
  ASSUME NEW c \in [Sets -> [Index -> Line]]
  PROVE  /\ \A y \in Sets : Valid(Aged(c)[y]) = Valid(c[y])
         /\ \A y \in Sets : \A k \in Valid(c[y]) :
               /\ Aged(c)[y][k].tag = c[y][k].tag
               /\ Aged(c)[y][k].stamp = c[y][k].stamp + 1
         /\ (\A y \in Sets : \A k \in Valid(c[y]) : c[y][k].stamp + 1 \in -1 .. MaxLines)
               => Aged(c) \in [Sets -> [Index -> Line]]
<1>1. ASSUME NEW y \in Sets, NEW k \in Index
      PROVE  /\ c[y][k].validbit = 1 =>
                    Aged(c)[y][k] = [validbit |-> 1, tag |-> c[y][k].tag,
                                     stamp |-> c[y][k].stamp + 1]
             /\ c[y][k].validbit # 1 => Aged(c)[y][k] = c[y][k]
             /\ Aged(c)[y][k].validbit = c[y][k].validbit
  <2>1. c[y][k] \in Line
    BY <1>1
  <2>2. Aged(c)[y][k] = IF c[y][k].validbit = 1
                        THEN [c[y][k] EXCEPT !.stamp = c[y][k].stamp + 1] ELSE c[y][k]
    BY <1>1 DEF Aged
  <2>3. [c[y][k] EXCEPT !.stamp = c[y][k].stamp + 1] =
           [validbit |-> c[y][k].validbit, tag |-> c[y][k].tag,
            stamp |-> c[y][k].stamp + 1]
    BY <2>1, RecordFacts
  <2> QED
    BY <2>2, <2>3
<1>2. \A y \in Sets : Valid(Aged(c)[y]) = Valid(c[y])
  BY <1>1 DEF Valid
<1>3. ASSUME NEW y \in Sets, NEW k \in Valid(c[y])
      PROVE  Aged(c)[y][k].tag = c[y][k].tag /\ Aged(c)[y][k].stamp = c[y][k].stamp + 1
  <2>1. k \in Index /\ c[y][k].validbit = 1
    BY <1>3 DEF Valid
  <2>2. Aged(c)[y][k] = [validbit |-> 1, tag |-> c[y][k].tag,
                         stamp |-> c[y][k].stamp + 1]
    BY <1>1, <1>3, <2>1
  <2> QED
    BY <2>2
<1>4. ASSUME \A y \in Sets : \A k \in Valid(c[y]) : c[y][k].stamp + 1 \in -1 .. MaxLines
      PROVE  Aged(c) \in [Sets -> [Index -> Line]]
  <2>1. ASSUME NEW y \in Sets, NEW k \in Index
        PROVE  Aged(c)[y][k] \in Line
    <3>1. c[y][k] \in Line
      BY <2>1
    <3>2. CASE c[y][k].validbit = 1
      <4>1. k \in Valid(c[y])
        BY <2>1, <3>2 DEF Valid
      <4>2. c[y][k].stamp + 1 \in -1 .. MaxLines
        BY <1>4, <2>1, <4>1
      <4>3. Aged(c)[y][k] = [validbit |-> 1, tag |-> c[y][k].tag,
                             stamp |-> c[y][k].stamp + 1]
        BY <1>1, <2>1, <3>2
      <4> QED
        BY <3>1, <4>2, <4>3 DEF Line
    <3>3. CASE c[y][k].validbit # 1
      BY <1>1, <2>1, <3>1, <3>3
    <3> QED
      BY <3>2, <3>3
  <2>2. Aged(c) = [y \in Sets |-> [k \in Index |-> Aged(c)[y][k]]]
    BY DEF Aged
  <2> QED
    BY <2>1, <2>2
<1> QED
  BY <1>2, <1>3, <1>4

\* Whatever set has been used, ageing restores the invariant.
LEMMA RecordKeepsInv ==
  ASSUME CSimInv, lines < MaxLines, NEW x \in Sets, NEW tag \in Tags,
         NEW i, NEW new, UsedAt(cache[x], tag, i, new),
         NEW hit \in Nat, NEW miss \in Nat, NEW evict \in Nat,
         Record(x, new, hit, miss, evict)
  PROVE  CSimInv'
<1>1. Sound(cache[x])
  BY DEF CSimInv, TypeOK, LinesDistinct, Ages, Sound
<1>2. Sound(new) /\ Valid(new) = Valid(cache[x]) \cup {i}
  BY <1>1, UseKeepsSound
<1>3. /\ lines \in Nat /\ lines' = lines + 1 /\ lines' \in 0 .. MaxLines
      /\ cache \in [Sets -> [Index -> Line]]
  BY CSimAssumption DEF CSimInv, TypeOK, Record
<1>4. new[i] = Used0(tag) /\ i \in Index
      /\ \A k \in Index : k # i => new[k] = cache[x][k]
  BY <1>1 DEF UsedAt, Sound
<1> DEFINE c == [cache EXCEPT ![x] = new]
<1>5. c \in [Sets -> [Index -> Line]] /\ c[x] = new
      /\ \A y \in Sets : y # x => c[y] = cache[y]
  BY <1>2, <1>3 DEF Sound
<1>6. \A y \in Sets : \A k \in Valid(c[y]) :
         c[y][k].tag \in Tags /\ c[y][k].stamp \in 0 .. lines
  BY <1>2, <1>3, <1>4, <1>5 DEF CSimInv, Ages, Valid, Used0
<1>7. \A y \in Sets : \A j, k \in Valid(c[y]) : j # k =>
         c[y][j].tag # c[y][k].tag /\ c[y][j].stamp # c[y][k].stamp
  <2> SUFFICES ASSUME NEW y \in Sets, NEW j \in Valid(c[y]), NEW k \in Valid(c[y]), j # k
               PROVE  c[y][j].tag # c[y][k].tag /\ c[y][j].stamp # c[y][k].stamp
    OBVIOUS
  <2>1. CASE y # x
    BY <1>5, <2>1 DEF CSimInv, LinesDistinct
  <2>2. CASE y = x
    <3>1. c[y][j].tag # c[y][k].tag
      BY <1>2, <1>5, <2>2 DEF Sound
    <3>2. c[y][j].stamp # c[y][k].stamp
      BY <1>2, <1>4, <1>5, <2>2 DEF CSimInv, LinesDistinct, Ages, Used0, Valid
    <3> QED BY <3>1, <3>2
  <2> QED BY <2>1, <2>2
<1> HIDE DEF c
<1> DEFINE d == Aged(c)
<1>8. cache' = d
  BY DEF Record, c
<1>9. /\ \A y \in Sets : Valid(d[y]) = Valid(c[y])
      /\ \A y \in Sets : \A k \in Valid(c[y]) :
            d[y][k].tag = c[y][k].tag /\ d[y][k].stamp = c[y][k].stamp + 1
  BY <1>5, AgedFacts
<1>10. d \in [Sets -> [Index -> Line]]
  <2>1. \A y \in Sets : \A k \in Valid(c[y]) : c[y][k].stamp + 1 \in -1 .. MaxLines
    BY <1>3, <1>6, CSimAssumption
  <2> QED
    BY <1>5, <2>1, AgedFacts
<1> HIDE DEF d
<1>11. TypeOK'
  <2>1. /\ hitCounts' = hitCounts + hit /\ missCounts' = missCounts + miss
        /\ evictionCounts' = evictionCounts + evict
    BY DEF Record
  <2>2. hitCounts \in Nat /\ missCounts \in Nat /\ evictionCounts \in Nat
    BY DEF CSimInv, TypeOK
  <2>3. hitCounts' \in Nat /\ missCounts' \in Nat /\ evictionCounts' \in Nat
    BY <2>1, <2>2
  <2> QED
    BY <1>3, <1>8, <1>10, <2>3 DEF TypeOK
<1>12. ASSUME NEW y \in Sets, NEW j \in Valid(d[y]), NEW k \in Valid(d[y]), j # k
       PROVE  d[y][j].tag # d[y][k].tag /\ d[y][j].stamp # d[y][k].stamp
  <2>1. c[y][j].stamp \in Int /\ c[y][k].stamp \in Int
    BY <1>6, <1>9, <1>3, <1>12
  <2> QED
    BY <1>7, <1>9, <1>12, <2>1
<1>13. LinesDistinct'
  BY <1>8, <1>12 DEF LinesDistinct
<1>14. ASSUME NEW y \in Sets, NEW k \in Valid(d[y])
       PROVE  d[y][k].tag \in Tags /\ d[y][k].stamp \in 1 .. lines'
  BY <1>3, <1>6, <1>9, <1>14
<1>15. Ages'
  BY <1>8, <1>14 DEF Ages
<1> QED
  BY <1>11, <1>13, <1>15 DEF CSimInv

\* A trace line uses one tag of one set, n more times if it is an M.
UseStep(x, tag, i, new, hit, miss, evict, n) ==
    /\ lines < MaxLines /\ x \in Sets /\ tag \in Tags
    /\ UsedAt(cache[x], tag, i, new)
    /\ Counted(cache[x], tag, i, hit, miss, evict)
    /\ n \in {0, 1}
    /\ Record(x, new, hit + n, miss, evict)

LEMMA NextUses ==
  ASSUME CSimInv, Next
  PROVE  \E x, tag, i, new, hit, miss, evict, n :
            UseStep(x, tag, i, new, hit, miss, evict, n)
<1>1. \A x \in Sets : Sound(cache[x])
  BY DEF CSimInv, TypeOK, LinesDistinct, Ages, Sound
<1>2. PICK a \in Addresses : Once(a) \/ Twice(a)
  BY DEF Next
<1> DEFINE x == sIndex(a)
           tag == tagOf(a)
           u == updateCache(cache[x], tag)
           v == updateCache(u.set, tag)
<1>3. x \in Sets /\ tag \in Tags
  BY TagsOfAddresses
<1>4. PICK i : UsedAt(cache[x], tag, i, u.set)
               /\ Counted(cache[x], tag, i, u.hit, u.miss, u.evict)
  <2> HIDE DEF x, tag
  <2> QED BY <1>1, <1>3, UpdateFacts
<1>5. v.set = u.set /\ v.hit = 1 /\ v.miss = 0 /\ v.evict = 0
  <2> HIDE DEF x, tag, u
  <2> QED BY <1>1, <1>3, <1>4, SecondUse
<1>6. CASE Once(a)
  <2>1. lines < MaxLines /\ Record(x, u.set, u.hit, u.miss, u.evict)
    BY <1>6 DEF Once
  <2> HIDE DEF x, tag, u
  <2>2. u.hit + 0 = u.hit
    BY <1>4 DEF Counted
  <2>3. UseStep(x, tag, i, u.set, u.hit, u.miss, u.evict, 0)
    BY <1>3, <1>4, <2>1, <2>2 DEF UseStep
  <2> QED BY <2>3
<1>7. CASE Twice(a)
  <2>1. /\ lines < MaxLines
        /\ Record(x, v.set, u.hit + v.hit, u.miss + v.miss, u.evict + v.evict)
    BY <1>7 DEF Twice
  <2> HIDE DEF x, tag, u, v
  <2>2. u.miss + v.miss = u.miss /\ u.evict + v.evict = u.evict
    BY <1>4, <1>5 DEF Counted
  <2>3. UseStep(x, tag, i, u.set, u.hit, u.miss, u.evict, 1)
    BY <1>3, <1>4, <1>5, <2>1, <2>2 DEF UseStep
  <2> QED BY <2>3
<1> QED
  BY <1>2, <1>6, <1>7

LEMMA StepKeepsInv == CSimInv /\ [Next]_vars => CSimInv'
<1> SUFFICES ASSUME CSimInv, [Next]_vars PROVE CSimInv'
  OBVIOUS
<1>1. CASE Next
  <2>1. PICK x, tag, i, new, hit, miss, evict, n :
           UseStep(x, tag, i, new, hit, miss, evict, n)
    BY <1>1, NextUses
  <2>2. hit + n \in Nat /\ miss \in Nat /\ evict \in Nat
    BY <2>1 DEF UseStep, Counted
  <2> QED
    BY <2>1, <2>2, RecordKeepsInv DEF UseStep
<1>2. CASE UNCHANGED vars
  BY <1>2 DEF CSimInv, TypeOK, LinesDistinct, Ages, vars, counters
<1> QED
  BY <1>1, <1>2

LEMMA InitInv == Init => CSimInv
<1> SUFFICES ASSUME Init PROVE CSimInv
  OBVIOUS
<1>1. Empty \in Line /\ Empty.validbit = 0
  BY CSimAssumption DEF Empty, Line
<1>2. \A x \in Sets : Valid(cache[x]) = {}
  BY <1>1 DEF Init, Valid
<1>3. TypeOK
  BY <1>1, CSimAssumption DEF Init, TypeOK
<1> QED
  BY <1>2, <1>3 DEF CSimInv, LinesDistinct, Ages

\* The invariant above, for every cache and every trace (csim.c:206-240).
THEOREM CSimInvariant == Spec => []CSimInv
<1> QED
  BY InitInv, StepKeepsInv, PTL DEF Spec

\* The table of lines keeps its shape and no stamp exceeds the number of lines
\* of the trace (csim.c:182-191, 232-239).
THEOREM CSimTypeCorrect == Spec => []TypeOK
<1>1. CSimInv => TypeOK
  BY DEF CSimInv
<1> QED
  BY <1>1, CSimInvariant, PTL

\* A set holds no tag twice and no two of its lines are equally old, so the
\* line that csim.c:109-114 picks is the one used longest ago.
THEOREM DistinctLines == Spec => []LinesDistinct
<1>1. CSimInv => LinesDistinct
  BY DEF CSimInv
<1> QED
  BY <1>1, CSimInvariant, PTL

-----------------------------------------------------------------------------
(* The counters.                                                           *)

\* The valid lines after a step: those before, and the line used.
LEMMA RecordLines ==
  ASSUME CSimInv, NEW x, NEW tag, NEW i, NEW new, NEW hit, NEW miss, NEW evict, NEW n,
         UseStep(x, tag, i, new, hit, miss, evict, n)
  PROVE  /\ i \in Index
         /\ Valid(cache'[x]) = Valid(cache[x]) \cup {i}
         /\ cache'[x][i].tag = tag /\ cache'[x][i].stamp = 1
         /\ \A k \in Valid(cache[x]) : k # i =>
               /\ cache'[x][k].tag = cache[x][k].tag
               /\ cache'[x][k].stamp = cache[x][k].stamp + 1
         /\ \A y \in Sets : y # x =>
               /\ Valid(cache'[y]) = Valid(cache[y])
               /\ \A k \in Valid(cache[y]) :
                     /\ cache'[y][k].tag = cache[y][k].tag
                     /\ cache'[y][k].stamp = cache[y][k].stamp + 1
<1>1. /\ x \in Sets /\ tag \in Tags /\ UsedAt(cache[x], tag, i, new)
      /\ cache \in [Sets -> [Index -> Line]]
  BY DEF UseStep, CSimInv, TypeOK
<1>2. Sound(cache[x])
  BY <1>1 DEF CSimInv, TypeOK, LinesDistinct, Ages, Sound
<1>3. Sound(new) /\ Valid(new) = Valid(cache[x]) \cup {i}
  BY <1>1, <1>2, UseKeepsSound
<1>4. new[i] = Used0(tag) /\ i \in Index
      /\ \A k \in Index : k # i => new[k] = cache[x][k]
  BY <1>1, <1>2 DEF UsedAt, Sound
<1> DEFINE c == [cache EXCEPT ![x] = new]
<1>5. c \in [Sets -> [Index -> Line]] /\ c[x] = new
      /\ \A y \in Sets : y # x => c[y] = cache[y]
  BY <1>1, <1>3 DEF Sound
<1>6. cache' = Aged(c)
  BY DEF UseStep, Record
<1> HIDE DEF c
<1>7. /\ \A y \in Sets : Valid(cache'[y]) = Valid(c[y])
      /\ \A y \in Sets : \A k \in Valid(c[y]) :
            cache'[y][k].tag = c[y][k].tag /\ cache'[y][k].stamp = c[y][k].stamp + 1
  BY <1>5, <1>6, AgedFacts
<1>8. i \in Valid(new) /\ new[i].tag = tag /\ new[i].stamp + 1 = 1
  BY <1>3, <1>4 DEF Used0
<1>9. cache'[x][i].tag = tag /\ cache'[x][i].stamp = 1
  BY <1>1, <1>5, <1>7, <1>8
<1>10. ASSUME NEW k \in Valid(cache[x]), k # i
       PROVE  /\ cache'[x][k].tag = cache[x][k].tag
              /\ cache'[x][k].stamp = cache[x][k].stamp + 1
  <2>1. k \in Index /\ k \in Valid(new) /\ new[k] = cache[x][k]
    BY <1>3, <1>4, <1>10 DEF Valid
  <2> QED BY <1>1, <1>5, <1>7, <2>1
<1> QED
  BY <1>1, <1>3, <1>4, <1>5, <1>7, <1>9, <1>10

ValidLines(c) == {xi \in Sets \X Index : xi[2] \in Valid(c[xi[1]])}

LEMMA ValidLinesFinite == \A c : IsFiniteSet(ValidLines(c))
<1>1. IsFiniteSet(Sets) /\ IsFiniteSet(Index)
  BY FS_Interval, CSimAssumption DEF Sets, Index
<1>2. IsFiniteSet(Sets \X Index)
  BY <1>1, FS_Product
<1> QED
  BY <1>2, FS_Subset DEF ValidLines

LEMMA CountStep ==
  ASSUME CSimInv, CountsMatch, [Next]_vars
  PROVE  CountsMatch'
<1>1. CASE Next
  <2>1. PICK x, tag, i, new, hit, miss, evict, n :
           UseStep(x, tag, i, new, hit, miss, evict, n)
    BY <1>1, NextUses
  <2>2. x \in Sets /\ i \in Index
    BY <2>1, RecordLines DEF UseStep
  <2>3. ValidLines(cache') = ValidLines(cache) \cup {<<x, i>>}
    BY <2>1, <2>2, RecordLines DEF ValidLines
  <2>4. Cardinality(ValidLines(cache')) =
           IF i \in Valid(cache[x]) THEN Cardinality(ValidLines(cache))
           ELSE Cardinality(ValidLines(cache)) + 1
    <3>1. <<x, i>> \in ValidLines(cache) <=> i \in Valid(cache[x])
      BY <2>2 DEF ValidLines
    <3> QED BY <2>3, <3>1, ValidLinesFinite, FS_AddElement
  <2>5. Cardinality(ValidLines(cache)) \in Nat
    BY ValidLinesFinite, FS_CardinalityType
  <2>6. missCounts' = missCounts + miss /\ evictionCounts' = evictionCounts + evict
    BY <2>1 DEF UseStep, Record
  <2>7. missCounts - evictionCounts = Cardinality(ValidLines(cache))
        /\ missCounts \in Nat /\ evictionCounts \in Nat
    BY DEF CountsMatch, ValidLines, CSimInv, TypeOK
  <2>8. \/ i \in Valid(cache[x]) /\ miss = evict /\ miss \in {0, 1}
        \/ i \notin Valid(cache[x]) /\ miss = 1 /\ evict = 0
    BY <2>1, <2>2 DEF UseStep, Counted, IsFull
  <2>9. missCounts' - evictionCounts' = Cardinality(ValidLines(cache'))
    BY <2>4, <2>5, <2>6, <2>7, <2>8
  <2> QED BY <2>9 DEF CountsMatch, ValidLines
<1>2. CASE UNCHANGED vars
  BY <1>2 DEF CountsMatch, vars, counters
<1> QED
  BY <1>1, <1>2

\* The counters csim prints fit the contents of the cache: of all misses, those
\* that were no evictions have each filled one line.
THEOREM CountersMatch == Spec => []CountsMatch
<1>1. Init => CountsMatch
  <2> SUFFICES ASSUME Init PROVE CountsMatch
    OBVIOUS
  <2>1. Empty.validbit = 0
    BY DEF Empty
  <2>2. ValidLines(cache) = {}
    BY <2>1 DEF Init, ValidLines, Valid
  <2>3. missCounts - evictionCounts = Cardinality(ValidLines(cache))
    BY <2>2, FS_EmptySet DEF Init
  <2> QED
    BY <2>3 DEF CountsMatch, ValidLines
<1>2. CSimInv /\ CountsMatch /\ [Next]_vars => CountsMatch'
  BY CountStep
<1> QED
  BY <1>1, <1>2, CSimInvariant, PTL DEF Spec

-----------------------------------------------------------------------------
(* The cache as LRUCache sees it.                                          *)

TagsIn(set) == {set[i].tag : i \in Valid(set)}

\* When the tags of a set were last used, if n lines have been read.
UsedIn(set, n) == [t \in TagsIn(set) |-> n - set[LineOf(set, t)].stamp]

LEMMA UsedSets ==
  /\ Used = [x \in Sets |-> UsedIn(cache[x], lines)]
  /\ Used' = [x \in Sets |-> UsedIn(cache'[x], lines')]
BY DEF Used, UsedIn, TagsIn

\* Every tag stands in one line, and was used when that line was.
LEMMA UsedInFacts ==
  ASSUME NEW set, Sound(set), NEW n
  PROVE  /\ DOMAIN UsedIn(set, n) = TagsIn(set)
         /\ \A i \in Valid(set) : UsedIn(set, n)[set[i].tag] = n - set[i].stamp
<1> SUFFICES ASSUME NEW i \in Valid(set)
             PROVE  UsedIn(set, n)[set[i].tag] = n - set[i].stamp
  BY DEF UsedIn
<1>1. \A k \in Valid(set) : set[k].tag = set[i].tag => k = i
  BY DEF Sound
<1>2. LineOf(set, set[i].tag) = i
  BY <1>1 DEF LineOf
<1>3. set[i].tag \in TagsIn(set)
  BY DEF TagsIn
<1> QED
  BY <1>2, <1>3 DEF UsedIn

\* A set holds as many tags as it has valid lines.
LEMMA TagCount ==
  ASSUME NEW set, Sound(set)
  PROVE  /\ IsFull(set) => Cardinality(TagsIn(set)) = E
         /\ ~IsFull(set) => Cardinality(TagsIn(set)) < E
<1>1. IsFiniteSet(Index) /\ Cardinality(Index) = E
  BY FS_Interval, CSimAssumption DEF Index
<1>2. Valid(set) \subseteq Index
  BY DEF Valid
<1>3. IsFiniteSet(Valid(set))
  BY <1>1, <1>2, FS_Subset
<1> DEFINE tag == [i \in Valid(set) |-> set[i].tag]
<1>4. tag \in Bijection(Valid(set), TagsIn(set))
  <2>1. tag \in [Valid(set) -> TagsIn(set)]
    BY DEF TagsIn
  <2>2. \A t \in TagsIn(set) : \E i \in Valid(set) : tag[i] = t
    BY DEF TagsIn
  <2>3. \A i, k \in Valid(set) : tag[i] = tag[k] => i = k
    BY DEF Sound
  <2> HIDE DEF tag
  <2> QED
    BY <2>1, <2>2, <2>3, Zenon DEF Bijection, Injection, Surjection, IsInjective
<1>5. Cardinality(TagsIn(set)) = Cardinality(Valid(set))
  BY <1>3, <1>4, FS_Bijection DEF ExistsBijection
<1>6. CASE IsFull(set)
  BY <1>1, <1>5, <1>6 DEF IsFull
<1>7. CASE ~IsFull(set)
  BY <1>1, <1>2, <1>5, <1>7, FS_Subset, FS_CardinalityType, CSimAssumption DEF IsFull
<1> QED
  BY <1>6, <1>7

\* What a step does to the times of its own set and of the others.
LEMMA StepTimes ==
  ASSUME CSimInv, CSimInv', NEW x, NEW tag, NEW i, NEW new, NEW hit, NEW miss,
         NEW evict, NEW n, UseStep(x, tag, i, new, hit, miss, evict, n)
  PROVE  /\ UsedIn(cache'[x], lines') =
              [t \in {cache[x][k].tag : k \in Valid(cache[x]) \ {i}} \cup {tag} |->
                  IF t = tag THEN lines ELSE UsedIn(cache[x], lines)[t]]
         /\ \A y \in Sets : y # x => UsedIn(cache'[y], lines') = UsedIn(cache[y], lines)
<1>1. \A y \in Sets : Sound(cache[y]) /\ Sound(cache'[y])
  BY DEF CSimInv, TypeOK, LinesDistinct, Ages, Sound
<1>2. x \in Sets /\ lines' = lines + 1 /\ lines \in Nat
  BY DEF UseStep, Record, CSimInv, TypeOK
<1>3. \A y \in Sets : \A k \in Valid(cache[y]) : cache[y][k].stamp \in Nat
  BY <1>1 DEF Sound
<1> DEFINE Kept == Valid(cache[x]) \ {i}
           Old == {cache[x][k].tag : k \in Kept}
<1>4. /\ Valid(cache'[x]) = Valid(cache[x]) \cup {i}
      /\ cache'[x][i].tag = tag /\ cache'[x][i].stamp = 1
      /\ \A k \in Kept : /\ cache'[x][k].tag = cache[x][k].tag
                         /\ cache'[x][k].stamp = cache[x][k].stamp + 1
  BY RecordLines
<1>5. TagsIn(cache'[x]) = Old \cup {tag}
  <2>1. Valid(cache'[x]) = Kept \cup {i}
    BY <1>4
  <2>2. \A t : t \in TagsIn(cache'[x]) <=> \E k \in Kept \cup {i} : t = cache'[x][k].tag
    BY <2>1 DEF TagsIn
  <2> QED BY <1>4, <2>2
<1>6. UsedIn(cache'[x], lines')[tag] = lines
  <2>1. i \in Valid(cache'[x])
    BY <1>4
  <2>2. UsedIn(cache'[x], lines')[cache'[x][i].tag] = lines' - cache'[x][i].stamp
    BY <1>1, <1>2, <2>1, UsedInFacts
  <2> QED BY <1>2, <1>4, <2>2
<1>7. ASSUME NEW t \in Old
      PROVE  UsedIn(cache'[x], lines')[t] = UsedIn(cache[x], lines)[t]
  <2>1. PICK k \in Kept : t = cache[x][k].tag
    BY <1>7
  <2>2. k \in Valid(cache[x]) /\ k \in Valid(cache'[x])
    BY <1>4
  <2>3. UsedIn(cache[x], lines)[t] = lines - cache[x][k].stamp
    BY <1>1, <1>2, <2>1, <2>2, UsedInFacts
  <2>4. UsedIn(cache'[x], lines')[t] = lines' - cache'[x][k].stamp
    BY <1>1, <1>2, <1>4, <2>1, <2>2, UsedInFacts
  <2>5. cache'[x][k].stamp = cache[x][k].stamp + 1 /\ cache[x][k].stamp \in Nat
    BY <1>2, <1>3, <1>4, <2>2
  <2> QED BY <1>2, <2>3, <2>4, <2>5
<1>8. UsedIn(cache'[x], lines') =
         [t \in Old \cup {tag} |-> IF t = tag THEN lines ELSE UsedIn(cache[x], lines)[t]]
  <2>1. UsedIn(cache'[x], lines') =
           [t \in TagsIn(cache'[x]) |-> UsedIn(cache'[x], lines')[t]]
    BY DEF UsedIn
  <2>2. \A t \in Old \cup {tag} : UsedIn(cache'[x], lines')[t] =
           IF t = tag THEN lines ELSE UsedIn(cache[x], lines)[t]
    BY <1>6, <1>7
  <2> HIDE DEF Old
  <2> QED BY <1>5, <2>1, <2>2
<1>9. ASSUME NEW y \in Sets, y # x
      PROVE  UsedIn(cache'[y], lines') = UsedIn(cache[y], lines)
  <2>1. /\ Valid(cache'[y]) = Valid(cache[y])
        /\ \A k \in Valid(cache[y]) :
              /\ cache'[y][k].tag = cache[y][k].tag
              /\ cache'[y][k].stamp = cache[y][k].stamp + 1
    BY <1>9, RecordLines
  <2>2. TagsIn(cache'[y]) = TagsIn(cache[y])
    BY <2>1 DEF TagsIn
  <2>3. ASSUME NEW t \in TagsIn(cache[y])
        PROVE  UsedIn(cache'[y], lines')[t] = UsedIn(cache[y], lines)[t]
    <3>1. PICK k \in Valid(cache[y]) : t = cache[y][k].tag
      BY <2>3 DEF TagsIn
    <3>2. UsedIn(cache[y], lines)[t] = lines - cache[y][k].stamp
      BY <1>1, <3>1, UsedInFacts
    <3>3. UsedIn(cache'[y], lines')[t] = lines' - cache'[y][k].stamp
      BY <1>1, <2>1, <3>1, UsedInFacts
    <3>4. cache'[y][k].stamp = cache[y][k].stamp + 1 /\ cache[y][k].stamp \in Nat
      BY <1>3, <2>1, <3>1
    <3> QED BY <1>2, <3>2, <3>3, <3>4
  <2>4. /\ UsedIn(cache'[y], lines') =
              [t \in TagsIn(cache'[y]) |-> UsedIn(cache'[y], lines')[t]]
        /\ UsedIn(cache[y], lines) = [t \in TagsIn(cache[y]) |-> UsedIn(cache[y], lines)[t]]
    BY DEF UsedIn
  <2> QED BY <2>2, <2>3, <2>4
<1> QED
  BY <1>8, <1>9

\* LRUCache counts with the same Cardinality.
LEMMA SameCardinality == \A T : LRU!Cardinality(T) = Cardinality(T)
BY DEF LRU!Cardinality, Cardinality

\* A trace line is a hit, a miss or an eviction of the abstract cache.
LEMMA UseIsLRU ==
  ASSUME CSimInv, CSimInv', NEW x, NEW tag, NEW i, NEW new, NEW hit, NEW miss,
         NEW evict, NEW n, UseStep(x, tag, i, new, hit, miss, evict, n)
  PROVE  LRU!CacheNext
<1> DEFINE u == UsedIn(cache[x], lines)
           w == UsedIn(cache'[x], lines')
           Old == {cache[x][k].tag : k \in Valid(cache[x]) \ {i}}
<1>1. /\ x \in Sets /\ tag \in Tags /\ n \in {0, 1} /\ lines' = lines + 1
      /\ hitCounts' = hitCounts + (hit + n) /\ missCounts' = missCounts + miss
      /\ evictionCounts' = evictionCounts + evict
      /\ Counted(cache[x], tag, i, hit, miss, evict)
  BY DEF UseStep, Record
<1>2. Sound(cache[x])
  BY <1>1 DEF CSimInv, TypeOK, LinesDistinct, Ages, Sound
<1>3. hitCounts \in Nat /\ missCounts \in Nat /\ evictionCounts \in Nat /\ lines \in Nat
  BY DEF CSimInv, TypeOK
<1>4. Used[x] = u /\ DOMAIN u = TagsIn(cache[x])
  BY <1>1, <1>2, UsedSets, UsedInFacts
<1>5. w = [t \in Old \cup {tag} |-> IF t = tag THEN lines ELSE u[t]]
  BY StepTimes
<1>6. Used' = [Used EXCEPT ![x] = w]
  <2>1. \A y \in Sets : y # x => UsedIn(cache'[y], lines') = UsedIn(cache[y], lines)
    BY StepTimes
  <2> QED BY <1>1, <2>1, UsedSets
<1>7. Matching(cache[x], tag) = {} => tag \notin TagsIn(cache[x])
  BY DEF Matching, TagsIn
<1> HIDE DEF u, w
<1>8. CASE hit = 1
  <2>1. /\ i \in Valid(cache[x]) /\ cache[x][i].tag = tag
        /\ miss = 0 /\ evict = 0
    BY <1>1, <1>8 DEF Counted
  <2>2. tag \in TagsIn(cache[x]) /\ TagsIn(cache[x]) \cup {tag} = Old \cup {tag}
    BY <2>1 DEF TagsIn
  <2>3. w = LRU!Use(u, tag)
    BY <1>4, <1>5, <2>2 DEF LRU!Use
  <2>4. hitCounts' = hitCounts + 1 + n /\ missCounts' = missCounts
        /\ evictionCounts' = evictionCounts
    BY <1>1, <1>3, <1>8, <2>1
  <2>5. LRU!Hit(x, tag, n)
    BY <1>4, <1>6, <2>2, <2>3, <2>4 DEF LRU!Hit
  <2> QED BY <1>1, <2>5 DEF LRU!CacheNext
<1>9. CASE evict = 1
  <2>1. /\ IsFull(cache[x]) /\ Matching(cache[x], tag) = {}
        /\ \A k \in Index : cache[x][k].stamp <= cache[x][i].stamp
        /\ hit = 0 /\ miss = 1
    BY <1>1, <1>9 DEF Counted
  <2> DEFINE old == cache[x][i].tag
  <2>2. i \in Valid(cache[x]) /\ i \in Index
    BY <2>1, RecordLines DEF IsFull
  <2>3. old \in TagsIn(cache[x]) /\ Old = TagsIn(cache[x]) \ {old}
    BY <1>2, <2>2 DEF TagsIn, Sound
  <2>4. u[old] = lines - cache[x][i].stamp
    BY <1>2, <2>2, UsedInFacts DEF u
  <2>5. ASSUME NEW t \in TagsIn(cache[x])
        PROVE  u[old] <= u[t]
    <3>1. PICK k \in Valid(cache[x]) : t = cache[x][k].tag
      BY <2>5 DEF TagsIn
    <3>2. u[t] = lines - cache[x][k].stamp
      BY <1>2, <3>1, UsedInFacts DEF u
    <3>3. /\ cache[x][k].stamp \in Nat /\ cache[x][i].stamp \in Nat
          /\ cache[x][k].stamp <= cache[x][i].stamp
      BY <1>2, <2>1, <2>2, <3>1 DEF Sound, Valid
    <3> QED BY <1>3, <2>4, <3>2, <3>3
  <2> HIDE DEF old, Old
  <2>6. DOMAIN LRU!Without(u, old) = Old /\ \A t \in Old : LRU!Without(u, old)[t] = u[t]
    BY <1>4, <2>3 DEF LRU!Without
  <2>7. w = LRU!Use(LRU!Without(u, old), tag)
    BY <1>5, <2>6 DEF LRU!Use
  <2>8. tag \notin DOMAIN Used[x] /\ LRU!Cardinality(DOMAIN Used[x]) = E
    BY SameCardinality, <1>2, <1>4, <1>7, <2>1, TagCount
  <2>9. hitCounts' = hitCounts + n /\ missCounts' = missCounts + 1
        /\ evictionCounts' = evictionCounts + 1
    BY <1>1, <1>3, <1>9, <2>1
  <2>10. LRU!Evict(x, tag, n)
    BY <1>4, <1>6, <2>3, <2>5, <2>7, <2>8, <2>9 DEF LRU!Evict
  <2> QED BY <1>1, <2>10 DEF LRU!CacheNext
<1>10. CASE hit # 1 /\ evict # 1
  <2>1. /\ i \notin Valid(cache[x]) /\ Matching(cache[x], tag) = {}
        /\ hit = 0 /\ miss = 1 /\ evict = 0
    BY <1>1, <1>10 DEF Counted
  <2>2. i \in Index
    BY RecordLines
  <2>3. ~IsFull(cache[x]) /\ Old = TagsIn(cache[x])
    BY <2>1, <2>2 DEF IsFull, TagsIn
  <2>4. w = LRU!Use(u, tag)
    BY <1>4, <1>5, <2>3 DEF LRU!Use
  <2>5. tag \notin DOMAIN Used[x] /\ LRU!Cardinality(DOMAIN Used[x]) < E
    BY SameCardinality, <1>2, <1>4, <1>7, <2>1, <2>3, TagCount
  <2>6. hitCounts' = hitCounts + n /\ missCounts' = missCounts + 1
        /\ evictionCounts' = evictionCounts
    BY <1>1, <1>3, <2>1
  <2>7. LRU!Miss(x, tag, n)
    BY <1>4, <1>6, <2>4, <2>5, <2>6 DEF LRU!Miss
  <2> QED BY <1>1, <2>7 DEF LRU!CacheNext
<1> QED
  BY <1>8, <1>9, <1>10

\* csim is a cache with least-recently-used replacement, for every geometry and
\* every trace: its stamps, which grow with the lines of the trace, order the
\* tags of a set by their last use (csim.c:62-122, 232-239).
THEOREM SimulatesLRU == Spec => ImplementsLRU
<1>1. Init => LRU!CacheInit
  <2> SUFFICES ASSUME Init PROVE LRU!CacheInit
    OBVIOUS
  <2>1. \A x \in Sets : Valid(cache[x]) = {}
    BY DEF Init, Empty, Valid
  <2>2. \A x \in Sets : UsedIn(cache[x], lines) = [t \in {} |-> 0]
    BY <2>1 DEF UsedIn, TagsIn
  <2>3. Used = [x \in Sets |-> [t \in {} |-> 0]]
    BY <2>2, UsedSets
  <2> QED
    BY <2>3 DEF Init, LRU!CacheInit
<1>2. CSimInv /\ CSimInv' /\ [Next]_vars => [LRU!CacheNext]_(LRU!cacheVars)
  <2> SUFFICES ASSUME CSimInv, CSimInv', [Next]_vars
               PROVE  [LRU!CacheNext]_(LRU!cacheVars)
    OBVIOUS
  <2>1. CASE Next
    <3>1. PICK x, tag, i, new, hit, miss, evict, n :
             UseStep(x, tag, i, new, hit, miss, evict, n)
      BY <2>1, NextUses
    <3> QED BY <3>1, UseIsLRU
  <2>2. CASE UNCHANGED vars
    BY <2>2 DEF vars, counters, LRU!cacheVars, Used
  <2> QED BY <2>1, <2>2
<1> QED
  BY <1>1, <1>2, CSimInvariant, PTL DEF Spec, ImplementsLRU, LRU!CacheSpec

=============================================================================
