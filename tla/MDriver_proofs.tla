---------------------------- MODULE MDriver_proofs ----------------------------
(***************************************************************************)
(* Proofs about the allocator and its client, for every size of the        *)
(* memory and every set of indices: the tags tile the heap, no two         *)
(* neighbours are free, every allocated block has one owner, and           *)
(* mm_malloc fails only if no block is large enough.                       *)
(*                                                                         *)
(* The heap is described by the set B of its blocks (Heap, Tiled); the     *)
(* walks that the code makes along the tags are shown to visit B, so that  *)
(* nothing below needs a recursion or an induction over data.              *)
(***************************************************************************)
EXTENDS MDriver, SetFacts

-----------------------------------------------------------------------------
(* Words and tags.                                                         *)

LEMMA PackFacts ==
  ASSUME NEW size \in Nat, size % 8 = 0, NEW alloc \in {0, 1}
  PROVE  /\ PACK(size, alloc) \in Nat
         /\ SizeOf(PACK(size, alloc)) = size
         /\ AllocOf(PACK(size, alloc)) = alloc
BY Z3T(20) DEF PACK, SizeOf, AllocOf

LEMMA TagFacts ==
  ASSUME NEW w \in Nat
  PROVE  /\ SizeOf(w) \in Nat /\ SizeOf(w) % 8 = 0 /\ SizeOf(w) <= w
         /\ AllocOf(w) \in {0, 1}
BY Z3T(20) DEF SizeOf, AllocOf

LEMMA AlignedWords ==
  ASSUME NEW a \in Int, a % 8 = 0, 8 <= a, a <= MAX_HEAP
  PROVE  a - 4 \in Words /\ a - 8 \in Words
BY HeapAssumption, Z3T(20) DEF Words, WSIZE, ALIGNMENT

LEMMA SumAligned ==
  ASSUME NEW a \in Int, NEW b \in Int, a % 8 = 0, b % 8 = 0
  PROVE  (a + b) % 8 = 0 /\ (a - b) % 8 = 0
BY Z3T(20)

LEMMA MemoryFacts ==
  /\ MAX_HEAP \in Nat /\ MAX_HEAP % 8 = 0
  /\ CHUNKSIZE \in Nat /\ CHUNKSIZE % 8 = 0 /\ CHUNKSIZE >= 16
  /\ 16 + CHUNKSIZE <= MAX_HEAP
BY HeapAssumption DEF ALIGNMENT

-----------------------------------------------------------------------------
(* Heaps and their blocks.                                                 *)

\* The memory m holds a heap that ends at top, and B is the set of its blocks.
Heap(m, top, B) ==
    /\ DOMAIN m = Words
    /\ top \in Addresses
    /\ Tiled(m, top, B)
    /\ \A bp \in B : m[HDRP(bp)] \in Nat

\* The blocks that can be allocated or free.
Inner(top, B) == B \ {heap_listp, top}

LEMMA BlockFacts ==
  ASSUME NEW m, NEW top, NEW B, Heap(m, top, B), NEW bp \in B
  PROVE  /\ bp \in Int /\ bp % 8 = 0 /\ 8 <= bp /\ bp <= top
         /\ HDRP(bp) = bp - 4 /\ bp - 4 \in Words
         /\ m[bp - 4] \in Nat /\ AllocOf(m[bp - 4]) \in {0, 1}
         /\ Size(m, bp) \in Int /\ Size(m, bp) % 8 = 0 /\ Size(m, bp) >= 0
         /\ NEXT_BLKP(m, bp) = bp + Size(m, bp)
         /\ FTRP(m, bp) = bp + Size(m, bp) - 8
         /\ bp # top =>
               /\ Size(m, bp) >= 8 /\ m[bp + Size(m, bp) - 8] = m[bp - 4]
               /\ bp # heap_listp => Size(m, bp) >= 16
               /\ bp + Size(m, bp) \in B /\ bp + Size(m, bp) <= top
               /\ bp + Size(m, bp) - 8 \in Words
         /\ \A c \in B : c > bp => c >= bp + Size(m, bp)
<1>1. /\ top \in Int /\ top <= MAX_HEAP /\ bp \in Int /\ 8 <= bp /\ bp <= top /\ bp % 8 = 0
      /\ HDRP(bp) = bp - 4 /\ m[bp - 4] \in Nat /\ bp <= MAX_HEAP
  BY MemoryFacts DEF Heap, Tiled, Addresses, heap_listp, HDRP, WSIZE, ALIGNMENT
<1>2. bp - 4 \in Words
  BY <1>1, AlignedWords
<1>3. AllocOf(m[bp - 4]) \in {0, 1} /\ SizeOf(m[bp - 4]) \in Nat /\ SizeOf(m[bp - 4]) % 8 = 0
  BY <1>1, TagFacts
<1>4. /\ Size(m, bp) = SizeOf(m[bp - 4]) /\ NEXT_BLKP(m, bp) = bp + Size(m, bp)
      /\ FTRP(m, bp) = bp + Size(m, bp) - 8
  BY <1>1 DEF Size, NEXT_BLKP, FTRP, ALIGNMENT
<1>5. ASSUME bp # top
      PROVE  /\ Size(m, bp) >= 8 /\ m[bp + Size(m, bp) - 8] = m[bp - 4]
             /\ bp # heap_listp => Size(m, bp) >= 16
             /\ bp + Size(m, bp) \in B /\ bp + Size(m, bp) <= top
             /\ bp + Size(m, bp) - 8 \in Words
             /\ \A c \in B : c > bp => c >= bp + Size(m, bp)
  <2>1. /\ Size(m, bp) > 0 /\ m[bp + Size(m, bp) - 8] = m[bp - 4]
        /\ bp # heap_listp => Size(m, bp) >= 16
        /\ bp + Size(m, bp) \in B
        /\ \A c \in B : c > bp => c >= bp + Size(m, bp)
    BY <1>1, <1>4, <1>5 DEF Heap, Tiled, ALIGNMENT
  <2>2. Size(m, bp) >= 8
    BY <1>3, <1>4, <2>1, Z3T(20)
  <2>3. bp + Size(m, bp) \in Int /\ bp + Size(m, bp) <= top /\ (bp + Size(m, bp)) % 8 = 0
    BY <1>1, <1>3, <1>4, <2>1, SumAligned DEF Heap, Tiled
  <2>4. bp + Size(m, bp) - 8 \in Words
    <3>1. /\ bp + Size(m, bp) \in Int /\ (bp + Size(m, bp)) % 8 = 0
          /\ 8 <= bp + Size(m, bp) /\ bp + Size(m, bp) <= MAX_HEAP
      BY <1>1, <1>3, <1>4, <2>2, <2>3, MemoryFacts
    <3>2. \A n \in Int : n % 8 = 0 /\ 8 <= n /\ n <= MAX_HEAP => n - 8 \in Words
      BY AlignedWords
    <3>3. (bp + Size(m, bp)) - 8 \in Words
      BY <3>1, <3>2, Zenon
    <3>4. bp + Size(m, bp) - 8 = (bp + Size(m, bp)) - 8
      BY <1>1, <1>3, <1>4
    <3> QED BY <3>3, <3>4
  <2> QED BY <2>1, <2>2, <2>3, <2>4
<1>6. bp = top => \A c \in B : ~(c > bp)
  BY <1>1 DEF Heap, Tiled
<1> QED
  BY <1>1, <1>2, <1>3, <1>4, <1>5, <1>6

\* The prologue and the epilogue are allocated, and the heap lies between.
LEMMA EndFacts ==
  ASSUME NEW m, NEW top, NEW B, Heap(m, top, B)
  PROVE  /\ top \in Int /\ top % 8 = 0 /\ 16 <= top /\ top <= MAX_HEAP
         /\ heap_listp = 8 /\ heap_listp \in B /\ top \in B
         /\ m[heap_listp - 4] = PACK(8, 1) /\ m[top - 4] = PACK(0, 1)
         /\ Size(m, heap_listp) = 8 /\ Size(m, top) = 0
         /\ Allocated(m, heap_listp) /\ Allocated(m, top)
         /\ \A bp \in B : Size(m, bp) = 0 <=> bp = top
<1>1. /\ top \in Int /\ top % 8 = 0 /\ top <= MAX_HEAP
      /\ heap_listp = 8 /\ heap_listp \in B /\ top \in B
      /\ m[heap_listp - 4] = PACK(8, 1) /\ m[top - 4] = PACK(0, 1)
  BY MemoryFacts DEF Heap, Tiled, Addresses, heap_listp, HDRP, WSIZE, ALIGNMENT
<1>2. /\ SizeOf(PACK(8, 1)) = 8 /\ AllocOf(PACK(8, 1)) = 1
      /\ SizeOf(PACK(0, 1)) = 0 /\ AllocOf(PACK(0, 1)) = 1
  BY PackFacts
<1>3. /\ Size(m, heap_listp) = 8 /\ Size(m, top) = 0
      /\ Allocated(m, heap_listp) /\ Allocated(m, top)
  BY <1>1, <1>2 DEF Size, Allocated, HDRP, WSIZE
<1>4. heap_listp # top
  BY <1>3
<1>5. heap_listp + Size(m, heap_listp) <= top
  BY <1>1, <1>4, BlockFacts
<1>6. 16 <= top
  BY <1>1, <1>3, <1>5
<1>7. \A bp \in B : Size(m, bp) = 0 <=> bp = top
  <2> TAKE bp \in B
  <2>1. bp # top => Size(m, bp) \in Int /\ Size(m, bp) >= 8
    BY BlockFacts
  <2> QED BY <1>3, <2>1
<1> QED
  BY <1>1, <1>3, <1>6, <1>7

\* Every block but the first has one before it.
LEMMA Predecessor ==
  ASSUME NEW m, NEW top, NEW B, Heap(m, top, B), NEW bp \in B, bp # heap_listp
  PROVE  \E p \in B : p < bp /\ p + Size(m, p) = bp
<1> DEFINE Before == {c \in B : c < bp}
<1>1. /\ bp \in Int /\ heap_listp = 8 /\ heap_listp \in Before
      /\ \A c \in B : c \in Int /\ 8 <= c
  <2>1. heap_listp = 8 /\ heap_listp \in B
    BY EndFacts
  <2>2. \A c \in B : c \in Int /\ 8 <= c
    BY BlockFacts
  <2> QED BY <2>1, <2>2
<1>2. IsFiniteSet(Before) /\ Before \subseteq Nat
  <2>1. Before \subseteq 0 .. bp
    <3>1. \A c \in Before : c \in Int /\ 0 <= c /\ c <= bp
      BY <1>1
    <3> HIDE DEF Before
    <3> QED BY <1>1, <3>1
  <2>2. IsFiniteSet(0 .. bp)
    BY <1>1, FS_Interval
  <2> QED BY <1>1, <2>1, <2>2, FS_Subset
<1> DEFINE p == Max(Before)
<1>3. p \in Before /\ \A c \in Before : c <= p
  <2> HIDE DEF Before
  <2> QED BY <1>1, <1>2, MaxFacts
<1> HIDE DEF p
<1>4. p \in B /\ p < bp /\ p # top
  BY <1>1, <1>3, BlockFacts
<1>5. /\ p + Size(m, p) \in B /\ p + Size(m, p) <= bp /\ Size(m, p) >= 8
      /\ p \in Int /\ Size(m, p) \in Int
  BY <1>1, <1>4, BlockFacts
<1>6. p + Size(m, p) = bp
  BY <1>1, <1>3, <1>5
<1> QED
  BY <1>4, <1>6

-----------------------------------------------------------------------------
(* The walk of Blocks.                                                     *)

K == MAX_HEAP \div ALIGNMENT
NextIn(m, bp) == IF HDRP(bp) \in Words THEN NEXT_BLKP(m, bp) ELSE bp

IsWalk(m, walk, last) ==
  walk = [n \in 0 .. last |-> IF n = 0 THEN heap_listp ELSE NextIn(m, walk[n - 1])]

LEMMA KNat == K \in Nat
BY HeapAssumption, Z3T(20) DEF K, ALIGNMENT

LEMMA WalkExists ==
  ASSUME NEW m, NEW k \in Nat
  PROVE  \E walk : IsWalk(m, walk, k)
<1> DEFINE S == {n \in 0 .. k : \E walk : IsWalk(m, walk, n)}
<1>1. 0 \in S
  <2>1. IsWalk(m, [n \in 0 .. 0 |-> heap_listp], 0)
    BY DEF IsWalk
  <2> QED BY <2>1
<1>2. ASSUME NEW n \in 0 .. k - 1, n \in S
      PROVE  n + 1 \in S
  <2>1. PICK w : IsWalk(m, w, n)
    BY <1>2
  <2> DEFINE v == [i \in 0 .. n + 1 |-> IF i = n + 1 THEN NextIn(m, w[n]) ELSE w[i]]
  <2>2. \A i \in 0 .. n : w[i] = IF i = 0 THEN heap_listp ELSE NextIn(m, w[i - 1])
    BY <2>1 DEF IsWalk
  <2>3. \A i \in 0 .. n + 1 : v[i] = IF i = 0 THEN heap_listp ELSE NextIn(m, v[i - 1])
    BY <1>2, <2>2
  <2>4. v = [i \in 0 .. n + 1 |-> v[i]]
    OBVIOUS
  <2> HIDE DEF v
  <2>5. IsWalk(m, v, n + 1)
    BY <2>3, <2>4 DEF IsWalk
  <2> QED BY <1>2, <2>5
<1> HIDE DEF S
<1>3. k \in S
  BY <1>1, <1>2, UpTo
<1> QED
  BY <1>3 DEF S

LEMMA BlocksWalk ==
  ASSUME NEW m
  PROVE \E walk : IsWalk(m, walk, K) /\ Blocks(m) = {walk[n] : n \in 0 .. K}
<1> DEFINE w == CHOOSE walk : IsWalk(m, walk, K)
<1>1. IsWalk(m, w, K)
  BY WalkExists, KNat
<1>2. Blocks(m) = {w[n] : n \in 0 .. K}
  BY DEF Blocks, IsWalk, NextIn, K
<1> QED BY <1>1, <1>2

\* Between two blocks bp and e the heap may be tiled anew, with the blocks N.
LEMMA Retile ==
  ASSUME NEW m, NEW top, NEW B, Heap(m, top, B),
         NEW bp \in B, NEW e \in B, heap_listp < bp, bp < e,
         NEW w, DOMAIN w = Words,
         \A a \in Words : a < bp - 4 \/ a >= e - 4 => w[a] = m[a],
         NEW N, bp \in N,
         \A n \in N : /\ n \in Int /\ n % 8 = 0 /\ bp <= n /\ n < e
                      /\ w[n - 4] \in Nat /\ Size(w, n) >= 16
                      /\ w[n + Size(w, n) - 8] = w[n - 4]
                      /\ n + Size(w, n) \in N \cup {e}
                      /\ \A c \in N : c > n => c >= n + Size(w, n)
  PROVE  LET C == {c \in B : c < bp \/ c >= e} \cup N
         IN  /\ Heap(w, top, C)
             /\ \A c \in B : c < bp \/ c >= e =>
                   w[c - 4] = m[c - 4] /\ Size(w, c) = Size(m, c)
<1> DEFINE Out == {c \in B : c < bp \/ c >= e}
           C == Out \cup N
<1>1. /\ bp \in Int /\ e \in Int /\ e <= top /\ top \in Int /\ 8 <= bp
      /\ heap_listp = 8 /\ heap_listp \in Out /\ top \in Out
      /\ bp % 8 = 0
  BY BlockFacts, EndFacts
<1>2. ASSUME NEW c \in Out
      PROVE  /\ w[c - 4] = m[c - 4] /\ Size(w, c) = Size(m, c)
             /\ w[c - 4] \in Nat /\ c \in Int /\ 8 <= c /\ c <= top /\ c % 8 = 0
             /\ c # top =>
                   /\ Size(w, c) >= 8 /\ w[c + Size(w, c) - 8] = w[c - 4]
                   /\ c # heap_listp => Size(w, c) >= 16
                   /\ c + Size(w, c) \in C
                   /\ \A d \in C : d > c => d >= c + Size(w, c)
  <2>1. c \in Int /\ c - 4 \in Words /\ m[c - 4] \in Nat /\ HDRP(c) = c - 4
        /\ 8 <= c /\ c <= top /\ c % 8 = 0 /\ Size(m, c) \in Int /\ Size(m, c) >= 0
    BY BlockFacts
  <2>2. w[c - 4] = m[c - 4] /\ Size(w, c) = Size(m, c)
    BY <1>1, <2>1 DEF Size
  <2>3. ASSUME c # top
        PROVE  /\ Size(m, c) >= 8 /\ m[c + Size(m, c) - 8] = m[c - 4]
               /\ c # heap_listp => Size(m, c) >= 16
               /\ c + Size(m, c) \in B /\ c + Size(m, c) - 8 \in Words
               /\ \A d \in B : d > c => d >= c + Size(m, c)
    BY <2>3, BlockFacts
  <2>4. CASE c < bp
    <3>1. c # top /\ c + Size(m, c) <= bp
      BY <1>1, <2>1, <2>3, <2>4
    <3>2. w[c + Size(m, c) - 8] = m[c + Size(m, c) - 8]
      BY <1>1, <2>1, <2>3, <3>1
    <3>3. c + Size(m, c) \in C
      BY <1>1, <2>1, <2>3, <3>1
    <3>4. ASSUME NEW d \in C, d > c PROVE d >= c + Size(m, c)
      BY <1>1, <2>1, <2>3, <3>1, <3>4
    <3> QED BY <2>1, <2>2, <2>3, <3>1, <3>2, <3>3, <3>4
  <2>5. CASE c >= e
    <3>1. c # top => w[c + Size(m, c) - 8] = m[c + Size(m, c) - 8]
      BY <1>1, <2>1, <2>3, <2>5
    <3>2. c # top => c + Size(m, c) \in C
      BY <1>1, <2>1, <2>3, <2>5
    <3>3. ASSUME c # top, NEW d \in C, d > c PROVE d >= c + Size(m, c)
      BY <1>1, <2>1, <2>3, <2>5, <3>3
    <3> QED BY <2>1, <2>2, <2>3, <3>1, <3>2, <3>3
  <2> QED BY <2>4, <2>5
<1>3. ASSUME NEW n \in N
      PROVE  /\ n \in Int /\ 8 <= n /\ n <= top /\ n # top /\ n # heap_listp /\ n % 8 = 0
             /\ w[n - 4] \in Nat /\ Size(w, n) >= 16
             /\ w[n + Size(w, n) - 8] = w[n - 4]
             /\ n + Size(w, n) \in C
             /\ \A d \in C : d > n => d >= n + Size(w, n)
  <2>1. n \in Int /\ bp <= n /\ n < e /\ n % 8 = 0 /\ w[n - 4] \in Nat /\ Size(w, n) >= 16
        /\ w[n + Size(w, n) - 8] = w[n - 4] /\ n + Size(w, n) \in N \cup {e}
        /\ \A c \in N : c > n => c >= n + Size(w, n)
    OBVIOUS
  <2>2. Size(w, n) \in Int
    BY <2>1, TagFacts DEF Size, HDRP, WSIZE
  <2>3. n + Size(w, n) <= e /\ e \in Out
    BY <1>1, <2>1, <2>2
  <2>4. ASSUME NEW d \in C, d > n PROVE d >= n + Size(w, n)
    BY <1>1, <2>1, <2>2, <2>3, <2>4, BlockFacts
  <2> QED BY <1>1, <2>1, <2>3, <2>4
<1>4. Heap(w, top, C)
  <2>1. /\ w[top - 4] = PACK(0, 1) /\ w[heap_listp - 4] = PACK(8, 1)
        /\ top \in C /\ heap_listp \in C
    BY <1>1, <1>2, EndFacts
  <2>2. \A c \in C : /\ c \in Int /\ 8 <= c /\ c <= top /\ c % 8 = 0
                     /\ w[c - 4] \in Nat
                     /\ c # top =>
                          /\ Size(w, c) > 0 /\ w[c + Size(w, c) - 8] = w[c - 4]
                          /\ c # heap_listp => Size(w, c) >= 16
                          /\ c + Size(w, c) \in C
                          /\ \A d \in C : d > c => d >= c + Size(w, c)
    <3> TAKE c \in C
    <3>1. Size(w, c) \in Int
      BY <1>2, <1>3, TagFacts DEF Size, HDRP, WSIZE
    <3>2. CASE c \in Out
      <4> HIDE DEF Out, C
      <4> QED BY <1>2, <3>1, <3>2
    <3>3. CASE c \in N
      <4> HIDE DEF Out, C
      <4> QED BY <1>3, <3>1, <3>3
    <3> QED BY <3>2, <3>3
  <2> HIDE DEF C, Out
  <2> QED
    BY <1>1, <2>1, <2>2 DEF Heap, Tiled, HDRP, WSIZE, ALIGNMENT, NEXT_BLKP, FTRP
<1> QED
  BY <1>2, <1>4

\* The walk of Blocks meets the blocks of the heap, every one of them.
LEMMA WalkFindsBlocks ==
  ASSUME NEW m, NEW top, NEW B, Heap(m, top, B)
  PROVE  Blocks(m) = B
<1>1. PICK walk : IsWalk(m, walk, K) /\ Blocks(m) = {walk[n] : n \in 0 .. K}
  BY BlocksWalk
<1>2. /\ walk[0] = heap_listp
      /\ \A n \in 0 .. K - 1 : walk[n + 1] = NextIn(m, walk[n])
  BY <1>1, KNat DEF IsWalk
<1>3. /\ heap_listp = 8 /\ heap_listp \in B /\ top \in B /\ top \in Int
      /\ top <= MAX_HEAP /\ Size(m, top) = 0 /\ 16 <= top
  BY EndFacts
<1>4. \A c \in B : c \in Int /\ 8 <= c /\ c <= top
  BY BlockFacts
<1>5. ASSUME NEW c \in B
      PROVE  /\ NextIn(m, c) \in B
             /\ c = top => NextIn(m, c) = c
             /\ c # top => NextIn(m, c) >= c + 8
             /\ \A d \in B : d > c => d >= NextIn(m, c)
  <2>1. NextIn(m, c) = c + Size(m, c)
    <3>1. HDRP(c) = c - 4 /\ c - 4 \in Words /\ NEXT_BLKP(m, c) = c + Size(m, c)
      BY BlockFacts
    <3> QED BY <3>1 DEF NextIn
  <2>2. c = top => c + Size(m, c) = c
    BY <1>3
  <2>3. c # top => c + Size(m, c) \in B /\ Size(m, c) >= 8 /\ Size(m, c) \in Int
    BY BlockFacts
  <2>4. \A d \in B : d > c => d >= c + Size(m, c)
    BY BlockFacts
  <2> QED BY <1>4, <2>1, <2>2, <2>3, <2>4
<1> DEFINE S == {n \in 0 .. K : /\ walk[n] \in B
                                /\ walk[n] = top \/ walk[n] >= 8 + 8 * n
                                /\ \A c \in B : c <= walk[n] => \E i \in 0 .. n : c = walk[i]}
<1>6. 0 \in S
  <2>1. \A c \in B : c <= walk[0] => c = walk[0]
    BY <1>2, <1>3, <1>4
  <2> QED BY <1>2, <1>3, <2>1, KNat
<1>7. ASSUME NEW n \in 0 .. K - 1, n \in S
      PROVE  n + 1 \in S
  <2>1. /\ walk[n] \in B /\ walk[n + 1] = NextIn(m, walk[n]) /\ n + 1 \in 0 .. K
        /\ walk[n] = top \/ walk[n] >= 8 + 8 * n
        /\ \A c \in B : c <= walk[n] => \E i \in 0 .. n : c = walk[i]
    BY <1>2, <1>7, KNat
  <2>2. walk[n + 1] \in B
    BY <1>5, <2>1
  <2>3. walk[n + 1] = top \/ walk[n + 1] >= 8 + 8 * (n + 1)
    <3>1. n \in Int /\ 8 + 8 * (n + 1) = (8 + 8 * n) + 8
      BY KNat
    <3>2. walk[n] # top => walk[n + 1] >= walk[n] + 8
      BY <1>5, <2>1
    <3> QED BY <1>4, <1>5, <2>1, <2>2, <3>1, <3>2
  <2>4. ASSUME NEW c \in B, c <= walk[n + 1] PROVE \E i \in 0 .. n + 1 : c = walk[i]
    <3>1. CASE c <= walk[n]
      <4>1. PICK i \in 0 .. n : c = walk[i]
        BY <2>1, <3>1
      <4>2. i \in 0 .. n + 1
        BY KNat
      <4> QED BY <4>1, <4>2
    <3>2. CASE c > walk[n]
      <4>1. c = walk[n + 1]
        BY <1>4, <1>5, <2>1, <2>2, <2>4, <3>2
      <4>2. n + 1 \in 0 .. n + 1
        BY KNat
      <4> QED BY <4>1, <4>2
    <3> QED BY <1>4, <2>1, <3>1, <3>2
  <2> QED BY <2>1, <2>2, <2>3, <2>4
<1> HIDE DEF S
<1>8. \A n \in 0 .. K : n \in S
  BY <1>6, <1>7, KNat, UpTo
<1>9. /\ K \in 0 .. K /\ walk[K] \in B
      /\ walk[K] = top \/ walk[K] >= 8 + 8 * K
      /\ \A c \in B : c <= walk[K] => \E i \in 0 .. K : c = walk[i]
  BY <1>8, KNat DEF S
<1>10. 8 * K = MAX_HEAP
  BY MemoryFacts, Z3T(20) DEF K, ALIGNMENT
<1>11. walk[K] = top
  <2>1. walk[K] \in Int /\ walk[K] <= top
    <3>1. walk[K] \in B
      BY <1>9
    <3> QED BY <1>4, <3>1, Zenon
  <2>2. walk[K] >= 8 + 8 * K => walk[K] >= 8 + MAX_HEAP
    BY <1>10
  <2>3. ~(walk[K] >= 8 + MAX_HEAP)
    BY <1>3, <2>1, MemoryFacts
  <2> QED BY <1>9, <2>2, <2>3
<1>12. B \subseteq {walk[n] : n \in 0 .. K}
  BY <1>4, <1>9, <1>11
<1>13. {walk[n] : n \in 0 .. K} \subseteq B
  BY <1>8 DEF S
<1> QED
  BY <1>1, <1>12, <1>13

-----------------------------------------------------------------------------
(* One block between two blocks, in place of those there.                  *)

\* The words of m that make bp a block that ends where e begins.
IsBlock(m, bp, e, alloc) ==
    /\ m[bp - 4] \in Nat /\ m[e - 8] = m[bp - 4]
    /\ SizeOf(m[bp - 4]) = e - bp /\ AllocOf(m[bp - 4]) = alloc

LEMMA TagMakesBlock ==
  ASSUME NEW m, DOMAIN m = Words, NEW bp \in Int, NEW e \in Int,
         bp % 8 = 0, e % 8 = 0, 8 <= bp, bp < e, e <= MAX_HEAP,
         NEW alloc \in {0, 1}
  PROVE  LET w == Tag(m, bp, e - bp, alloc)
         IN  /\ DOMAIN w = Words /\ IsBlock(w, bp, e, alloc)
             /\ \A a \in Words : a # bp - 4 /\ a # e - 8 => w[a] = m[a]
<1>1. /\ e - bp \in Nat /\ e - bp \in Int /\ (e - bp) % 8 = 0
      /\ bp + ((e - bp) - 8) = e - 8
  BY SumAligned
<1>2. bp - 4 \in Words /\ e - 8 \in Words
  <2>1. bp <= MAX_HEAP /\ 8 <= e
    BY MemoryFacts
  <2> QED BY <2>1, AlignedWords
<1> DEFINE w == Tag(m, bp, e - bp, alloc)
<1>3. /\ DOMAIN w = Words
      /\ w[bp - 4] = PACK(e - bp, alloc) /\ w[e - 8] = PACK(e - bp, alloc)
      /\ \A a \in Words : a # bp - 4 /\ a # e - 8 => w[a] = m[a]
  BY <1>1, <1>2 DEF Tag, HDRP, WSIZE, ALIGNMENT
<1>4. /\ PACK(e - bp, alloc) \in Nat /\ SizeOf(PACK(e - bp, alloc)) = e - bp
      /\ AllocOf(PACK(e - bp, alloc)) = alloc
  BY <1>1, PackFacts
<1> QED
  BY <1>3, <1>4 DEF IsBlock

LEMMA OneBlock ==
  ASSUME NEW m, NEW top, NEW B, Heap(m, top, B),
         NEW bp \in B, NEW e \in B, heap_listp < bp, bp < e, e - bp >= 16,
         NEW alloc \in {0, 1},
         NEW w, DOMAIN w = Words, IsBlock(w, bp, e, alloc),
         \A a \in Words : a < bp - 4 \/ a >= e - 4 => w[a] = m[a]
  PROVE  LET C == {c \in B : c < bp \/ c >= e} \cup {bp}
         IN  /\ Heap(w, top, C)
             /\ Size(w, bp) = e - bp
             /\ Allocated(w, bp) <=> alloc = 1
             /\ \A c \in B : c < bp \/ c >= e =>
                   w[c - 4] = m[c - 4] /\ Size(w, c) = Size(m, c)
<1>1. bp \in Int /\ e \in Int /\ bp % 8 = 0 /\ e % 8 = 0 /\ HDRP(bp) = bp - 4
  BY BlockFacts
<1>3. /\ w[bp - 4] \in Nat /\ w[e - 8] = w[bp - 4]
      /\ SizeOf(w[bp - 4]) = e - bp /\ AllocOf(w[bp - 4]) = alloc
  BY DEF IsBlock
<1>4. Size(w, bp) = e - bp /\ (Allocated(w, bp) <=> alloc = 1)
  BY <1>1, <1>3 DEF Size, Allocated
<1>5. bp + (Size(w, bp) - 8) = e - 8 /\ bp + Size(w, bp) = e
  BY <1>1, <1>4
<1>6. /\ bp \in {bp}
      /\ \A n \in {bp} : /\ n \in Int /\ n % 8 = 0 /\ bp <= n /\ n < e
                         /\ w[n - 4] \in Nat /\ Size(w, n) >= 16
                         /\ w[n + Size(w, n) - 8] = w[n - 4]
                         /\ n + Size(w, n) \in {bp} \cup {e}
                         /\ \A c \in {bp} : c > n => c >= n + Size(w, n)
  BY <1>1, <1>3, <1>4, <1>5
<1> DEFINE N == {bp}
<1>7. LET C == {c \in B : c < bp \/ c >= e} \cup N
      IN  /\ Heap(w, top, C)
          /\ \A c \in B : c < bp \/ c >= e =>
                w[c - 4] = m[c - 4] /\ Size(w, c) = Size(m, c)
  <2>1. /\ bp \in N
        /\ \A n \in N : /\ n \in Int /\ n % 8 = 0 /\ bp <= n /\ n < e
                        /\ w[n - 4] \in Nat /\ Size(w, n) >= 16
                        /\ w[n + Size(w, n) - 8] = w[n - 4]
                        /\ n + Size(w, n) \in N \cup {e}
                        /\ \A c \in N : c > n => c >= n + Size(w, n)
    BY <1>6
  <2> HIDE DEF N
  <2> QED BY <2>1, Retile
<1> QED
  BY <1>4, <1>7

-----------------------------------------------------------------------------
(* Heaps in which every size is a multiple of 16.                          *)

Sixteens(m, top, B) == \A bp \in Inner(top, B) : Size(m, bp) % 16 = 0

Good(m, top, B) == Heap(m, top, B) /\ Coalesced(m, top, B) /\ Sixteens(m, top, B)

AllocatedIn(m, top, B) == {bp \in Inner(top, B) : Allocated(m, bp)}

\* Only bp may be free with a free neighbour.
CoalescedBut(m, top, B, bp) ==
    \A c \in B \ {top} :
        ~Allocated(m, c) /\ c # bp =>
            Allocated(m, NEXT_BLKP(m, c)) \/ NEXT_BLKP(m, c) = bp

\* What coalesce finds on both sides of bp, and what it makes of it: the free
\* block from first to e.
LEMMA CoalesceFacts ==
  ASSUME NEW m, NEW top, NEW B, Heap(m, top, B), Sixteens(m, top, B),
         NEW bp \in Inner(top, B), ~Allocated(m, bp), CoalescedBut(m, top, B, bp)
  PROVE  \E first, e \in B :
            /\ heap_listp < first /\ first <= bp /\ bp < e
            /\ e - first >= Size(m, bp) /\ e - first >= 16 /\ (e - first) % 16 = 0
            /\ ~Allocated(m, first) /\ Allocated(m, e)
            /\ \A c \in B : first < c /\ c < e => ~Allocated(m, c)
            /\ \A c \in B : c < first /\ c + Size(m, c) = first => Allocated(m, c)
            /\ coalesce(m, bp).bp = first
            /\ LET w == coalesce(m, bp).mem
               IN  /\ DOMAIN w = Words /\ IsBlock(w, first, e, 0)
                   /\ \A a \in Words : a # first - 4 /\ a # e - 8 => w[a] = m[a]
<1>1. /\ bp \in B /\ bp # heap_listp /\ bp # top /\ DOMAIN m = Words
      /\ Size(m, bp) % 16 = 0
  BY DEF Inner, Heap, Sixteens
<1>2. /\ heap_listp = 8 /\ heap_listp \in B /\ top \in Int
      /\ top <= MAX_HEAP /\ MAX_HEAP \in Nat
      /\ Allocated(m, heap_listp) /\ Allocated(m, top)
  BY EndFacts, MemoryFacts
<1>3. \A c \in B : /\ c \in Int /\ 8 <= c /\ c <= top /\ c % 8 = 0 /\ Size(m, c) \in Int
                   /\ HDRP(c) = c - 4 /\ c - 4 \in Words
                   /\ NEXT_BLKP(m, c) = c + Size(m, c)
                   /\ FTRP(m, c) = c + (Size(m, c) - 8)
                   /\ (Allocated(m, c) <=> AllocOf(m[c - 4]) = 1)
                   /\ Size(m, c) = SizeOf(m[c - 4])
                   /\ \A d \in B : d > c => d >= c + Size(m, c)
  <2> TAKE c \in B
  <2>1. /\ c \in Int /\ 8 <= c /\ c <= top /\ c % 8 = 0 /\ Size(m, c) \in Int
        /\ HDRP(c) = c - 4 /\ c - 4 \in Words
        /\ NEXT_BLKP(m, c) = c + Size(m, c)
        /\ FTRP(m, c) = c + (Size(m, c) - 8)
        /\ \A d \in B : d > c => d >= c + Size(m, c)
    BY BlockFacts
  <2> QED BY <2>1 DEF Allocated, Size
<1>4. \A c \in B : c # top =>
         /\ Size(m, c) >= 8 /\ m[c + (Size(m, c) - 8)] = m[c - 4]
         /\ c + (Size(m, c) - 8) \in Words
         /\ c + Size(m, c) \in B
  BY BlockFacts
<1>5. PICK p \in B : p < bp /\ p + Size(m, p) = bp
  BY <1>1, Predecessor
<1>6. p # top /\ bp - 8 = p + (Size(m, p) - 8)
  BY <1>1, <1>3, <1>5
<1>7. /\ PREV_BLKP(m, bp) = p
      /\ AllocOf(m[FTRP(m, p)]) = 1 <=> Allocated(m, p)
  <2>1. m[bp - 8] = m[p - 4]
    BY <1>4, <1>6
  <2>2. PREV_BLKP(m, bp) = bp - Size(m, p)
    BY <1>3, <2>1 DEF PREV_BLKP, ALIGNMENT
  <2>3. bp - Size(m, p) = p
    BY <1>3, <1>5
  <2>4. FTRP(m, p) = bp - 8
    BY <1>3, <1>6
  <2> QED BY <1>3, <2>1, <2>2, <2>3, <2>4
<1> DEFINE x == bp + Size(m, bp)
<1>8. x \in B /\ NEXT_BLKP(m, bp) = x /\ x > bp
  BY <1>1, <1>3, <1>4
<1> DEFINE first == IF Allocated(m, p) THEN bp ELSE p
           e == IF Allocated(m, x) THEN x ELSE x + Size(m, x)
           w == IF Allocated(m, p) /\ Allocated(m, x) THEN m
                ELSE Tag(m, first, e - first, 0)
<1>9. x + Size(m, x) \in Int /\ x \in Int /\ p \in Int /\ p + Size(m, p) = bp
  BY <1>3, <1>5, <1>8
<1>10. Size(m, bp) + (IF Allocated(m, p) THEN 0 ELSE Size(m, p))
                  + (IF Allocated(m, x) THEN 0 ELSE Size(m, x)) = e - first
  <2>1. Size(m, bp) = x - bp
    BY <1>1, <1>3, <1>9
  <2>2. first \in Int /\ (IF Allocated(m, p) THEN 0 ELSE Size(m, p)) = bp - first
    BY <1>1, <1>3, <1>5, <1>9
  <2>3. e \in Int /\ (IF Allocated(m, x) THEN 0 ELSE Size(m, x)) = e - x
    BY <1>3, <1>8, <1>9
  <2>4. bp \in Int /\ x \in Int
    BY <1>1, <1>3, <1>9
  <2> HIDE DEF x, first, e
  <2> QED BY <2>1, <2>2, <2>3, <2>4
<1>11. coalesce(m, bp) = [mem |-> w, bp |-> first]
  <2> HIDE DEF x
  <2> QED BY <1>7, <1>8, <1>10 DEF coalesce
<1>12. ~Allocated(m, x) => x # top /\ x + Size(m, x) \in B /\ Size(m, x) % 16 = 0
  BY <1>1, <1>2, <1>3, <1>4, <1>8 DEF Sixteens, Inner
<1>13. ~Allocated(m, p) => p # heap_listp /\ Size(m, p) % 16 = 0
  BY <1>2, <1>5, <1>6 DEF Sixteens, Inner
<1>14. first \in B /\ e \in B /\ heap_listp < first /\ first <= bp /\ bp < e
  <2>1. p \in B /\ x \in B /\ bp \in B
    BY <1>1, <1>5, <1>8
  <2>2. first \in B /\ e \in B
    BY <1>12, <2>1
  <2>3. first # heap_listp /\ first <= bp
    BY <1>1, <1>3, <1>5, <1>13
  <2>4. heap_listp < first
    <3> HIDE DEF first
    <3>1. first \in Int /\ 8 <= first
      BY <1>3, <2>2
    <3> QED BY <1>2, <2>3, <3>1
  <2>5. e >= x /\ x > bp
    BY <1>3, <1>4, <1>8, <1>12
  <2>6. bp \in Int /\ x \in Int /\ e \in Int
    BY <1>3, <2>1, <2>2
  <2> HIDE DEF first, e, x
  <2> QED BY <2>2, <2>3, <2>4, <2>5, <2>6
<1>15. e - first >= Size(m, bp) /\ (e - first) % 16 = 0 /\ Size(m, bp) >= 16
  <2>1. Size(m, bp) >= 16
    BY <1>1, BlockFacts
  <2>2. Size(m, x) >= 8 \/ Allocated(m, x)
    BY <1>4, <1>8, <1>12
  <2>3. Size(m, p) >= 8
    BY <1>4, <1>6
  <2>4. e - first >= Size(m, bp)
    BY <1>1, <1>3, <1>5, <1>8, <1>10, <2>2, <2>3
  <2>5. \A a, b, c \in Int : a % 16 = 0 /\ b % 16 = 0 /\ c % 16 = 0 => (a + b + c) % 16 = 0
    BY Z3T(20)
  <2>6. (Size(m, bp) + (IF Allocated(m, p) THEN 0 ELSE Size(m, p))
                    + (IF Allocated(m, x) THEN 0 ELSE Size(m, x))) % 16 = 0
    <3>1. /\ (IF Allocated(m, p) THEN 0 ELSE Size(m, p)) \in Int
          /\ (IF Allocated(m, p) THEN 0 ELSE Size(m, p)) % 16 = 0
      BY <1>3, <1>5, <1>13
    <3>2. /\ (IF Allocated(m, x) THEN 0 ELSE Size(m, x)) \in Int
          /\ (IF Allocated(m, x) THEN 0 ELSE Size(m, x)) % 16 = 0
      BY <1>3, <1>8, <1>12
    <3>3. Size(m, bp) \in Int /\ Size(m, bp) % 16 = 0
      BY <1>1, <1>3
    <3> QED BY <2>5, <3>1, <3>2, <3>3
  <2> QED BY <1>10, <2>1, <2>4, <2>6
<1>16. ~Allocated(m, first) /\ Allocated(m, e)
  <2>1. ~Allocated(m, x) => Allocated(m, x + Size(m, x))
    BY <1>1, <1>3, <1>8, <1>9, <1>12, <1>4 DEF CoalescedBut
  <2> QED BY <1>1, <2>1
<1>17. ASSUME NEW c \in B, first < c, c < e PROVE ~Allocated(m, c)
  <2>1. c < bp => c = p
    BY <1>3, <1>5, <1>17
  <2>2. c > bp => c = x
    BY <1>1, <1>3, <1>8, <1>17
  <2> QED BY <1>1, <1>3, <1>17, <2>1, <2>2
<1>18. ASSUME NEW c \in B, c < first, c + Size(m, c) = first PROVE Allocated(m, c)
  <2>1. CASE Allocated(m, p)
    <3>1. c = p
      BY <1>3, <1>4, <1>5, <1>6, <1>18, <2>1
    <3> QED BY <2>1, <3>1
  <2>2. CASE ~Allocated(m, p)
    <3>1. c # top /\ c # bp /\ NEXT_BLKP(m, c) = p /\ p # bp
      BY <1>3, <1>5, <1>18, <2>2
    <3> QED BY <2>2, <3>1 DEF CoalescedBut
  <2> QED BY <2>1, <2>2
<1>19. /\ DOMAIN w = Words /\ IsBlock(w, first, e, 0)
       /\ \A a \in Words : a # first - 4 /\ a # e - 8 => w[a] = m[a]
  <2>1. CASE Allocated(m, p) /\ Allocated(m, x)
    <3>1. first = bp /\ e = x /\ w = m /\ e - first = Size(m, bp)
      BY <1>1, <1>3, <1>8, <2>1
    <3>2. m[bp - 4] \in Nat /\ AllocOf(m[bp - 4]) = 0 /\ SizeOf(m[bp - 4]) = Size(m, bp)
      BY <1>1, <1>3, TagFacts, BlockFacts
    <3>3. bp + (Size(m, bp) - 8) = x - 8 /\ x - bp = Size(m, bp)
      BY <1>1, <1>3, <1>8
    <3>4. IsBlock(m, bp, x, 0)
      BY <1>1, <1>4, <3>2, <3>3 DEF IsBlock
    <3> HIDE DEF first, e, w
    <3> QED BY <1>1, <3>1, <3>4
  <2>2. CASE ~(Allocated(m, p) /\ Allocated(m, x))
    <3>1. /\ first \in Int /\ e \in Int /\ first % 8 = 0 /\ e % 8 = 0
          /\ 8 <= first /\ first < e /\ e <= MAX_HEAP
      <4> HIDE DEF first, e
      <4>1. bp \in Int /\ e \in Int /\ e <= top /\ first \in Int
        BY <1>1, <1>3, <1>14
      <4>2. first % 8 = 0 /\ e % 8 = 0
        BY <1>3, <1>14
      <4> QED BY <1>2, <1>14, <4>1, <4>2
    <3>2. w = Tag(m, first, e - first, 0)
      BY <2>2
    <3> HIDE DEF first, e, w
    <3> QED BY <1>1, <3>1, <3>2, TagMakesBlock
  <2> QED BY <2>1, <2>2
<1>20. coalesce(m, bp).bp = first /\ coalesce(m, bp).mem = w
  BY <1>11
<1> HIDE DEF first, e, w
<1>21. LET v == coalesce(m, bp).mem
       IN  /\ DOMAIN v = Words /\ IsBlock(v, first, e, 0)
           /\ \A a \in Words : a # first - 4 /\ a # e - 8 => v[a] = m[a]
  BY <1>19, <1>20
<1>22. e - first >= 16
  BY <1>1, <1>3, <1>14, <1>15
<1> QED
  BY <1>14, <1>15, <1>16, <1>17, <1>18, <1>20, <1>21, <1>22, Zenon

\* Memory w keeps, of the blocks S, what m says of them, and what is in them.
SameBlocks(w, m, S) ==
    \A c \in S : /\ Size(w, c) = Size(m, c)
                 /\ Allocated(w, c) <=> Allocated(m, c)
                 /\ \A a \in Words : c <= a /\ a < c + (Size(m, c) - 8) => w[a] = m[a]

\* What w has that m has not are numbers.
Written(w, m) == \A a \in Words : w[a] = m[a] \/ w[a] \in Nat

\* What mm.c does to the memory: it writes numbers, and keeps the blocks S.
Keeps(w, m, S) == SameBlocks(w, m, S) /\ Written(w, m)

LEMMA KeepsTransitive ==
  ASSUME NEW u, NEW v, NEW w, NEW S, Keeps(w, v, S), Keeps(v, u, S)
  PROVE  Keeps(w, u, S)
BY DEF Keeps, SameBlocks, Written

\* Another block begins before a block or behind its end.
LEMMA Apart ==
  ASSUME NEW m, NEW top, NEW B, Heap(m, top, B), NEW bp \in B, bp # top,
         NEW c \in B, c # bp
  PROVE  c < bp \/ c >= bp + Size(m, bp)
<1>1. /\ c \in Int /\ bp \in Int /\ Size(m, bp) \in Int
      /\ c > bp => c >= bp + Size(m, bp)
  BY BlockFacts
<1> QED
  BY <1>1

\* What is written between two blocks does not touch the payload of any other.
LEMMA PayloadKept ==
  ASSUME NEW m, NEW top, NEW B, Heap(m, top, B), NEW bp \in B, NEW e \in B,
         NEW w, \A a \in Words : a < bp - 4 \/ a >= e - 4 => w[a] = m[a],
         NEW c \in B, c # top, c < bp \/ c >= e
  PROVE  \A a \in Words : c <= a /\ a < c + (Size(m, c) - 8) => w[a] = m[a]
<1>1. /\ c \in Int /\ bp \in Int /\ e \in Int /\ Size(m, c) \in Int
      /\ \A d \in B : d > c => d >= c + Size(m, c)
  BY BlockFacts
<1>2. Words \subseteq Int
  BY MemoryFacts DEF Words, WSIZE
<1>3. c < bp => c + Size(m, c) <= bp
  BY <1>1
<1>4. ASSUME NEW a \in Words, c <= a, a < c + (Size(m, c) - 8)
      PROVE  a < bp - 4 \/ a >= e - 4
  BY <1>1, <1>2, <1>3, <1>4
<1> QED
  BY <1>4

\* coalesce restores a good heap and allocates or frees nothing.
LEMMA Coalescing ==
  ASSUME NEW m, NEW top, NEW B, Heap(m, top, B), Sixteens(m, top, B),
         NEW bp \in Inner(top, B), ~Allocated(m, bp), CoalescedBut(m, top, B, bp)
  PROVE  LET r == coalesce(m, bp)
         IN  \E C : /\ Good(r.mem, top, C)
                    /\ r.bp \in Inner(top, C) /\ ~Allocated(r.mem, r.bp)
                    /\ Size(r.mem, r.bp) >= Size(m, bp)
                    /\ r.bp <= bp /\ bp < r.bp + Size(r.mem, r.bp)
                    /\ AllocatedIn(r.mem, top, C) = AllocatedIn(m, top, B)
                    /\ Keeps(r.mem, m, AllocatedIn(m, top, B))
<1> DEFINE w == coalesce(m, bp).mem
<1>1. PICK first \in B, e \in B :
         /\ heap_listp < first /\ first <= bp /\ bp < e
         /\ e - first >= Size(m, bp) /\ e - first >= 16 /\ (e - first) % 16 = 0
         /\ ~Allocated(m, first) /\ Allocated(m, e)
         /\ \A c \in B : first < c /\ c < e => ~Allocated(m, c)
         /\ \A c \in B : c < first /\ c + Size(m, c) = first => Allocated(m, c)
         /\ coalesce(m, bp).bp = first
         /\ DOMAIN w = Words /\ IsBlock(w, first, e, 0)
         /\ \A a \in Words : a # first - 4 /\ a # e - 8 => w[a] = m[a]
  BY CoalesceFacts
<1>2. \A c \in B : /\ c \in Int /\ c <= top /\ HDRP(c) = c - 4 /\ c - 4 \in Words
                   /\ NEXT_BLKP(m, c) = c + Size(m, c) /\ Size(m, c) \in Int
                   /\ c # top => c + Size(m, c) \in B /\ Size(m, c) >= 8
                   /\ \A d \in B : d > c => d >= c + Size(m, c)
  BY BlockFacts
<1>3. /\ heap_listp = 8 /\ heap_listp \in B /\ top \in B /\ top \in Int
      /\ Words \subseteq Int /\ bp \in B
  BY EndFacts, MemoryFacts DEF Words, WSIZE, Inner
<1> HIDE DEF w
<1> DEFINE Out == {c \in B : c < first \/ c >= e}
           C == Out \cup {first}
<1>4. /\ Heap(w, top, C) /\ Size(w, first) = e - first /\ ~Allocated(w, first)
      /\ \A c \in Out : w[c - 4] = m[c - 4] /\ Size(w, c) = Size(m, c)
  <2>1. \A a \in Words : a < first - 4 \/ a >= e - 4 => w[a] = m[a]
    <3>1. first \in Int /\ e \in Int /\ first + 16 <= e
      BY <1>1, <1>2
    <3>2. \A a \in Words : a < first - 4 \/ a >= e - 4 => a # first - 4 /\ a # e - 8
      BY <1>3, <3>1
    <3> QED BY <1>1, <3>2
  <2>2. first < e
    BY <1>1, <1>2
  <2>3. heap_listp < first /\ e - first >= 16 /\ DOMAIN w = Words /\ IsBlock(w, first, e, 0)
    BY <1>1
  <2>4. /\ Heap(w, top, C) /\ Size(w, first) = e - first /\ (Allocated(w, first) <=> 0 = 1)
        /\ \A c \in B : c < first \/ c >= e =>
              w[c - 4] = m[c - 4] /\ Size(w, c) = Size(m, c)
    BY <2>1, <2>2, <2>3, OneBlock
  <2> QED BY <2>4
<1>5. \A c \in Out : Allocated(w, c) <=> Allocated(m, c)
  BY <1>2, <1>4 DEF Allocated
<1>6. /\ top \in Out /\ heap_listp \in Out /\ e \in Out /\ first # top
      /\ first # heap_listp /\ first \notin Out
  BY <1>1, <1>2, <1>3
<1>7. \A c \in C : NEXT_BLKP(w, c) = c + Size(w, c) /\ c \in B
  BY <1>2, <1>4 DEF NEXT_BLKP
<1>8. Coalesced(w, top, C)
  <2> SUFFICES ASSUME NEW c \in C, c # top, ~Allocated(w, c)
               PROVE  Allocated(w, c + Size(w, c))
    BY <1>7 DEF Coalesced
  <2>1. CASE c = first
    <3>1. c + Size(w, c) = e
      BY <1>2, <1>4, <2>1
    <3> QED BY <1>1, <1>5, <1>6, <3>1
  <2>2. CASE c \in Out
    <3> DEFINE d == c + Size(m, c)
    <3>1. /\ c \in B /\ ~Allocated(m, c) /\ c + Size(w, c) = d /\ d \in B /\ d > c
          /\ d \in Int /\ c \in Int
      BY <1>2, <1>4, <1>5, <2>2
    <3>2. c # bp
      BY <1>1, <1>2, <2>2, <3>1
    <3>3. Allocated(m, d) \/ d = bp
      BY <1>2, <3>1, <3>2 DEF CoalescedBut
    <3>4. c < first => d <= first
      BY <1>2, <3>1
    <3>5. c < first => d # first
      BY <1>1, <3>1
    <3>6. d # bp /\ d \in Out
      <4>1. CASE c < first
        <5>1. d < first
          BY <1>2, <3>1, <3>4, <3>5, <4>1
        <5> QED BY <1>1, <1>2, <3>1, <5>1
      <4>2. CASE c >= e
        <5>1. d >= e /\ d > bp
          BY <1>1, <1>2, <1>3, <3>1, <4>2
        <5> QED BY <1>2, <3>1, <5>1
      <4> QED BY <2>2, <4>1, <4>2
    <3> QED BY <1>5, <3>1, <3>3, <3>6
  <2> QED BY <2>1, <2>2
<1>9. Sixteens(w, top, C)
  BY <1>1, <1>4 DEF Sixteens, Inner
<1>9a. ASSUME NEW c \in B, Allocated(m, c) PROVE c \in Out
  <2>1. c # first /\ ~(first < c /\ c < e)
    BY <1>1, <1>9a
  <2>2. c \in Int /\ first \in Int /\ e \in Int
    BY <1>2
  <2> QED BY <2>1, <2>2
<1>10. AllocatedIn(w, top, C) = AllocatedIn(m, top, B)
  <2>1. \A c \in B : Allocated(m, c) => c \in Out
    BY <1>9a
  <2> QED
    BY <1>1, <1>4, <1>5, <2>1 DEF AllocatedIn, Inner
<1>11. SameBlocks(w, m, AllocatedIn(m, top, B))
  <2>1. \A c \in AllocatedIn(m, top, B) : c \in Out /\ c \in B /\ c # top
    BY <1>9a DEF AllocatedIn, Inner
  <2>2. \A a \in Words : a < first - 4 \/ a >= e - 4 => w[a] = m[a]
    <3>1. Words \subseteq Int /\ first \in Int /\ e \in Int
      <4>1. first \in Int /\ e \in Int
        BY <1>1, <1>2
      <4> QED BY <4>1, MemoryFacts DEF Words, WSIZE
    <3>2. first + 16 <= e
      BY <1>1, <3>1
    <3>3. \A a \in Words : a < first - 4 \/ a >= e - 4 => a # first - 4 /\ a # e - 8
      BY <3>1, <3>2
    <3> QED BY <1>1, <3>3
  <2>3. ASSUME NEW c \in AllocatedIn(m, top, B)
        PROVE  \A a \in Words : c <= a /\ a < c + (Size(m, c) - 8) => w[a] = m[a]
    <3>1. c \in B /\ c # top /\ (c < first \/ c >= e)
      BY <2>1
    <3> QED BY <1>1, <2>2, <3>1, PayloadKept
  <2> QED BY <1>4, <1>5, <2>1, <2>3 DEF SameBlocks
<1>11a. Keeps(w, m, AllocatedIn(m, top, B))
  <2>1. Written(w, m)
    BY <1>1 DEF Written, IsBlock
  <2> QED BY <1>11, <2>1 DEF Keeps
<1>12. first \in Inner(top, C) /\ Good(w, top, C)
  BY <1>4, <1>6, <1>8, <1>9 DEF Inner, Good
<1>13. first <= bp /\ bp < first + Size(w, first)
  <2>1. first \in Int /\ e \in Int
    BY <1>1, <1>2
  <2> QED BY <1>1, <1>4, <2>1
<1> QED
  BY <1>1, <1>4, <1>10, <1>11a, <1>12, <1>13 DEF w

\* mm_free of an allocated block.
LEMMA Freeing ==
  ASSUME NEW m, NEW top, NEW B, Good(m, top, B), NEW bp \in AllocatedIn(m, top, B)
  PROVE  \E C : /\ Good(Freed(m, bp), top, C)
                /\ AllocatedIn(Freed(m, bp), top, C) = AllocatedIn(m, top, B) \ {bp}
                /\ Keeps(Freed(m, bp), m, AllocatedIn(m, top, B) \ {bp})
<1> DEFINE e == bp + Size(m, bp)
           w == Tag(m, bp, Size(m, bp), 0)
<1>1. /\ Heap(m, top, B) /\ Coalesced(m, top, B) /\ Sixteens(m, top, B)
      /\ bp \in B /\ bp # heap_listp /\ bp # top /\ DOMAIN m = Words
  BY DEF Good, AllocatedIn, Inner, Heap
<1>2. \A c \in B : /\ c \in Int /\ c <= top /\ HDRP(c) = c - 4 /\ c - 4 \in Words
                   /\ c % 8 = 0 /\ 8 <= c
                   /\ NEXT_BLKP(m, c) = c + Size(m, c) /\ Size(m, c) \in Int
                   /\ c # top => c + Size(m, c) \in B /\ Size(m, c) >= 8
                   /\ \A d \in B : d > c => d >= c + Size(m, c)
  BY <1>1, BlockFacts
<1>3. heap_listp = 8 /\ top \in Int /\ top <= MAX_HEAP /\ MAX_HEAP \in Nat /\ Words \subseteq Int
  BY <1>1, EndFacts, MemoryFacts DEF Words, WSIZE
<1>4. /\ e \in B /\ e \in Int /\ bp \in Int /\ heap_listp < bp /\ bp < e
      /\ e - bp = Size(m, bp) /\ e - bp >= 16
  <2>1. Size(m, bp) >= 16
    BY <1>1, BlockFacts
  <2>2. heap_listp < bp
    BY <1>1, <1>2, <1>3
  <2> QED BY <1>1, <1>2, <2>1, <2>2
<1>5. /\ DOMAIN w = Words /\ IsBlock(w, bp, e, 0)
      /\ \A a \in Words : a # bp - 4 /\ a # e - 8 => w[a] = m[a]
  <2>1. w = Tag(m, bp, e - bp, 0)
    BY <1>4
  <2>2. /\ DOMAIN m = Words /\ bp \in Int /\ e \in Int
        /\ bp % 8 = 0 /\ e % 8 = 0 /\ 8 <= bp /\ bp < e /\ e <= MAX_HEAP
    BY <1>1, <1>2, <1>3, <1>4
  <2> HIDE DEF e, w
  <2>3. /\ DOMAIN Tag(m, bp, e - bp, 0) = Words /\ IsBlock(Tag(m, bp, e - bp, 0), bp, e, 0)
        /\ \A a \in Words : a # bp - 4 /\ a # e - 8 => Tag(m, bp, e - bp, 0)[a] = m[a]
    BY <2>2, TagMakesBlock
  <2> QED BY <2>1, <2>3
<1> HIDE DEF w, e
<1>6. /\ Heap(w, top, B) /\ Size(w, bp) = Size(m, bp) /\ ~Allocated(w, bp)
      /\ \A c \in B : c # bp => w[c - 4] = m[c - 4] /\ Size(w, c) = Size(m, c)
  <2>1. ASSUME NEW a \in Words, a < bp - 4 \/ a >= e - 4 PROVE w[a] = m[a]
    <3>1. a # bp - 4 /\ a # e - 8
      BY <1>3, <1>4, <2>1
    <3> QED BY <1>5, <3>1
  <2>5. /\ Heap(m, top, B) /\ bp \in B /\ e \in B /\ heap_listp < bp /\ bp < e
        /\ e - bp >= 16 /\ DOMAIN w = Words /\ IsBlock(w, bp, e, 0)
    BY <1>1, <1>4, <1>5
  <2> DEFINE C == {c \in B : c < bp \/ c >= e} \cup {bp}
  <2>2. /\ Heap(w, top, C) /\ Size(w, bp) = e - bp /\ (Allocated(w, bp) <=> 0 = 1)
        /\ \A c \in B : c < bp \/ c >= e =>
              w[c - 4] = m[c - 4] /\ Size(w, c) = Size(m, c)
    BY <2>1, <2>5, OneBlock
  <2>3. \A c \in B : c # bp => c < bp \/ c >= e
    BY <1>1, <1>2, <1>4
  <2>4. C = B
    BY <1>1, <2>3
  <2> HIDE DEF C
  <2> QED BY <1>4, <2>2, <2>3, <2>4
<1>7. \A c \in B : c # bp => (Allocated(w, c) <=> Allocated(m, c))
  BY <1>2, <1>6 DEF Allocated
<1>8. \A c \in B : Size(w, c) = Size(m, c) /\ NEXT_BLKP(w, c) = NEXT_BLKP(m, c)
  BY <1>6 DEF NEXT_BLKP
<1>9. Sixteens(w, top, B) /\ bp \in Inner(top, B)
  BY <1>1, <1>8 DEF Sixteens, Inner
<1>10. CoalescedBut(w, top, B, bp)
  <2> SUFFICES ASSUME NEW c \in B, c # top, ~Allocated(w, c), c # bp, NEXT_BLKP(m, c) # bp
               PROVE  Allocated(w, NEXT_BLKP(m, c))
    BY <1>8 DEF CoalescedBut
  <2>1. Allocated(m, NEXT_BLKP(m, c)) /\ NEXT_BLKP(m, c) \in B
    BY <1>1, <1>2, <1>7 DEF Coalesced
  <2> QED BY <1>7, <2>1
<1>11. AllocatedIn(w, top, B) = AllocatedIn(m, top, B) \ {bp}
  BY <1>6, <1>7 DEF AllocatedIn, Inner
<1>12. SameBlocks(w, m, AllocatedIn(m, top, B) \ {bp})
  <2>1. \A a \in Words : a < bp - 4 \/ a >= e - 4 => w[a] = m[a]
    <3>1. \A a \in Words : a < bp - 4 \/ a >= e - 4 => a # bp - 4 /\ a # e - 8
      BY <1>3, <1>4
    <3> QED BY <1>5, <3>1
  <2>2. ASSUME NEW c \in B, c # bp, c # top
        PROVE  \A a \in Words : c <= a /\ a < c + (Size(m, c) - 8) => w[a] = m[a]
    <3>1. c < bp \/ c >= e
      BY <1>1, <1>2, <1>4, <2>2
    <3> QED BY <1>1, <1>4, <2>1, <2>2, <3>1, PayloadKept
  <2> QED BY <1>7, <1>8, <2>2 DEF SameBlocks, AllocatedIn, Inner
<1>12a. Keeps(w, m, AllocatedIn(m, top, B) \ {bp})
  <2>1. Written(w, m)
    BY <1>5 DEF Written, IsBlock
  <2> QED BY <1>12, <2>1 DEF Keeps
<1>13. Freed(m, bp) = coalesce(w, bp).mem
  BY DEF Freed, w
<1>14. PICK C : /\ Good(coalesce(w, bp).mem, top, C)
                /\ AllocatedIn(coalesce(w, bp).mem, top, C) = AllocatedIn(w, top, B)
                /\ Keeps(coalesce(w, bp).mem, w, AllocatedIn(w, top, B))
  BY <1>6, <1>9, <1>10, Coalescing
<1>15. Keeps(coalesce(w, bp).mem, m, AllocatedIn(m, top, B) \ {bp})
  BY <1>11, <1>12a, <1>14, KeepsTransitive
<1> QED
  BY <1>11, <1>13, <1>14, <1>15

\* A free block is allocated whole.
LEMMA PlacingWhole ==
  ASSUME NEW m, NEW top, NEW B, Good(m, top, B),
         NEW bp \in Inner(top, B), ~Allocated(m, bp),
         NEW w, DOMAIN w = Words, IsBlock(w, bp, bp + Size(m, bp), 1),
         \A a \in Words : a < bp - 4 \/ a >= (bp + Size(m, bp)) - 4 => w[a] = m[a]
  PROVE  /\ Good(w, top, B)
         /\ AllocatedIn(w, top, B) = AllocatedIn(m, top, B) \cup {bp}
         /\ Size(w, bp) = Size(m, bp)
         /\ SameBlocks(w, m, AllocatedIn(m, top, B))
<1> DEFINE e == bp + Size(m, bp)
<1>1. /\ Heap(m, top, B) /\ Coalesced(m, top, B) /\ Sixteens(m, top, B)
      /\ bp \in B /\ bp # heap_listp /\ bp # top
  BY DEF Good, Inner
<1>2. \A c \in B : /\ c \in Int /\ HDRP(c) = c - 4 /\ 8 <= c
                   /\ NEXT_BLKP(m, c) = c + Size(m, c) /\ Size(m, c) \in Int
                   /\ c # top => c + Size(m, c) \in B /\ Size(m, c) >= 8
                   /\ \A d \in B : d > c => d >= c + Size(m, c)
  BY <1>1, BlockFacts
<1>3. heap_listp = 8 /\ Size(m, bp) >= 16
  BY <1>1, EndFacts, BlockFacts
<1>4. /\ e \in B /\ e \in Int /\ bp \in Int /\ heap_listp < bp /\ bp < e
      /\ e - bp = Size(m, bp) /\ e - bp >= 16
  BY <1>1, <1>2, <1>3
<1>5. IsBlock(w, bp, e, 1) /\ \A a \in Words : a < bp - 4 \/ a >= e - 4 => w[a] = m[a]
  OBVIOUS
<1> HIDE DEF e
<1>6. /\ Heap(w, top, B) /\ Size(w, bp) = Size(m, bp) /\ Allocated(w, bp)
      /\ \A c \in B : c # bp => w[c - 4] = m[c - 4] /\ Size(w, c) = Size(m, c)
  <2> DEFINE C == {c \in B : c < bp \/ c >= e} \cup {bp}
  <2>1. Heap(m, top, B) /\ bp \in B
    BY <1>1
  <2>2. /\ Heap(w, top, C) /\ Size(w, bp) = e - bp /\ (Allocated(w, bp) <=> 1 = 1)
        /\ \A c \in B : c < bp \/ c >= e =>
              w[c - 4] = m[c - 4] /\ Size(w, c) = Size(m, c)
    BY <1>4, <1>5, <2>1, OneBlock
  <2>3. ASSUME NEW c \in B, c # bp PROVE c < bp \/ c >= e
    <3>1. c > bp => c >= bp + Size(m, bp)
      BY <1>1, <1>2
    <3>2. c \in Int /\ bp \in Int /\ Size(m, bp) \in Int
      BY <1>1, <1>2
    <3> QED BY <1>4, <2>3, <3>1, <3>2
  <2>4. C = B
    BY <1>1, <2>3
  <2> HIDE DEF C
  <2> QED BY <1>4, <2>2, <2>3, <2>4
<1>7. \A c \in B : c # bp => (Allocated(w, c) <=> Allocated(m, c))
  BY <1>2, <1>6 DEF Allocated
<1>8. \A c \in B : Size(w, c) = Size(m, c) /\ NEXT_BLKP(w, c) = NEXT_BLKP(m, c)
  BY <1>6 DEF NEXT_BLKP
<1>9. Sixteens(w, top, B)
  BY <1>1, <1>8 DEF Sixteens, Inner
<1>10. Coalesced(w, top, B)
  <2> SUFFICES ASSUME NEW c \in B, c # top, ~Allocated(w, c)
               PROVE  Allocated(w, NEXT_BLKP(m, c))
    BY <1>8 DEF Coalesced
  <2>1. c # bp
    BY <1>6
  <2>2. Allocated(m, NEXT_BLKP(m, c)) /\ NEXT_BLKP(m, c) \in B
    BY <1>1, <1>2, <1>7, <2>1 DEF Coalesced
  <2> QED BY <1>6, <1>7, <2>2
<1>11. AllocatedIn(w, top, B) = AllocatedIn(m, top, B) \cup {bp}
  BY <1>1, <1>6, <1>7 DEF AllocatedIn, Inner
<1>12. SameBlocks(w, m, AllocatedIn(m, top, B))
  <2>1. ASSUME NEW c \in B, c # bp, c # top
        PROVE  \A a \in Words : c <= a /\ a < c + (Size(m, c) - 8) => w[a] = m[a]
    <3>1. c < bp \/ c >= e
      <4>1. c < bp \/ c >= bp + Size(m, bp)
        BY <1>1, <2>1, Apart
      <4> QED BY <4>1 DEF e
    <3> QED BY <1>1, <1>4, <1>5, <2>1, <3>1, PayloadKept
  <2>2. bp \notin AllocatedIn(m, top, B)
    BY DEF AllocatedIn
  <2> QED BY <1>7, <1>8, <2>1, <2>2 DEF SameBlocks, AllocatedIn, Inner
<1> QED
  BY <1>6, <1>9, <1>10, <1>11, <1>12 DEF Good

\* A free block is split: the part up to q is allocated.
LEMMA PlacingPart ==
  ASSUME NEW m, NEW top, NEW B, Good(m, top, B),
         NEW bp \in Inner(top, B), ~Allocated(m, bp),
         NEW q \in Int, q % 8 = 0, bp + 16 <= q, q + 16 <= bp + Size(m, bp),
         (q - bp) % 16 = 0,
         NEW w, DOMAIN w = Words,
         IsBlock(w, bp, q, 1), IsBlock(w, q, bp + Size(m, bp), 0),
         \A a \in Words : a < bp - 4 \/ a >= (bp + Size(m, bp)) - 4 => w[a] = m[a]
  PROVE  /\ Good(w, top, B \cup {q})
         /\ AllocatedIn(w, top, B \cup {q}) = AllocatedIn(m, top, B) \cup {bp}
         /\ Size(w, bp) = q - bp
         /\ SameBlocks(w, m, AllocatedIn(m, top, B))
<1> DEFINE e == bp + Size(m, bp)
           C == B \cup {q}
<1>1. /\ Heap(m, top, B) /\ Coalesced(m, top, B) /\ Sixteens(m, top, B)
      /\ bp \in B /\ bp # heap_listp /\ bp # top
  BY DEF Good, Inner
<1>2. \A c \in B : /\ c \in Int /\ HDRP(c) = c - 4 /\ 8 <= c
                   /\ NEXT_BLKP(m, c) = c + Size(m, c) /\ Size(m, c) \in Int
                   /\ c # top => c + Size(m, c) \in B /\ Size(m, c) >= 8
                   /\ \A d \in B : d > c => d >= c + Size(m, c)
  BY <1>1, BlockFacts
<1>3. heap_listp = 8 /\ Size(m, bp) >= 16 /\ Size(m, bp) % 16 = 0
  BY <1>1, EndFacts, BlockFacts DEF Sixteens
<1>4. /\ e \in B /\ e \in Int /\ bp \in Int /\ heap_listp < bp /\ bp < e
      /\ e - bp = Size(m, bp) /\ bp < q /\ q < e
      /\ q - bp >= 16 /\ e - q >= 16
  BY <1>1, <1>2, <1>3
<1>5. /\ IsBlock(w, bp, q, 1) /\ IsBlock(w, q, e, 0)
      /\ \A a \in Words : a < bp - 4 \/ a >= e - 4 => w[a] = m[a]
      /\ bp % 8 = 0
  BY <1>1, BlockFacts
<1> HIDE DEF e
<1>6. HDRP(q) = q - 4 /\ HDRP(bp) = bp - 4
  BY <1>1, <1>2 DEF HDRP, WSIZE
<1>7. /\ Size(w, bp) = q - bp /\ Allocated(w, bp)
      /\ Size(w, q) = e - q /\ ~Allocated(w, q)
  BY <1>5, <1>6 DEF IsBlock, Size, Allocated
<1>8. ASSUME NEW c \in B, c # bp PROVE c < bp \/ c >= e
  <2>1. c > bp => c >= bp + Size(m, bp)
    BY <1>1, <1>2
  <2> QED BY <1>2, <1>4, <1>8, <2>1
<1>9. q \notin B
  BY <1>4, <1>8
<1>10. /\ Heap(w, top, C)
       /\ \A c \in B : c # bp => w[c - 4] = m[c - 4] /\ Size(w, c) = Size(m, c)
  <2> DEFINE N == {bp, q}
             D == {c \in B : c < bp \/ c >= e} \cup N
  <2>1. /\ bp \in N
        /\ \A n \in N : /\ n \in Int /\ n % 8 = 0 /\ bp <= n /\ n < e
                        /\ w[n - 4] \in Nat /\ Size(w, n) >= 16
                        /\ w[n + Size(w, n) - 8] = w[n - 4]
                        /\ n + Size(w, n) \in N \cup {e}
                        /\ \A c \in N : c > n => c >= n + Size(w, n)
    <3>1. bp + Size(w, bp) = q /\ bp + (Size(w, bp) - 8) = q - 8
      BY <1>4, <1>7
    <3>2. q + Size(w, q) = e /\ q + (Size(w, q) - 8) = e - 8
      BY <1>4, <1>7
    <3>3. /\ w[bp - 4] \in Nat /\ w[q - 8] = w[bp - 4]
          /\ w[q - 4] \in Nat /\ w[e - 8] = w[q - 4]
      BY <1>5 DEF IsBlock
    <3>4. Size(w, bp) >= 16 /\ Size(w, q) >= 16
      BY <1>4, <1>7
    <3> QED BY <1>4, <1>5, <3>1, <3>2, <3>3, <3>4
  <2>2. /\ Heap(m, top, B) /\ bp \in B /\ e \in B /\ heap_listp < bp /\ bp < e
        /\ \A a \in Words : a < bp - 4 \/ a >= e - 4 => w[a] = m[a]
    BY <1>1, <1>4, <1>5
  <2>3. /\ Heap(w, top, D)
        /\ \A c \in B : c < bp \/ c >= e =>
              w[c - 4] = m[c - 4] /\ Size(w, c) = Size(m, c)
    <3> HIDE DEF N
    <3> QED BY <2>1, <2>2, Retile
  <2>4. D = C
    BY <1>1, <1>8
  <2> HIDE DEF C, D
  <2> QED BY <1>8, <2>3, <2>4
<1>11. \A c \in B : c # bp => (Allocated(w, c) <=> Allocated(m, c))
  BY <1>2, <1>10 DEF Allocated
<1>12. \A c \in C : NEXT_BLKP(w, c) = c + Size(w, c)
  BY DEF NEXT_BLKP
<1>13. Sixteens(w, top, C)
  <2>1. (e - q) % 16 = 0
    <3>1. e - q = Size(m, bp) - (q - bp)
      BY <1>4
    <3>2. \A a, b \in Int : a % 16 = 0 /\ b % 16 = 0 => (a - b) % 16 = 0
      BY Z3T(20)
    <3> QED BY <1>1, <1>2, <1>3, <1>4, <3>1, <3>2
  <2> QED BY <1>1, <1>7, <1>10, <2>1 DEF Sixteens, Inner
<1>14. Coalesced(w, top, C)
  <2> SUFFICES ASSUME NEW c \in C, c # top, ~Allocated(w, c)
               PROVE  Allocated(w, c + Size(w, c))
    BY <1>12 DEF Coalesced
  <2>1. CASE c = q
    <3>1. c + Size(w, c) = e /\ e # bp
      BY <1>4, <1>7, <2>1
    <3>2. Allocated(m, e)
      <4>1. NEXT_BLKP(m, bp) = e
        BY <1>1, <1>2 DEF e
      <4> QED BY <1>1, <4>1 DEF Coalesced
    <3> QED BY <1>4, <1>11, <3>1, <3>2
  <2>2. CASE c # q
    <3>1. c \in B /\ c # bp
      BY <1>7, <2>2
    <3>2. /\ Allocated(m, c + Size(m, c)) /\ c + Size(m, c) \in B
          /\ Size(w, c) = Size(m, c)
      BY <1>1, <1>2, <1>10, <1>11, <3>1 DEF Coalesced
    <3> QED BY <1>7, <1>11, <3>2
  <2> QED BY <2>1, <2>2
<1>15. AllocatedIn(w, top, C) = AllocatedIn(m, top, B) \cup {bp}
  BY <1>1, <1>7, <1>11 DEF AllocatedIn, Inner
<1>16. SameBlocks(w, m, AllocatedIn(m, top, B))
  <2>1. ASSUME NEW c \in B, c # bp, c # top
        PROVE  \A a \in Words : c <= a /\ a < c + (Size(m, c) - 8) => w[a] = m[a]
    <3>1. c < bp \/ c >= e
      <4>1. c < bp \/ c >= bp + Size(m, bp)
        BY <1>1, <2>1, Apart
      <4> QED BY <4>1 DEF e
    <3>2. \A a \in Words : a < bp - 4 \/ a >= e - 4 => w[a] = m[a]
      BY DEF e
    <3> QED BY <1>1, <1>4, <2>1, <3>1, <3>2, PayloadKept
  <2>2. bp \notin AllocatedIn(m, top, B)
    BY DEF AllocatedIn
  <2> QED BY <1>10, <1>11, <2>1, <2>2 DEF SameBlocks, AllocatedIn, Inner
<1> QED
  BY <1>7, <1>10, <1>13, <1>14, <1>15, <1>16 DEF Good

\* place: the rest of a block is either nothing or a block of its own.
LEMMA Placing ==
  ASSUME NEW m, NEW top, NEW B, Good(m, top, B),
         NEW bp \in Inner(top, B), ~Allocated(m, bp),
         NEW asize \in Int, asize % 16 = 0, 16 <= asize, asize <= Size(m, bp)
  PROVE  LET w == place(m, bp, asize)
         IN  \E C : /\ Good(w, top, C)
                    /\ AllocatedIn(w, top, C) = AllocatedIn(m, top, B) \cup {bp}
                    /\ Size(w, bp) = asize
                    /\ SameBlocks(w, m, AllocatedIn(m, top, B))
<1> DEFINE size == Size(m, bp)
           e == bp + size
           q == bp + asize
           t == Tag(m, bp, asize, 1)
           w == place(m, bp, asize)
<1>1. /\ Heap(m, top, B) /\ Sixteens(m, top, B) /\ DOMAIN m = Words
      /\ bp \in B /\ bp # heap_listp /\ bp # top
  BY DEF Good, Inner, Heap
<1>2. /\ bp \in Int /\ bp % 8 = 0 /\ 8 <= bp /\ size \in Int /\ size >= 16 /\ size % 16 = 0
      /\ e \in B /\ size % 8 = 0
  BY <1>1, BlockFacts DEF Sixteens
<1>3. e \in Int /\ e <= MAX_HEAP /\ e % 8 = 0 /\ MAX_HEAP \in Int
  <2>1. e \in Int /\ e <= top /\ e % 8 = 0
    BY <1>1, <1>2, BlockFacts
  <2>2. top \in Int /\ top <= MAX_HEAP /\ MAX_HEAP \in Int
    BY <1>1, EndFacts, MemoryFacts
  <2> QED BY <2>1, <2>2
<1>4. asize % 8 = 0
  BY Z3T(20)
<1>5. q \in Int /\ q % 8 = 0 /\ q - bp = asize /\ bp < q /\ q <= e /\ e - q = size - asize
  <2>1. q \in Int /\ q % 8 = 0
    <3>1. \A a, b \in Int : a % 8 = 0 /\ b % 8 = 0 => (a + b) % 8 = 0
      BY SumAligned
    <3>2. q \in Int
      BY <1>2
    <3> QED BY <1>2, <1>4, <3>1, <3>2, Zenon
  <2>2. asize <= size
    OBVIOUS
  <2>3. q - bp = asize /\ bp < q /\ q <= e /\ e - q = size - asize
    <3> HIDE DEF size
    <3> QED BY <1>2, <2>2
  <2> QED BY <2>1, <2>3
<1>6. size - asize = 0 \/ size - asize >= 16
  <2>1. \A a, b \in Int : a % 16 = 0 /\ b % 16 = 0 /\ b <= a => a - b = 0 \/ a - b >= 16
    BY Z3T(20)
  <2> QED BY <1>2, <2>1
<1>7. w = IF size - asize >= 16 THEN Tag(t, q, e - q, 0) ELSE t
  BY <1>5 DEF place, ALIGNMENT
<1>8. Words \subseteq Int
  BY MemoryFacts DEF Words, WSIZE
<1> HIDE DEF size, e, q, t, w
<1>9. /\ DOMAIN t = Words /\ IsBlock(t, bp, q, 1)
      /\ \A a \in Words : a # bp - 4 /\ a # q - 8 => t[a] = m[a]
  <2>1. t = Tag(m, bp, q - bp, 1)
    BY <1>5 DEF t
  <2>3. q <= MAX_HEAP
    BY <1>3, <1>5
  <2>2. /\ DOMAIN m = Words /\ bp \in Int /\ q \in Int /\ bp % 8 = 0 /\ q % 8 = 0
        /\ 8 <= bp /\ bp < q /\ q <= MAX_HEAP /\ 1 \in {0, 1}
    BY <1>1, <1>2, <1>5, <2>3
  <2>4. LET v == Tag(m, bp, q - bp, 1)
        IN  /\ DOMAIN v = Words /\ IsBlock(v, bp, q, 1)
            /\ \A a \in Words : a # bp - 4 /\ a # q - 8 => v[a] = m[a]
    BY <2>2, TagMakesBlock
  <2> QED BY <2>1, <2>4
<1>10. CASE size - asize = 0
  <2>1. q = e /\ w = t /\ e = bp + Size(m, bp)
    BY <1>3, <1>5, <1>7, <1>10 DEF e, size
  <2>2. ASSUME NEW a \in Words, a < bp - 4 \/ a >= e - 4
        PROVE  w[a] = m[a]
    <3>1. a # bp - 4 /\ a # q - 8
      BY <1>2, <1>3, <1>5, <1>8, <2>1, <2>2
    <3> QED BY <1>9, <2>1, <3>1
  <2>3. /\ Good(w, top, B)
        /\ AllocatedIn(w, top, B) = AllocatedIn(m, top, B) \cup {bp}
        /\ Size(w, bp) = Size(m, bp)
        /\ SameBlocks(w, m, AllocatedIn(m, top, B))
    BY <1>9, <2>1, <2>2, PlacingWhole
  <2>4. Size(m, bp) = asize
    BY <1>2, <1>10 DEF size
  <2> QED BY <2>3, <2>4 DEF w
<1>11. CASE size - asize >= 16
  <2>1. w = Tag(t, q, e - q, 0) /\ e = bp + Size(m, bp) /\ q < e /\ 8 <= q
        /\ bp + 16 <= q /\ q + 16 <= e
    BY <1>2, <1>3, <1>5, <1>7, <1>11 DEF e, size
  <2>2. /\ DOMAIN w = Words /\ IsBlock(w, q, e, 0)
        /\ \A a \in Words : a # q - 4 /\ a # e - 8 => w[a] = t[a]
    <3>1. /\ DOMAIN t = Words /\ q \in Int /\ e \in Int /\ q % 8 = 0 /\ e % 8 = 0
          /\ 8 <= q /\ q < e /\ e <= MAX_HEAP /\ 0 \in {0, 1}
      BY <1>3, <1>5, <1>9, <2>1
    <3> QED BY <2>1, <3>1, TagMakesBlock
  <2>3. IsBlock(w, bp, q, 1)
    <3>1. bp - 4 \in Words /\ q - 8 \in Words
      BY <1>2, <1>3, <1>5, <2>1, AlignedWords
    <3>2. /\ bp - 4 # q - 4 /\ bp - 4 # e - 8
          /\ q - 8 # q - 4 /\ q - 8 # e - 8
      BY <1>2, <1>3, <1>5, <2>1
    <3>3. w[bp - 4] = t[bp - 4] /\ w[q - 8] = t[q - 8]
      BY <2>2, <3>1, <3>2
    <3> QED BY <1>9, <3>3 DEF IsBlock
  <2>4. ASSUME NEW a \in Words, a < bp - 4 \/ a >= e - 4
        PROVE  w[a] = m[a]
    <3>1. a # bp - 4 /\ a # q - 8 /\ a # q - 4 /\ a # e - 8
      BY <1>2, <1>3, <1>5, <1>8, <2>1, <2>4
    <3> QED BY <1>9, <2>2, <3>1
  <2>5. (q - bp) % 16 = 0
    BY <1>5
  <2>6. /\ Good(w, top, B \cup {q})
        /\ AllocatedIn(w, top, B \cup {q}) = AllocatedIn(m, top, B) \cup {bp}
        /\ Size(w, bp) = q - bp
        /\ SameBlocks(w, m, AllocatedIn(m, top, B))
    <3>1. q \in Int /\ q % 8 = 0 /\ bp + 16 <= q /\ q + 16 <= bp + Size(m, bp)
      BY <1>5, <2>1
    <3>2. IsBlock(w, q, bp + Size(m, bp), 0) /\ DOMAIN w = Words
      BY <2>1, <2>2
    <3>3. \A a \in Words : a < bp - 4 \/ a >= (bp + Size(m, bp)) - 4 => w[a] = m[a]
      BY <2>1, <2>4
    <3> QED BY <2>3, <2>5, <3>1, <3>2, <3>3, PlacingPart
  <2> QED BY <1>5, <2>6 DEF w
<1> QED
  BY <1>6, <1>10, <1>11

\* extend_heap, where the heap has room to grow.
LEMMA Growing ==
  ASSUME NEW m, NEW top, NEW B, Good(m, top, B),
         NEW size \in Int, size % 16 = 0, size >= 16, top + size <= MAX_HEAP
  PROVE  LET r == Extended(m, top, size)
         IN  \E C : /\ Good(r.mem, top + size, C)
                    /\ r.bp \in Inner(top + size, C) /\ ~Allocated(r.mem, r.bp)
                    /\ Size(r.mem, r.bp) >= size
                    /\ r.bp <= top /\ top < r.bp + Size(r.mem, r.bp)
                    /\ AllocatedIn(r.mem, top + size, C) = AllocatedIn(m, top, B)
                    /\ Keeps(r.mem, m, AllocatedIn(m, top, B))
<1> DEFINE end == top + size
           t == Tag(m, top, size, 0)
           w == Epilogue(t, end)
           C == B \cup {end}
<1>1. /\ Heap(m, top, B) /\ Coalesced(m, top, B) /\ Sixteens(m, top, B) /\ DOMAIN m = Words
  BY DEF Good, Heap
<1>2. \A c \in B : /\ c \in Int /\ HDRP(c) = c - 4 /\ 8 <= c /\ c <= top /\ c % 8 = 0
                   /\ m[c - 4] \in Nat /\ c - 4 \in Words
                   /\ NEXT_BLKP(m, c) = c + Size(m, c) /\ Size(m, c) \in Int
                   /\ c # top => /\ c + Size(m, c) \in B /\ Size(m, c) >= 8
                                 /\ m[c + (Size(m, c) - 8)] = m[c - 4]
                                 /\ c + (Size(m, c) - 8) \in Words
                                 /\ c # heap_listp => Size(m, c) >= 16
                   /\ \A d \in B : d > c => d >= c + Size(m, c)
  BY <1>1, BlockFacts
<1>3. /\ top \in Int /\ top % 8 = 0 /\ 16 <= top /\ top \in B
      /\ heap_listp = 8 /\ heap_listp \in B /\ m[4] = PACK(8, 1)
      /\ MAX_HEAP \in Nat /\ Words \subseteq Int
  BY <1>1, EndFacts, MemoryFacts DEF Words, WSIZE
<1>4. size % 8 = 0
  BY Z3T(20)
<1>5. /\ end \in Int /\ end - top = size /\ top + 16 <= end /\ end <= MAX_HEAP
      /\ end % 8 = 0
  <2>1. \A a, b \in Int : a % 8 = 0 /\ b % 8 = 0 => (a + b) % 8 = 0
    BY SumAligned
  <2>2. end \in Int
    BY <1>3
  <2>3. end % 8 = 0
    BY <1>3, <1>4, <2>1, Zenon
  <2> QED BY <1>3, <2>2, <2>3
<1>6. /\ DOMAIN t = Words /\ IsBlock(t, top, end, 0)
      /\ \A a \in Words : a # top - 4 /\ a # end - 8 => t[a] = m[a]
  <2>1. t = Tag(m, top, end - top, 0)
    BY <1>5
  <2>2. /\ top \in Int /\ end \in Int /\ top % 8 = 0 /\ end % 8 = 0
        /\ 8 <= top /\ top < end /\ end <= MAX_HEAP
    <3> HIDE DEF end
    <3> QED BY <1>3, <1>5
  <2> HIDE DEF end, t
  <2>3. LET v == Tag(m, top, end - top, 0)
        IN  /\ DOMAIN v = Words /\ IsBlock(v, top, end, 0)
            /\ \A a \in Words : a # top - 4 /\ a # end - 8 => v[a] = m[a]
    BY <1>1, <2>2, TagMakesBlock
  <2> QED BY <2>1, <2>3
<1>7. /\ DOMAIN w = Words /\ w[end - 4] = PACK(0, 1)
      /\ \A a \in Words : a # end - 4 => w[a] = t[a]
  <2> HIDE DEF end, t
  <2>1. end - 4 \in Words
    BY <1>3, <1>5, AlignedWords
  <2> QED BY <1>6, <2>1 DEF Epilogue, HDRP, WSIZE
<1> HIDE DEF end, t, w
<1>8. /\ IsBlock(w, top, end, 0)
      /\ \A a \in Words : a < top - 4 => w[a] = m[a]
  <2>1. top - 4 \in Words /\ end - 8 \in Words
    BY <1>3, <1>5, AlignedWords
  <2>2. w[top - 4] = t[top - 4] /\ w[end - 8] = t[end - 8]
    BY <1>3, <1>5, <1>7, <2>1
  <2>3. ASSUME NEW a \in Words, a < top - 4 PROVE w[a] = m[a]
    <3>1. a \in Int /\ a # top - 4 /\ a # end - 8 /\ a # end - 4
      BY <1>3, <1>5, <2>3
    <3> QED BY <1>6, <1>7, <3>1
  <2> QED BY <1>6, <2>2, <2>3 DEF IsBlock
<1>9. ASSUME NEW c \in B, c # top
      PROVE  /\ w[c - 4] = m[c - 4] /\ Size(w, c) = Size(m, c)
             /\ (Allocated(w, c) <=> Allocated(m, c))
             /\ w[c + (Size(m, c) - 8)] = w[c - 4]
  <2>1. /\ c + Size(m, c) <= top /\ c - 4 \in Words /\ c + (Size(m, c) - 8) \in Words
        /\ c \in Int /\ Size(m, c) \in Int /\ Size(m, c) >= 8 /\ HDRP(c) = c - 4
        /\ m[c + (Size(m, c) - 8)] = m[c - 4]
    BY <1>2, <1>9
  <2>2. c - 4 < top - 4 /\ c + (Size(m, c) - 8) < top - 4
    BY <1>3, <2>1
  <2>3. w[c - 4] = m[c - 4] /\ w[c + (Size(m, c) - 8)] = m[c + (Size(m, c) - 8)]
    BY <1>8, <2>1, <2>2
  <2> QED BY <2>1, <2>3 DEF Size, Allocated
<1>10. /\ w[top - 4] \in Nat /\ w[end - 8] = w[top - 4]
       /\ Size(w, top) = size /\ ~Allocated(w, top)
       /\ top + (Size(w, top) - 8) = end - 8 /\ top + Size(w, top) = end
  <2>1. HDRP(top) = top - 4
    BY <1>2, <1>3
  <2>2. /\ w[top - 4] \in Nat /\ w[end - 8] = w[top - 4]
        /\ Size(w, top) = size /\ ~Allocated(w, top)
    BY <1>5, <1>8, <2>1 DEF IsBlock, Size, Allocated
  <2> QED BY <1>3, <1>5, <2>2
<1>11. PACK(0, 1) \in Nat
  BY PackFacts
<1>12. Heap(w, end, C)
  <2>1. \A c \in C : /\ c \in Int /\ 8 <= c /\ c <= end /\ c % 8 = 0 /\ w[c - 4] \in Nat
    BY <1>2, <1>3, <1>5, <1>7, <1>9, <1>10, <1>11
  <2>2. ASSUME NEW c \in C, c # end
        PROVE  /\ Size(w, c) > 0 /\ w[c + (Size(w, c) - 8)] = w[c - 4]
               /\ c # heap_listp => Size(w, c) >= 16
               /\ c + Size(w, c) \in C
               /\ \A d \in C : d > c => d >= c + Size(w, c)
    <3>1. CASE c = top
      <4>1. \A d \in C : d > c => d = end
        BY <1>2, <1>3, <1>5, <3>1
      <4> QED BY <1>5, <1>10, <3>1, <4>1
    <3>2. CASE c # top
      <4>1. /\ c \in B /\ Size(w, c) = Size(m, c) /\ Size(m, c) >= 8 /\ Size(m, c) \in Int
            /\ w[c + (Size(m, c) - 8)] = w[c - 4] /\ c + Size(m, c) \in B
            /\ c # heap_listp => Size(m, c) >= 16
        BY <1>2, <1>9, <2>2, <3>2
      <4>2. ASSUME NEW d \in C, d > c PROVE d >= c + Size(m, c)
        BY <1>2, <1>3, <1>5, <4>1, <4>2
      <4> QED BY <4>1, <4>2
    <3> QED BY <3>1, <3>2
  <2>3. /\ {heap_listp, end} \subseteq C /\ end \in Addresses
        /\ w[end - 4] = PACK(0, 1) /\ w[heap_listp - 4] = PACK(8, 1)
    <3>1. heap_listp # top /\ heap_listp - 4 = 4
      BY <1>3
    <3>2. w[heap_listp - 4] = m[heap_listp - 4]
      BY <1>3, <1>9, <3>1
    <3>3. end \in Addresses
      BY <1>3, <1>5 DEF Addresses, ALIGNMENT
    <3> QED BY <1>3, <1>7, <3>1, <3>2, <3>3
  <2> HIDE DEF C
  <2> QED
    BY <1>3, <1>5, <1>7, <2>1, <2>2, <2>3
       DEF Heap, Tiled, HDRP, WSIZE, ALIGNMENT, NEXT_BLKP, FTRP
<1>13. end \notin B /\ \A c \in C : c # end => c \in B
  BY <1>2, <1>3, <1>5
<1>14. Sixteens(w, end, C)
  <2> SUFFICES ASSUME NEW c \in B, c # heap_listp PROVE Size(w, c) % 16 = 0
    BY <1>13 DEF Sixteens, Inner
  <2> QED BY <1>1, <1>9, <1>10 DEF Sixteens, Inner
<1>15. CoalescedBut(w, end, C, top)
  <2> SUFFICES ASSUME NEW c \in B, c # top, ~Allocated(w, c)
               PROVE  Allocated(w, NEXT_BLKP(w, c)) \/ NEXT_BLKP(w, c) = top
    BY <1>13 DEF CoalescedBut
  <2>1. NEXT_BLKP(w, c) = NEXT_BLKP(m, c) /\ NEXT_BLKP(m, c) \in B
    BY <1>2, <1>9 DEF NEXT_BLKP
  <2>2. Allocated(m, NEXT_BLKP(m, c))
    BY <1>1, <1>9 DEF Coalesced
  <2> QED BY <1>9, <2>1, <2>2
<1>16. AllocatedIn(w, end, C) = AllocatedIn(m, top, B)
  BY <1>9, <1>10, <1>13 DEF AllocatedIn, Inner
<1>17. SameBlocks(w, m, AllocatedIn(m, top, B))
  <2>1. ASSUME NEW c \in B, c # top
        PROVE  \A a \in Words : c <= a /\ a < c + (Size(m, c) - 8) => w[a] = m[a]
    <3>1. c + Size(m, c) <= top /\ c \in Int /\ Size(m, c) \in Int
      BY <1>2, <1>3, <2>1
    <3>2. \A a \in Words : a < c + (Size(m, c) - 8) => a < top - 4
      BY <1>3, <3>1
    <3> QED BY <1>8, <3>2
  <2> QED BY <1>9, <2>1 DEF SameBlocks, AllocatedIn, Inner
<1>17a. Keeps(w, m, AllocatedIn(m, top, B))
  <2>1. PACK(0, 1) \in Nat
    BY <1>11
  <2>2. Written(w, m)
    BY <1>6, <1>7, <2>1 DEF Written, IsBlock
  <2> QED BY <1>17, <2>2 DEF Keeps
<1>18. top \in Inner(end, C)
  BY <1>3, <1>5 DEF Inner
<1>19. Extended(m, top, size) = coalesce(w, top)
  BY DEF Extended, w, t, end
<1> DEFINE r == coalesce(w, top)
<1>20. PICK D : /\ Good(r.mem, end, D)
                /\ r.bp \in Inner(end, D) /\ ~Allocated(r.mem, r.bp)
                /\ Size(r.mem, r.bp) >= Size(w, top)
                /\ r.bp <= top /\ top < r.bp + Size(r.mem, r.bp)
                /\ AllocatedIn(r.mem, end, D) = AllocatedIn(w, end, C)
                /\ Keeps(r.mem, w, AllocatedIn(w, end, C))
  BY <1>10, <1>12, <1>14, <1>15, <1>18, Coalescing
<1>21. Keeps(r.mem, m, AllocatedIn(m, top, B))
  BY <1>16, <1>17a, <1>20, KeepsTransitive
<1> QED
  BY <1>10, <1>16, <1>19, <1>20, <1>21 DEF end

\* What a user writes into a block leaves the heap as it is.
LEMMA Writing ==
  ASSUME NEW m, NEW top, NEW B, Good(m, top, B),
         NEW p \in AllocatedIn(m, top, B),
         NEW n \in Int, n + 8 <= Size(m, p),
         NEW w, DOMAIN w = Words,
         \A a \in Words : a < p \/ a >= p + n => w[a] = m[a]
  PROVE  /\ Good(w, top, B)
         /\ AllocatedIn(w, top, B) = AllocatedIn(m, top, B)
         /\ Size(w, p) = Size(m, p)
         /\ SameBlocks(w, m, AllocatedIn(m, top, B) \ {p})
<1> DEFINE e == p + Size(m, p)
<1>1. /\ Heap(m, top, B) /\ Coalesced(m, top, B) /\ Sixteens(m, top, B)
      /\ p \in B /\ p # heap_listp /\ p # top /\ Allocated(m, p)
  BY DEF Good, AllocatedIn, Inner
<1>2. \A c \in B : /\ c \in Int /\ HDRP(c) = c - 4 /\ 8 <= c
                   /\ NEXT_BLKP(m, c) = c + Size(m, c) /\ Size(m, c) \in Int
                   /\ c # top => c + Size(m, c) \in B
                   /\ \A d \in B : d > c => d >= c + Size(m, c)
  BY <1>1, BlockFacts
<1>3. /\ heap_listp = 8 /\ Size(m, p) >= 16 /\ p - 4 \in Words
      /\ p + (Size(m, p) - 8) \in Words
      /\ m[p + (Size(m, p) - 8)] = m[p - 4] /\ m[p - 4] \in Nat
  BY <1>1, EndFacts, BlockFacts
<1>4. /\ e \in B /\ e \in Int /\ p \in Int /\ heap_listp < p /\ p < e
      /\ e - p = Size(m, p) /\ e - p >= 16 /\ p + n <= e - 8
      /\ p + (Size(m, p) - 8) = e - 8
  BY <1>1, <1>2, <1>3
<1> HIDE DEF e
<1>5. Words \subseteq Int
  BY MemoryFacts DEF Words, WSIZE
<1>6. w[p - 4] = m[p - 4] /\ w[e - 8] = m[e - 8]
  BY <1>3, <1>4
<1>7. IsBlock(w, p, e, 1)
  BY <1>1, <1>2, <1>3, <1>4, <1>6 DEF IsBlock, Size, Allocated
<1>8. ASSUME NEW a \in Words, a < p - 4 \/ a >= e - 4 PROVE w[a] = m[a]
  <2>1. a < p \/ a >= p + n
    BY <1>4, <1>5, <1>8
  <2> QED BY <2>1
<1>9. Heap(w, top, B) /\ \A c \in B : w[c - 4] = m[c - 4]
  <2> DEFINE C == {c \in B : c < p \/ c >= e} \cup {p}
  <2>1. Heap(m, top, B) /\ p \in B
    BY <1>1
  <2>2. /\ Heap(w, top, C)
        /\ \A c \in B : c < p \/ c >= e => w[c - 4] = m[c - 4]
    BY <1>4, <1>7, <1>8, <2>1, OneBlock
  <2>3. ASSUME NEW c \in B, c # p PROVE c < p \/ c >= e
    <3>1. c > p => c >= p + Size(m, p)
      BY <1>1, <1>2
    <3>2. c \in Int /\ p \in Int /\ Size(m, p) \in Int
      BY <1>1, <1>2
    <3> QED BY <1>4, <2>3, <3>1, <3>2
  <2>4. C = B
    BY <1>1, <2>3
  <2> HIDE DEF C
  <2> QED BY <1>6, <2>2, <2>3, <2>4
<1>10. \A c \in B : /\ Size(w, c) = Size(m, c)
                    /\ Allocated(w, c) <=> Allocated(m, c)
                    /\ NEXT_BLKP(w, c) = NEXT_BLKP(m, c)
  BY <1>2, <1>9 DEF Size, Allocated, NEXT_BLKP
<1>11. Sixteens(w, top, B)
  BY <1>1, <1>10 DEF Sixteens, Inner
<1>12. Coalesced(w, top, B)
  <2> SUFFICES ASSUME NEW c \in B, c # top, ~Allocated(m, c)
               PROVE  Allocated(w, NEXT_BLKP(m, c))
    BY <1>10 DEF Coalesced
  <2>1. Allocated(m, NEXT_BLKP(m, c)) /\ NEXT_BLKP(m, c) \in B
    BY <1>1, <1>2 DEF Coalesced
  <2> QED BY <1>10, <2>1
<1>13. AllocatedIn(w, top, B) = AllocatedIn(m, top, B)
  BY <1>10 DEF AllocatedIn, Inner
<1>14. SameBlocks(w, m, AllocatedIn(m, top, B) \ {p})
  <2>1. ASSUME NEW c \in B, c # p, c # top
        PROVE  \A a \in Words : c <= a /\ a < c + (Size(m, c) - 8) => w[a] = m[a]
    <3>1. c < p \/ c >= e
      <4>1. c < p \/ c >= p + Size(m, p)
        BY <1>1, <2>1, Apart
      <4> QED BY <4>1 DEF e
    <3> QED BY <1>1, <1>4, <1>8, <2>1, <3>1, PayloadKept
  <2> QED BY <1>10, <2>1 DEF SameBlocks, AllocatedIn, Inner
<1> QED
  BY <1>1, <1>9, <1>10, <1>11, <1>12, <1>13, <1>14 DEF Good

\* mem_reset_brk and mm_init, over any memory.
LEMMA Initialising ==
  ASSUME NEW m, DOMAIN m = Words, CHUNKSIZE % 16 = 0
  PROVE  /\ \E C : Good(Initialised(m), InitialBrk, C) /\ AllocatedIn(Initialised(m), InitialBrk, C) = {}
         /\ Written(Initialised(m), m)
<1> DEFINE t == Tag(m, 8, 8, 1)
           b == [t EXCEPT ![0] = 0]
           w == Epilogue(b, 16)
           B == {8, 16}
<1>1. /\ {0, 4, 8, 12} \subseteq Words /\ 16 \in Addresses
      /\ CHUNKSIZE \in Int /\ CHUNKSIZE >= 16 /\ 16 + CHUNKSIZE <= MAX_HEAP
  <2>1. MAX_HEAP \in Nat /\ MAX_HEAP >= 32
    BY MemoryFacts
  <2>2. {0, 4, 8, 12} \subseteq Words
    BY <2>1, Z3T(20) DEF Words, WSIZE
  <2>3. 16 \in Addresses
    BY <2>1, Z3T(20) DEF Addresses, ALIGNMENT
  <2> QED BY <2>2, <2>3, MemoryFacts
<1>2. /\ DOMAIN t = Words /\ t[4] = PACK(8, 1) /\ t[8] = PACK(8, 1)
      /\ \A a \in Words : t[a] = m[a] \/ t[a] = PACK(8, 1)
  BY <1>1 DEF Tag, HDRP, WSIZE, ALIGNMENT
<1> HIDE DEF t
<1>3. /\ DOMAIN b = Words /\ b[4] = PACK(8, 1) /\ b[8] = PACK(8, 1)
      /\ \A a \in Words : b[a] = t[a] \/ b[a] = 0
  BY <1>1, <1>2
<1> HIDE DEF b
<1>4. /\ DOMAIN w = Words /\ w[4] = PACK(8, 1) /\ w[8] = PACK(8, 1) /\ w[12] = PACK(0, 1)
      /\ \A a \in Words : w[a] = b[a] \/ w[a] = PACK(0, 1)
  BY <1>1, <1>3 DEF Epilogue, HDRP, WSIZE
<1> HIDE DEF w
<1>5. /\ PACK(8, 1) \in Nat /\ PACK(0, 1) \in Nat
      /\ SizeOf(PACK(8, 1)) = 8 /\ AllocOf(PACK(8, 1)) = 1
  BY PackFacts
<1>5a. Written(w, m)
  BY <1>2, <1>3, <1>4, <1>5 DEF Written
<1>6. Size(w, 8) = 8 /\ Allocated(w, 8) /\ heap_listp = 8
  BY <1>4, <1>5 DEF Size, Allocated, HDRP, WSIZE, heap_listp
<1>7. Heap(w, 16, B)
  BY <1>1, <1>4, <1>5, <1>6
     DEF Heap, Tiled, HDRP, WSIZE, ALIGNMENT, NEXT_BLKP, FTRP
<1>8. Coalesced(w, 16, B) /\ Sixteens(w, 16, B) /\ AllocatedIn(w, 16, B) = {}
  BY <1>6 DEF Coalesced, Sixteens, AllocatedIn, Inner
<1>9. Good(w, 16, B)
  BY <1>7, <1>8 DEF Good
<1>10. Initialised(m) = Extended(w, 16, CHUNKSIZE).mem /\ InitialBrk = 16 + CHUNKSIZE
  BY DEF Initialised, InitialBrk, w, b, t, heap_listp, WSIZE, ALIGNMENT
<1> HIDE DEF B
<1>11. LET r == Extended(w, 16, CHUNKSIZE)
       IN  \E C : /\ Good(r.mem, 16 + CHUNKSIZE, C)
                  /\ r.bp \in Inner(16 + CHUNKSIZE, C) /\ ~Allocated(r.mem, r.bp)
                  /\ Size(r.mem, r.bp) >= CHUNKSIZE
                  /\ AllocatedIn(r.mem, 16 + CHUNKSIZE, C) = AllocatedIn(w, 16, B)
                  /\ Keeps(r.mem, w, AllocatedIn(w, 16, B))
  BY <1>1, <1>9, Growing
<1>12. Written(Initialised(m), m)
  <2>1. Written(Initialised(m), w)
    BY <1>10, <1>11 DEF Keeps
  <2> QED BY <1>5a, <2>1 DEF Written
<1> QED
  BY <1>8, <1>10, <1>11, <1>12

-----------------------------------------------------------------------------
(* The heap and its client.                                                *)

\* The blocks of the trace, and the block that is about to become one.
Owned  == {blocks[i].lo : i \in DOMAIN blocks}
Handed == IF call.at = "done" THEN {call.bp} \ {NULL} ELSE {}

FitsIn(m, bp, asize) == Size(m, bp) >= asize /\ ~Allocated(m, bp)

\* What find_fit knows when it has come to call.bp, or has found nothing, and
\* what a block that is handed out is large enough for.
SearchState(m, B) ==
    /\ call \in [at : {"idle", "fit", "done"}, asize : Nat, bp : Int]
    /\ call.at = "fit" =>
          /\ call.asize % 16 = 0 /\ call.asize >= 16 /\ call.asize >= op.size + 8
          /\ call.bp \in B
          /\ \A c \in B : c < call.bp => ~FitsIn(m, c, call.asize)
    /\ call.at = "done" =>
          IF call.bp = NULL THEN \A c \in B : ~FitsIn(m, c, call.asize)
          ELSE Size(m, call.bp) >= op.size + 8

\* The request being served allocates a new index or moves a live one.
Sensible ==
    call.at # "idle" =>
        /\ op.size \in Nat
        /\ \/ op.type = "ALLOC" /\ op.index \notin DOMAIN blocks
           \/ op.type = "REALLOC" /\ op.index \in DOMAIN blocks

\* B is the set of blocks of a good heap, and each one that is allocated has
\* exactly one owner.
HeapState(B) ==
    /\ Good(mem, brk, B)
    /\ AllocatedIn(mem, brk, B) = Owned \cup Handed
    /\ Handed \cap Owned = {}
    /\ \A i, j \in DOMAIN blocks : blocks[i].lo = blocks[j].lo => i = j
    /\ SearchState(mem, B)

HeapInv ==
    /\ DOMAIN mem = Words
    /\ error # "none" => call = Idle
    /\ error = "none" => Sensible /\ \E B : HeapState(B)

\* Every request becomes a block of a multiple of 16 bytes, so that no split
\* ever leaves the 8 bytes that get no tag (mm.c:218-226).
NoScraps ==
    /\ CHUNKSIZE % 16 = 0
    /\ \A size \in Requests : BlockSize(size) % 16 = 0

LEMMA IdleFacts == Idle.at = "idle" /\ Idle \in [at : {"idle", "fit", "done"}, asize : Nat, bp : Int]
BY DEF Idle, NULL

LEMMA NullIsNoBlock ==
  ASSUME NEW m, NEW top, NEW B, Good(m, top, B)
  PROVE  NULL \notin B /\ DOMAIN m = Words
<1>1. Heap(m, top, B)
  BY DEF Good
<1>2. \A c \in B : 8 <= c
  BY <1>1, BlockFacts
<1> QED
  BY <1>1, <1>2 DEF NULL, Heap

\* A call of mm_malloc is over: its block has an owner, or there is none.
LEMMA BackToIdle ==
  ASSUME NEW B, Good(mem', brk', B), AllocatedIn(mem', brk', B) = Owned',
         \A i, j \in DOMAIN blocks' : blocks'[i].lo = blocks'[j].lo => i = j,
         call' = Idle
  PROVE  HeapInv'
<1>1. Handed' = {} /\ Sensible' /\ SearchState(mem, B)'
  BY IdleFacts DEF Handed, Sensible, SearchState
<1>2. HeapState(B)'
  BY <1>1 DEF HeapState
<1>3. DOMAIN mem' = Words
  BY NullIsNoBlock
<1> QED
  BY <1>1, <1>2, <1>3 DEF HeapInv

LEMMA BackToError ==
  ASSUME DOMAIN mem' = Words, call' = Idle, error' # "none"
  PROVE  HeapInv'
BY DEF HeapInv

\* mem_reset_brk and mm_init leave a good heap that belongs to nobody.
LEMMA Starting ==
  ASSUME NoScraps, NEW m, DOMAIN m = Words, mem' = Initialised(m), brk' = InitialBrk,
         call' = Idle, blocks' = <<>>
  PROVE  HeapInv'
<1>1. PICK C : /\ Good(Initialised(m), InitialBrk, C)
               /\ AllocatedIn(Initialised(m), InitialBrk, C) = {}
  BY Initialising DEF NoScraps
<1>2. DOMAIN blocks' = {}
  OBVIOUS
<1>3. Owned' = {}
  BY <1>2 DEF Owned
<1> QED
  BY <1>1, <1>2, <1>3, BackToIdle

LEMMA InitHeapInv ==
  ASSUME NoScraps
  PROVE  Init => HeapInv
<1> SUFFICES ASSUME Init PROVE HeapInv
  OBVIOUS
<1>1. DOMAIN [a \in Words |-> 0] = Words
  OBVIOUS
<1>2. PICK C : Good(mem, brk, C) /\ AllocatedIn(mem, brk, C) = {}
  BY <1>1, Initialising DEF NoScraps, Init
<1>3. DOMAIN blocks = {} /\ call = Idle /\ error = "none"
  BY DEF Init
<1>4. Owned = {} /\ Handed = {} /\ Sensible /\ SearchState(mem, C)
  BY <1>3, IdleFacts DEF Owned, Handed, Sensible, SearchState
<1>5. HeapState(C)
  BY <1>2, <1>3, <1>4 DEF HeapState
<1> QED
  BY <1>2, <1>3, <1>4, <1>5, NullIsNoBlock DEF HeapInv

LEMMA BlockSizeFacts ==
  ASSUME NEW size \in Nat
  PROVE  /\ BlockSize(size) \in Nat
         /\ BlockSize(size) >= 16 /\ BlockSize(size) >= size + 8
<1>1. CASE size <= 8
  BY <1>1 DEF BlockSize, ALIGNMENT
<1>2. CASE size > 8
  <2>1. BlockSize(size) = 8 * ((size + 15) \div 8)
    BY <1>2 DEF BlockSize, ALIGNMENT
  <2>2. /\ 8 * ((size + 15) \div 8) \in Nat
        /\ 8 * ((size + 15) \div 8) >= size + 8
    BY Z3T(20)
  <2> QED BY <1>2, <2>1, <2>2
<1> QED
  BY <1>1, <1>2

\* mm_malloc begins its search at the prologue.
LEMMA RequestStep ==
  ASSUME NoScraps, HeapInv, NEW type, NEW i, NEW size \in Requests,
         Request(type, i, size),
         \/ type = "ALLOC" /\ i \notin DOMAIN blocks
         \/ type = "REALLOC" /\ i \in DOMAIN blocks
  PROVE  HeapInv'
<1>1. /\ error = "none" /\ error' = error /\ mem' = mem /\ brk' = brk /\ blocks' = blocks
      /\ call.at = "idle"
      /\ call' = [at |-> "fit", asize |-> BlockSize(size), bp |-> heap_listp]
      /\ op' = [type |-> type, index |-> i, size |-> size]
  BY DEF Request, Ready, mm_malloc, clientVars
<1>2. PICK B : HeapState(B)
  BY <1>1 DEF HeapInv
<1>3. Good(mem, brk, B) /\ AllocatedIn(mem, brk, B) = Owned
  BY <1>1, <1>2 DEF HeapState, Handed
<1>4. /\ heap_listp \in B /\ heap_listp \in Int
      /\ \A c \in B : ~(c < heap_listp)
  <2>1. Heap(mem, brk, B)
    BY <1>3 DEF Good
  <2>2. heap_listp = 8 /\ heap_listp \in B
    BY <2>1, EndFacts
  <2>3. \A c \in B : c \in Int /\ 8 <= c
    BY <2>1, BlockFacts
  <2> QED BY <2>2, <2>3
<1>5. /\ size \in Nat /\ BlockSize(size) \in Nat /\ BlockSize(size) % 16 = 0
      /\ BlockSize(size) >= 16 /\ BlockSize(size) >= size + 8
  <2>1. size \in Nat
    BY MDriverAssumption
  <2> QED BY <2>1, BlockSizeFacts DEF NoScraps
<1>6. call'.at = "fit" /\ call'.asize = BlockSize(size) /\ call'.bp = heap_listp
      /\ op'.type = type /\ op'.index = i /\ op'.size = size
  BY <1>1
<1>7. SearchState(mem, B)'
  BY <1>1, <1>4, <1>5, <1>6 DEF SearchState
<1>8. Sensible' /\ Handed' = {} /\ Owned' = Owned
  BY <1>1, <1>5, <1>6 DEF Sensible, Handed, Owned
<1>9. HeapState(B)'
  BY <1>1, <1>2, <1>3, <1>7, <1>8 DEF HeapState
<1>10. DOMAIN mem' = Words
  BY <1>1 DEF HeapInv
<1> QED
  BY <1>1, <1>8, <1>9, <1>10 DEF HeapInv

\* find_fit goes on to the next block.
LEMMA FindNextStep ==
  ASSUME HeapInv, error = "none", FindNext, UNCHANGED <<clientVars, op, error>>
  PROVE  HeapInv'
<1>1. /\ error' = error /\ mem' = mem /\ brk' = brk /\ blocks' = blocks /\ op' = op
      /\ call.at = "fit" /\ ~Fits(call.bp) /\ Size(mem, call.bp) > 0
      /\ call' = [call EXCEPT !.bp = NEXT_BLKP(mem, call.bp)]
  BY DEF FindNext, clientVars
<1>2. PICK B : HeapState(B)
  BY DEF HeapInv
<1>3. /\ Heap(mem, brk, B) /\ SearchState(mem, B) /\ Sensible
  BY <1>2 DEF HeapState, Good, HeapInv
<1>4. /\ call \in [at : {"idle", "fit", "done"}, asize : Nat, bp : Int]
      /\ call.bp \in B /\ \A c \in B : c < call.bp => ~FitsIn(mem, c, call.asize)
      /\ call.asize % 16 = 0 /\ call.asize >= 16 /\ call.asize >= op.size + 8
  BY <1>1, <1>3 DEF SearchState
<1>5. /\ call'.at = "fit" /\ call'.asize = call.asize
      /\ call'.bp = NEXT_BLKP(mem, call.bp) /\ call' \in [at : {"idle", "fit", "done"}, asize : Nat, bp : Int]
      /\ NEXT_BLKP(mem, call.bp) \in B /\ NEXT_BLKP(mem, call.bp) \in Int
      /\ \A c \in B : c > call.bp => c >= NEXT_BLKP(mem, call.bp)
  <2>1. /\ NEXT_BLKP(mem, call.bp) = call.bp + Size(mem, call.bp)
        /\ call.bp # brk => call.bp + Size(mem, call.bp) \in B
        /\ \A c \in B : c > call.bp => c >= call.bp + Size(mem, call.bp)
        /\ Size(mem, call.bp) \in Int /\ call.bp \in Int
    BY <1>3, <1>4, BlockFacts
  <2>2. call.bp # brk
    BY <1>1, <1>3, <1>4, EndFacts
  <2>3. NEXT_BLKP(mem, call.bp) \in B /\ NEXT_BLKP(mem, call.bp) \in Int
    BY <2>1, <2>2
  <2> QED BY <1>1, <1>4, <2>1, <2>3
<1>6. ASSUME NEW c \in B, c < NEXT_BLKP(mem, call.bp)
      PROVE  ~FitsIn(mem, c, call.asize)
  <2>1. c \in Int /\ call.bp \in Int
    BY <1>3, <1>4, BlockFacts
  <2>2. c <= call.bp
    BY <1>5, <1>6, <2>1
  <2>3. c = call.bp => ~FitsIn(mem, c, call.asize)
    BY <1>1 DEF Fits, FitsIn
  <2> QED BY <1>4, <2>1, <2>2, <2>3
<1>7. SearchState(mem, B)'
  BY <1>1, <1>4, <1>5, <1>6 DEF SearchState
<1>8. Sensible' /\ Handed' = Handed /\ Owned' = Owned
  BY <1>1, <1>3, <1>5 DEF Sensible, Handed, Owned
<1>9. HeapState(B)'
  BY <1>1, <1>2, <1>7, <1>8 DEF HeapState
<1>10. DOMAIN mem' = Words
  BY <1>1 DEF HeapInv
<1> QED
  BY <1>1, <1>8, <1>9, <1>10 DEF HeapInv

\* mm_malloc returns the block bp that it has allocated, of no other owner.
LEMMA HandingOut ==
  ASSUME NEW B, HeapState(B), Sensible, call.at = "fit", error' = "none",
         NEW C, Good(mem', brk', C), NEW bp \in Int, bp # NULL, bp \notin Owned,
         AllocatedIn(mem', brk', C) = Owned \cup {bp},
         Size(mem', bp) = call.asize,
         call' = [call EXCEPT !.at = "done", !.bp = bp],
         blocks' = blocks, op' = op
  PROVE  HeapInv'
<1>1. /\ call \in [at : {"idle", "fit", "done"}, asize : Nat, bp : Int]
      /\ call.asize >= op.size + 8
  BY DEF HeapState, SearchState
<1>2. /\ call'.at = "done" /\ call'.bp = bp
      /\ call' \in [at : {"idle", "fit", "done"}, asize : Nat, bp : Int]
  BY <1>1
<1>3. Handed' = {bp} /\ Owned' = Owned /\ Sensible'
  BY <1>2 DEF Handed, Owned, Sensible
<1>4. SearchState(mem, C)'
  BY <1>1, <1>2 DEF SearchState
<1>5. HeapState(C)'
  BY <1>3, <1>4 DEF HeapState
<1> QED
  BY <1>3, <1>5, NullIsNoBlock DEF HeapInv

\* find_fit has found a block, and place allocates it.
LEMMA FoundStep ==
  ASSUME HeapInv, error = "none", Found, UNCHANGED <<clientVars, op, error>>
  PROVE  HeapInv'
<1>1. /\ error' = error /\ brk' = brk /\ blocks' = blocks /\ op' = op
      /\ call.at = "fit" /\ Fits(call.bp) /\ Size(mem, call.bp) > 0
      /\ mem' = place(mem, call.bp, call.asize)
      /\ call' = [call EXCEPT !.at = "done", !.bp = call.bp]
  BY DEF Found, clientVars, Returns
<1>2. PICK B : HeapState(B)
  BY DEF HeapInv
<1>3. /\ Good(mem, brk, B) /\ Heap(mem, brk, B) /\ SearchState(mem, B) /\ Sensible
      /\ AllocatedIn(mem, brk, B) = Owned
  BY <1>1, <1>2 DEF HeapState, Good, HeapInv, Handed
<1>4. /\ call.asize \in Nat /\ call.asize % 16 = 0 /\ call.asize >= 16
      /\ call.bp \in B /\ call.bp \in Int
  BY <1>1, <1>3 DEF SearchState
<1>5. /\ Size(mem, call.bp) >= call.asize /\ ~Allocated(mem, call.bp)
      /\ call.bp \in Inner(brk, B) /\ call.bp # NULL
  <2>1. call.bp # heap_listp /\ call.bp # brk
    BY <1>1, <1>3, EndFacts DEF Fits
  <2> QED BY <1>1, <1>3, <1>4, <2>1, NullIsNoBlock DEF Fits, Inner
<1>6. PICK C : /\ Good(mem', brk, C)
               /\ AllocatedIn(mem', brk, C) = AllocatedIn(mem, brk, B) \cup {call.bp}
               /\ Size(mem', call.bp) = call.asize
  BY <1>1, <1>3, <1>4, <1>5, Placing
<1>7. call.bp \notin Owned
  BY <1>3, <1>5 DEF AllocatedIn
<1> QED
  BY <1>1, <1>2, <1>3, <1>4, <1>5, <1>6, <1>7, HandingOut

\* The heap grows by enough for the block that is wanted.
LEMMA ChunkFacts ==
  ASSUME NoScraps, NEW asize \in Nat, asize % 16 = 0, asize >= 16
  PROVE  LET size == Max({asize, CHUNKSIZE})
         IN  size \in Int /\ size % 16 = 0 /\ size >= 16 /\ size >= asize
<1> DEFINE size == Max({asize, CHUNKSIZE})
<1>1. CHUNKSIZE \in Nat /\ CHUNKSIZE >= 16 /\ CHUNKSIZE % 16 = 0
  BY MemoryFacts DEF NoScraps
<1>2. IsFiniteSet({asize, CHUNKSIZE})
  <2>1. IsFiniteSet({CHUNKSIZE} \cup {asize})
    BY FS_Singleton, FS_AddElement
  <2>2. {CHUNKSIZE} \cup {asize} = {asize, CHUNKSIZE}
    OBVIOUS
  <2> QED BY <2>1, <2>2
<1>3. size \in {asize, CHUNKSIZE} /\ \A n \in {asize, CHUNKSIZE} : n <= size
  BY <1>1, <1>2, MaxFacts
<1> QED
  BY <1>1, <1>3

\* find_fit has found nothing: the heap grows, or mm_malloc returns NULL.
LEMMA NotFoundStep ==
  ASSUME NoScraps, HeapInv, error = "none", NotFound, UNCHANGED <<clientVars, op, error>>
  PROVE  HeapInv'
<1> DEFINE size == Max({call.asize, CHUNKSIZE})
           x == Extended(mem, brk, size)
<1>1. /\ error' = error /\ blocks' = blocks /\ op' = op
      /\ call.at = "fit" /\ Size(mem, call.bp) = 0
  BY DEF NotFound, clientVars
<1>2. PICK B : HeapState(B)
  BY DEF HeapInv
<1>3. /\ Good(mem, brk, B) /\ Heap(mem, brk, B) /\ SearchState(mem, B) /\ Sensible
      /\ AllocatedIn(mem, brk, B) = Owned
  BY <1>1, <1>2 DEF HeapState, Good, HeapInv, Handed
<1>4. /\ call.asize \in Nat /\ call.asize % 16 = 0 /\ call.asize >= 16
      /\ call.bp \in B /\ call.bp \in Int
      /\ call \in [at : {"idle", "fit", "done"}, asize : Nat, bp : Int]
      /\ \A c \in B : c < call.bp => ~FitsIn(mem, c, call.asize)
  BY <1>1, <1>3 DEF SearchState
<1>5. size \in Int /\ size % 16 = 0 /\ size >= 16 /\ size >= call.asize
  BY <1>4, ChunkFacts
<1>6. CASE CanGrow(size) /\ brk' = brk + size /\ Returns(x.bp)
           /\ mem' = place(x.mem, x.bp, call.asize)
  <2>1. brk + size <= MAX_HEAP
    BY <1>6 DEF CanGrow
  <2> HIDE DEF size
  <2>2. PICK C : /\ Good(x.mem, brk + size, C)
                 /\ x.bp \in Inner(brk + size, C) /\ ~Allocated(x.mem, x.bp)
                 /\ Size(x.mem, x.bp) >= size
                 /\ AllocatedIn(x.mem, brk + size, C) = AllocatedIn(mem, brk, B)
                 /\ Keeps(x.mem, mem, AllocatedIn(mem, brk, B))
    BY <1>3, <1>5, <2>1, Growing
  <2>3. x.bp \in Int /\ x.bp # NULL /\ x.bp \notin Owned /\ call.asize <= Size(x.mem, x.bp)
    <3>1. x.bp \in C /\ Heap(x.mem, brk + size, C)
      BY <2>2 DEF Inner, Good
    <3>2. x.bp \in Int /\ Size(x.mem, x.bp) \in Int
      BY <3>1, BlockFacts
    <3>3. x.bp # NULL
      BY <2>2, <3>1, NullIsNoBlock
    <3>4. x.bp \notin Owned
      BY <1>3, <2>2 DEF AllocatedIn
    <3> QED BY <1>4, <1>5, <2>2, <3>2, <3>3, <3>4
  <2> HIDE DEF x
  <2>4. PICK D : /\ Good(mem', brk + size, D)
                 /\ AllocatedIn(mem', brk + size, D) = AllocatedIn(x.mem, brk + size, C) \cup {x.bp}
                 /\ Size(mem', x.bp) = call.asize
    BY <1>4, <1>6, <2>2, <2>3, Placing
  <2>5. call' = [call EXCEPT !.at = "done", !.bp = x.bp]
    BY <1>6 DEF Returns
  <2> QED BY <1>1, <1>2, <1>3, <1>6, <2>2, <2>3, <2>4, <2>5, HandingOut
<1>7. CASE Returns(NULL) /\ UNCHANGED <<mem, brk>>
  <2>1. /\ call'.at = "done" /\ call'.bp = NULL /\ call'.asize = call.asize
        /\ call' \in [at : {"idle", "fit", "done"}, asize : Nat, bp : Int]
        /\ mem' = mem /\ brk' = brk
    <3>1. call' = [call EXCEPT !.at = "done", !.bp = NULL] /\ NULL \in Int
      BY <1>7 DEF Returns, NULL
    <3>2. call \in [at : {"idle", "fit", "done"}, asize : Nat, bp : Int]
      BY <1>4
    <3>3. mem' = mem /\ brk' = brk
      BY <1>7
    <3> QED BY <3>1, <3>2, <3>3
  <2>2. ASSUME NEW c \in B PROVE ~FitsIn(mem, c, call.asize)
    <3>1. call.bp = brk /\ Allocated(mem, brk)
      BY <1>1, <1>3, <1>4, EndFacts
    <3>2. c \in Int /\ c <= brk
      BY <1>3, BlockFacts
    <3>3. c < brk \/ c = brk
      BY <1>4, <3>1, <3>2
    <3> QED BY <1>4, <3>1, <3>3 DEF FitsIn
  <2>3. SearchState(mem, B)'
    BY <2>1, <2>2 DEF SearchState
  <2>4. Handed' = {} /\ Owned' = Owned /\ Sensible'
    BY <1>1, <1>3, <2>1 DEF Handed, Owned, Sensible
  <2>5. HeapState(B)'
    BY <1>1, <1>2, <1>3, <2>1, <2>3, <2>4 DEF HeapState
  <2>6. DOMAIN mem' = Words
    BY <2>1 DEF HeapInv
  <2> QED BY <1>1, <2>4, <2>5, <2>6 DEF HeapInv
<1> QED
  BY <1>6, <1>7 DEF NotFound

-----------------------------------------------------------------------------
(* The answers of mm_malloc, mm_realloc and mm_free.                       *)

LEMMA OverlayFacts ==
  ASSUME NEW m, NEW p, NEW n, NEW w
  PROVE  /\ DOMAIN Overlay(m, p, n, w) = Words
         /\ \A a \in Words : a < p \/ a >= p + n => Overlay(m, p, n, w)[a] = m[a]
BY DEF Overlay

\* What mm_realloc takes for the size of the old block (mm.c:250) is at least a number.
LEMMA OldSizeFacts ==
  ASSUME NEW m, NEW top, NEW B, Good(m, top, B), NEW bp \in AllocatedIn(m, top, B)
  PROVE  oldSize(m, bp) \in Nat
<1>1. Heap(m, top, B) /\ bp \in B /\ bp # heap_listp /\ bp # top
  BY DEF Good, AllocatedIn, Inner
<1>2. PICK p \in B : p < bp /\ p + Size(m, p) = bp
  BY <1>1, Predecessor
<1>3. /\ p \in Int /\ bp \in Int /\ bp <= top /\ top \in Int
      /\ Size(m, p) \in Int /\ m[p - 4] \in Nat
  BY <1>1, <1>2, BlockFacts, EndFacts
<1>4. p # top
  BY <1>2, <1>3
<1>5. m[p + (Size(m, p) - 8)] = m[p - 4]
  BY <1>1, <1>2, <1>4, BlockFacts
<1>6. bp - 8 = p + (Size(m, p) - 8)
  BY <1>2, <1>3
<1> QED
  BY <1>3, <1>5, <1>6 DEF oldSize, ALIGNMENT

\* mm_realloc fills at most the new block and frees the old one.
LEMMA Moving ==
  ASSUME NEW m, NEW top, NEW B, Good(m, top, B),
         NEW old \in AllocatedIn(m, top, B), NEW new \in AllocatedIn(m, top, B), old # new,
         NEW size \in Nat, size + 8 <= Size(m, new)
  PROVE  LET w == Reallocated(m, new, old, size)
         IN  \E C : /\ Good(w, top, C)
                    /\ AllocatedIn(w, top, C) = AllocatedIn(m, top, B) \ {old}
                    /\ Size(w, new) = Size(m, new)
                    /\ SameBlocks(w, m, AllocatedIn(m, top, B) \ {old, new})
<1> DEFINE n == Lesser(oldSize(m, old), size)
           t == memcpy(m, new, old, n)
<1>1. n \in Int /\ n <= size
  BY OldSizeFacts DEF Lesser
<1>2. Size(m, new) \in Int /\ new \in B
  <2>1. new \in B /\ Heap(m, top, B)
    BY DEF AllocatedIn, Inner, Good
  <2> QED BY <2>1, BlockFacts
<1>3. n + 8 <= Size(m, new)
  <2> HIDE DEF n
  <2> QED BY <1>1, <1>2
<1>4. DOMAIN t = Words /\ \A a \in Words : a < new \/ a >= new + n => t[a] = m[a]
  <2> HIDE DEF n
  <2> QED BY OverlayFacts DEF memcpy
<1>5. Reallocated(m, new, old, size) = Freed(t, old)
  BY DEF Reallocated
<1> HIDE DEF n, t
<1>6. /\ Good(t, top, B)
      /\ AllocatedIn(t, top, B) = AllocatedIn(m, top, B)
      /\ Size(t, new) = Size(m, new)
      /\ SameBlocks(t, m, AllocatedIn(m, top, B) \ {new})
  <2>1. /\ n \in Int
        /\ n + 8 <= Size(m, new)
        /\ DOMAIN t = Words
        /\ \A a \in Words : a < new \/ a >= new + n => t[a] = m[a]
    BY <1>1, <1>3, <1>4
  <2> QED BY <2>1, Writing, Zenon
<1>7. PICK C : /\ Good(Freed(t, old), top, C)
               /\ AllocatedIn(Freed(t, old), top, C) = AllocatedIn(t, top, B) \ {old}
               /\ Keeps(Freed(t, old), t, AllocatedIn(t, top, B) \ {old})
  BY <1>6, Freeing
<1>8. Size(Freed(t, old), new) = Size(m, new)
  BY <1>2, <1>6, <1>7 DEF SameBlocks, Keeps
<1>9. SameBlocks(Freed(t, old), m, AllocatedIn(m, top, B) \ {old, new})
  BY <1>6, <1>7 DEF SameBlocks, Keeps
<1> QED
  BY <1>5, <1>6, <1>7, <1>8, <1>9

\* What is known when mm_malloc has returned a block.
LEMMA ServingFacts ==
  ASSUME HeapInv, Serving, call.bp # NULL
  PROVE  \E B : /\ Good(mem, brk, B)
                /\ AllocatedIn(mem, brk, B) = Owned \cup {call.bp}
                /\ call.bp \notin Owned
                /\ \A i, j \in DOMAIN blocks : blocks[i].lo = blocks[j].lo => i = j
                /\ op.size \in Nat /\ op.size + 8 <= Size(mem, call.bp)
                /\ Sensible
<1>1. error = "none" /\ call.at = "done"
  BY DEF Serving
<1>2. Sensible /\ op.size \in Nat
  BY <1>1 DEF HeapInv, Sensible
<1>3. PICK B : HeapState(B)
  BY <1>1 DEF HeapInv
<1>4. Handed = {call.bp}
  BY <1>1 DEF Handed
<1>5. Good(mem, brk, B) /\ AllocatedIn(mem, brk, B) = Owned \cup {call.bp} /\ call.bp \notin Owned
  BY <1>3, <1>4 DEF HeapState
<1>6. op.size + 8 <= Size(mem, call.bp)
  <2>1. Size(mem, call.bp) >= op.size + 8
    BY <1>1, <1>3 DEF HeapState, SearchState
  <2> QED BY <2>1
<1> QED
  BY <1>2, <1>3, <1>5, <1>6 DEF HeapState

LEMMA FailureStep ==
  ASSUME HeapInv, AllocFails \/ ReallocFails
  PROVE  HeapInv'
<1>1. call' = Idle /\ mem' = mem /\ error' # "none"
  BY DEF AllocFails, ReallocFails, Done, Report
<1> QED
  BY <1>1, BackToError DEF HeapInv

LEMMA AllocReturnsStep ==
  ASSUME HeapInv, AllocReturns
  PROVE  HeapInv'
<1>1. Serving /\ call.bp # NULL /\ op.type = "ALLOC" /\ call' = Idle /\ brk' = brk
  BY DEF AllocReturns, Done
<1>2. PICK B : /\ Good(mem, brk, B)
               /\ AllocatedIn(mem, brk, B) = Owned \cup {call.bp}
               /\ call.bp \notin Owned
               /\ \A i, j \in DOMAIN blocks : blocks[i].lo = blocks[j].lo => i = j
               /\ op.size \in Nat /\ op.size + 8 <= Size(mem, call.bp)
               /\ Sensible
  BY <1>1, ServingFacts
<1>3. CASE Report("bad range") /\ mem' = mem
  BY <1>1, <1>3, BackToError DEF Report, HeapInv
<1>4. CASE Remember(mem, call.bp)
  <2>1. /\ mem' = memset(mem, call.bp, op.index, op.size)
        /\ blocks' = WithBlock(call.bp)
    BY <1>4 DEF Remember
  <2>2. Good(mem', brk, B) /\ AllocatedIn(mem', brk, B) = Owned \cup {call.bp}
    <3>1. DOMAIN mem' = Words /\ \A a \in Words : a < call.bp \/ a >= call.bp + op.size => mem'[a] = mem[a]
      BY <2>1, OverlayFacts DEF memset
    <3> QED BY <1>2, <3>1, Writing
  <2>3. op.index \notin DOMAIN blocks
    BY <1>1, <1>2 DEF Sensible, Serving
  <2>4. /\ DOMAIN blocks' = DOMAIN blocks \cup {op.index}
        /\ blocks'[op.index].lo = call.bp
        /\ \A k \in DOMAIN blocks : blocks'[k] = blocks[k]
    BY <2>1, <2>3 DEF WithBlock
  <2>5. Owned' = Owned \cup {call.bp}
    BY <2>4 DEF Owned
  <2>6. \A i, j \in DOMAIN blocks' : blocks'[i].lo = blocks'[j].lo => i = j
    BY <1>2, <2>4 DEF Owned
  <2> QED BY <1>1, <2>2, <2>5, <2>6, BackToIdle
<1> QED
  BY <1>3, <1>4 DEF AllocReturns

\* The block that mm_realloc has moved belongs to the same index.
LEMMA MovedOwner ==
  ASSUME NEW m, NEW C, NEW old, NEW new, Good(m, brk, C),
         AllocatedIn(m, brk, C) = (Owned \cup {new}) \ {old},
         new \notin Owned, op.index \in DOMAIN blocks, old = blocks[op.index].lo,
         \A i, j \in DOMAIN blocks : blocks[i].lo = blocks[j].lo => i = j,
         brk' = brk, call' = Idle, mem' = m, blocks' = WithBlock(new)
  PROVE  HeapInv'
<1>1. /\ DOMAIN blocks' = DOMAIN blocks
      /\ blocks'[op.index].lo = new
      /\ \A k \in DOMAIN blocks : k # op.index => blocks'[k] = blocks[k]
  BY DEF WithBlock
<1>2. Owned' = (Owned \cup {new}) \ {old}
  <2>1. \A k \in DOMAIN blocks : k # op.index => blocks[k].lo # old
    OBVIOUS
  <2>2. old # new
    BY DEF Owned
  <2> QED BY <1>1, <2>1, <2>2 DEF Owned
<1>3. \A i, j \in DOMAIN blocks' : blocks'[i].lo = blocks'[j].lo => i = j
  BY <1>1 DEF Owned
<1> QED
  BY <1>2, <1>3, BackToIdle

LEMMA ReallocReturnsStep ==
  ASSUME HeapInv, ReallocReturns
  PROVE  HeapInv'
<1> DEFINE old == blocks[op.index].lo
           new == call.bp
           freed == Reallocated(mem, new, old, op.size)
<1>1. Serving /\ call.bp # NULL /\ op.type = "REALLOC" /\ call' = Idle /\ brk' = brk
  BY DEF ReallocReturns, Done
<1>2. PICK B : /\ Good(mem, brk, B)
               /\ AllocatedIn(mem, brk, B) = Owned \cup {new}
               /\ new \notin Owned
               /\ \A i, j \in DOMAIN blocks : blocks[i].lo = blocks[j].lo => i = j
               /\ op.size \in Nat /\ op.size + 8 <= Size(mem, new)
               /\ Sensible
  BY <1>1, ServingFacts
<1>3. op.index \in DOMAIN blocks /\ old \in Owned
  BY <1>1, <1>2 DEF Sensible, Serving, Owned
<1>4. PICK C : /\ Good(freed, brk, C)
               /\ AllocatedIn(freed, brk, C) = (Owned \cup {new}) \ {old}
               /\ Size(freed, new) = Size(mem, new)
  <2>1. old \in AllocatedIn(mem, brk, B) /\ new \in AllocatedIn(mem, brk, B) /\ old # new
    BY <1>2, <1>3
  <2>2. op.size \in Nat /\ op.size + 8 <= Size(mem, new) /\ Good(mem, brk, B)
    BY <1>2
  <2> HIDE DEF old, new
  <2>3. \E C : /\ Good(freed, brk, C)
               /\ AllocatedIn(freed, brk, C) = AllocatedIn(mem, brk, B) \ {old}
               /\ Size(freed, new) = Size(mem, new)
               /\ SameBlocks(freed, mem, AllocatedIn(mem, brk, B) \ {old, new})
    BY <2>1, <2>2, Moving
  <2> QED BY <1>2, <2>3
<1>5. \/ mem' = freed /\ (Report("bad range") \/ Report("data lost"))
      \/ Remember(freed, new)
  BY DEF ReallocReturns
<1> HIDE DEF freed, new
<1>6. CASE mem' = freed /\ (Report("bad range") \/ Report("data lost"))
  BY <1>1, <1>4, <1>6, BackToError, NullIsNoBlock DEF Report
<1>7. CASE Remember(freed, new)
  <2>1. /\ mem' = memset(freed, new, op.index, op.size)
        /\ blocks' = WithBlock(new)
    BY <1>7 DEF Remember
  <2>2. DOMAIN mem' = Words /\ \A a \in Words : a < new \/ a >= new + op.size => mem'[a] = freed[a]
    BY <2>1, OverlayFacts DEF memset
  <2>3. new \in AllocatedIn(freed, brk, C) /\ op.size + 8 <= Size(freed, new)
    BY <1>2, <1>3, <1>4
  <2>4. Good(mem', brk, C) /\ AllocatedIn(mem', brk, C) = AllocatedIn(freed, brk, C)
    <3>1. op.size \in Int /\ Good(freed, brk, C)
      BY <1>2, <1>4
    <3> QED BY <2>2, <2>3, <3>1, Writing, Zenon
  <2> QED BY <1>1, <1>2, <1>3, <1>4, <2>1, <2>4, MovedOwner
<1> QED
  BY <1>5, <1>6, <1>7

LEMMA FreeStep ==
  ASSUME HeapInv, NEW i, mm_free(i)
  PROVE  HeapInv'
<1>1. /\ error = "none" /\ call.at = "idle" /\ i \in DOMAIN blocks
      /\ mem' = Freed(mem, blocks[i].lo)
      /\ blocks' = Restrict(blocks, DOMAIN blocks \ {i})
      /\ brk' = brk /\ call' = call /\ error' = error /\ op' = op
  BY DEF mm_free, Ready
<1>2. PICK B : HeapState(B)
  BY <1>1 DEF HeapInv
<1>3. /\ Good(mem, brk, B) /\ AllocatedIn(mem, brk, B) = Owned
      /\ \A k, j \in DOMAIN blocks : blocks[k].lo = blocks[j].lo => k = j
      /\ SearchState(mem, B)
  BY <1>1, <1>2 DEF HeapState, Handed
<1>4. blocks[i].lo \in AllocatedIn(mem, brk, B)
  BY <1>1, <1>3 DEF Owned
<1>5. PICK C : Good(mem', brk, C) /\ AllocatedIn(mem', brk, C) = Owned \ {blocks[i].lo}
  <2> DEFINE bp == blocks[i].lo
  <2>1. bp \in AllocatedIn(mem, brk, B) /\ Good(mem, brk, B)
    BY <1>3, <1>4
  <2> HIDE DEF bp
  <2>2. \E C : /\ Good(Freed(mem, bp), brk, C)
               /\ AllocatedIn(Freed(mem, bp), brk, C) = AllocatedIn(mem, brk, B) \ {bp}
               /\ Keeps(Freed(mem, bp), mem, AllocatedIn(mem, brk, B) \ {bp})
    BY <2>1, Freeing
  <2> QED BY <1>1, <1>3, <2>2 DEF bp
<1>6. /\ DOMAIN blocks' = DOMAIN blocks \ {i}
      /\ \A k \in DOMAIN blocks' : blocks'[k] = blocks[k]
  BY <1>1 DEF Restrict
<1>7. Owned' = Owned \ {blocks[i].lo}
  <2>1. \A k \in DOMAIN blocks : k # i => blocks[k].lo # blocks[i].lo
    BY <1>1, <1>3
  <2> QED BY <1>6, <2>1 DEF Owned
<1>8. \A k, j \in DOMAIN blocks' : blocks'[k].lo = blocks'[j].lo => k = j
  BY <1>3, <1>6
<1>9. Handed' = {} /\ Sensible' /\ SearchState(mem, C)'
  BY <1>1, <1>3 DEF Handed, Sensible, SearchState
<1>10. HeapState(C)'
  BY <1>1, <1>5, <1>7, <1>8, <1>9 DEF HeapState
<1> QED
  BY <1>1, <1>5, <1>9, <1>10, NullIsNoBlock DEF HeapInv

LEMMA SearchStep ==
  ASSUME NoScraps, HeapInv, MallocRuns
  PROVE  HeapInv'
<1>1. error = "none"
  BY IdleFacts DEF HeapInv, MallocRuns, MallocStep, FindNext, Found, NotFound
<1> QED
  BY <1>1, FindNextStep, FoundStep, NotFoundStep DEF MallocRuns, MallocStep

LEMMA NewTraceStep ==
  ASSUME NoScraps, HeapInv, NewTrace
  PROVE  HeapInv'
BY Starting DEF NewTrace, mm_init, HeapInv

-----------------------------------------------------------------------------
(* The theorems.                                                           *)

\* The invariant above, for every size of the memory, every set of indices and
\* every set of requests that leaves no scraps (mm.c:112-267, mdriver.c:568-690).
THEOREM HeapInvariant ==
  ASSUME NoScraps
  PROVE  Spec => []HeapInv
<1>1. Init => HeapInv
  BY InitHeapInv
<1>2. ASSUME HeapInv, [Next]_vars PROVE HeapInv'
  <2>1. ASSUME NEW i \in Ids, NEW size \in Requests, Alloc(i, size) \/ Realloc(i, size)
        PROVE  HeapInv'
    BY <1>2, <2>1, RequestStep DEF Alloc, Realloc
  <2>2. CASE MallocRuns
    BY <1>2, <2>2, SearchStep
  <2>3. CASE AllocFails \/ ReallocFails
    BY <1>2, <2>3, FailureStep
  <2>4. CASE AllocReturns
    BY <1>2, <2>4, AllocReturnsStep
  <2>5. CASE ReallocReturns
    BY <1>2, <2>5, ReallocReturnsStep
  <2>6. ASSUME NEW i \in Ids, FreeBlock(i) PROVE HeapInv'
    BY <1>2, <2>6, FreeStep DEF FreeBlock
  <2>7. CASE NewTrace
    BY <1>2, <2>7, NewTraceStep
  <2>8. CASE UNCHANGED vars
    BY <1>2, <2>8 DEF vars, heapVars, clientVars, HeapInv, HeapState, Sensible,
                      SearchState, Owned, Handed
  <2> QED BY <1>2, <2>1, <2>2, <2>3, <2>4, <2>5, <2>6, <2>7, <2>8 DEF Next
<1> QED
  BY <1>1, <1>2, PTL DEF Spec

\* What the invariant says of the blocks that a walk along the headers visits.
LEMMA InvariantMeans ==
  ASSUME HeapInv
  PROVE  HeapConsistent /\ NoBlockLost /\ FailsOnlyWhenFull
<1>1. CASE error # "none"
  BY <1>1, IdleFacts DEF HeapInv, HeapConsistent, NoBlockLost, FailsOnlyWhenFull
<1>2. CASE error = "none"
  <2>1. PICK B : HeapState(B)
    BY <1>2 DEF HeapInv
  <2>2. Good(mem, brk, B) /\ Heap(mem, brk, B)
    BY <2>1 DEF HeapState, Good
  <2>3. Blocks(mem) = B
    BY <2>2, WalkFindsBlocks
  <2>4. HeapConsistent
    BY <2>2, <2>3 DEF HeapConsistent, Good, Heap
  <2>5. NoBlockLost
    BY <2>1, <2>3 DEF NoBlockLost, HeapState, AllocatedIn, Inner, Owned, Handed
  <2>6. FailsOnlyWhenFull
    BY <2>1, <2>3 DEF FailsOnlyWhenFull, HeapState, SearchState, Fits, FitsIn
  <2> QED BY <2>4, <2>5, <2>6
<1> QED
  BY <1>1, <1>2

\* The tags tile the heap and no two neighbours are both free, whatever
\* requests came before, whatever users wrote between the tags and whatever
\* earlier traces left in the memory (note/malloc.md:30-36).
THEOREM HeapStaysConsistent ==
  ASSUME NoScraps
  PROVE  Spec => []HeapConsistent
<1> QED
  BY HeapInvariant, InvariantMeans, PTL

\* Every allocated block has exactly one owner: mm_malloc hands none out twice,
\* and mm_free and mm_realloc give every one back.
THEOREM NoBlockIsLost ==
  ASSUME NoScraps
  PROVE  Spec => []NoBlockLost
<1> QED
  BY HeapInvariant, InvariantMeans, PTL

\* mm_malloc returns NULL only if no free block of the heap is large enough.
THEOREM MallocFailsOnlyWhenFull ==
  ASSUME NoScraps
  PROVE  Spec => []FailsOnlyWhenFull
<1> QED
  BY HeapInvariant, InvariantMeans, PTL
=============================================================================
