-------------------------------- MODULE Heap --------------------------------
(***************************************************************************)
(* The allocator of the malloc lab (malloclab-handout/mm.c): an implicit   *)
(* free list with boundary tags and first fit, on the simulated heap of    *)
(* memlib.c.                                                               *)
(*                                                                         *)
(* Memory is a function from the addresses of 4-byte words, relative to    *)
(* mem_start_brk, to their values; tags and user data share it.  A block   *)
(* is named, as in mm.c, by bp, the address of its payload: its header is  *)
(* the word before bp, its footer the last word but one of the block.      *)
(* Sizes and addresses are in bytes.  A pointer that leaves the memory     *)
(* does not occur while the heap is consistent and is not modelled.        *)
(***************************************************************************)
EXTENDS Integers, FiniteSetsExt

CONSTANTS MAX_HEAP,     \* bytes memlib can hand out
          CHUNKSIZE     \* least number of bytes the heap is extended by

WSIZE     == 4
ALIGNMENT == 8

ASSUME HeapAssumption ==
    /\ CHUNKSIZE \in Nat /\ CHUNKSIZE % ALIGNMENT = 0 /\ CHUNKSIZE >= 2 * ALIGNMENT
    /\ MAX_HEAP \in Nat /\ MAX_HEAP % ALIGNMENT = 0
    /\ MAX_HEAP >= 2 * ALIGNMENT + CHUNKSIZE

VARIABLES mem,   \* mem[a]: the word at address a
          brk,   \* mem_brk: the first address not handed out by mem_sbrk
          call   \* the call of mm_malloc in progress

heapVars == <<mem, brk, call>>

\* Payloads, and so blocks, are aligned.
Addresses == {a \in 0 .. MAX_HEAP : a % ALIGNMENT = 0}

Words == {a \in 0 .. MAX_HEAP - WSIZE : a % WSIZE = 0}

NULL == -1

\* mm_malloc looks for a block of asize bytes and has come to bp ("fit"), or
\* has returned bp ("done").
Call == [at : {"idle", "fit", "done"}, asize : {n \in Nat : n % ALIGNMENT = 0},
         bp : Addresses \cup {NULL}]
Idle == [at |-> "idle", asize |-> 0, bp |-> NULL]

-----------------------------------------------------------------------------
(* Tags.                                                                   *)

PACK(size, alloc) == size + alloc
SizeOf(w)  == w - (w % 8)
AllocOf(w) == w % 2

HDRP(bp)         == bp - WSIZE
Size(m, bp)      == SizeOf(m[HDRP(bp)])
Allocated(m, bp) == AllocOf(m[HDRP(bp)]) = 1
FTRP(m, bp)      == bp + Size(m, bp) - ALIGNMENT
NEXT_BLKP(m, bp) == bp + Size(m, bp)
PREV_BLKP(m, bp) == bp - SizeOf(m[bp - ALIGNMENT])

\* PUT of the header and of the footer that belongs to it.
Tag(m, bp, size, alloc) ==
    [m EXCEPT ![HDRP(bp)] = PACK(size, alloc),
              ![bp + size - ALIGNMENT] = PACK(size, alloc)]

\* The header of the block of size 0 that ends the heap.
Epilogue(m, bp) == [m EXCEPT ![HDRP(bp)] = PACK(0, 1)]

-----------------------------------------------------------------------------
(* The static functions of mm.c.                                           *)

\* Mutant: the block before is not looked at.
coalesce_NextOnly(m, bp) ==
    LET next == NEXT_BLKP(m, bp)
    IN  IF Allocated(m, next) THEN [mem |-> m, bp |-> bp]
        ELSE [mem |-> Tag(m, bp, Size(m, bp) + Size(m, next), 0), bp |-> bp]

\* Mutant: the block behind is taken for free.
coalesce_Greedy(m, bp) ==
    LET next == NEXT_BLKP(m, bp)
    IN  [mem |-> Tag(m, bp, Size(m, bp) + Size(m, next), 0), bp |-> bp]

\* The block bp, just freed or just added, is joined with its free neighbours.
coalesce(m, bp) ==
    LET prev      == PREV_BLKP(m, bp)
        next      == NEXT_BLKP(m, bp)
        prevalloc == AllocOf(m[FTRP(m, prev)]) = 1
        nextalloc == Allocated(m, next)
        first     == IF prevalloc THEN bp ELSE prev
        size      == Size(m, bp) + (IF prevalloc THEN 0 ELSE Size(m, prev))
                                 + (IF nextalloc THEN 0 ELSE Size(m, next))
    IN  [mem |-> IF prevalloc /\ nextalloc THEN m ELSE Tag(m, first, size, 0),
         bp  |-> first]

\* Mutant: the rest of a block that is split is not tagged.
place_NoRest(m, bp, asize) == Tag(m, bp, asize, 1)

\* A rest of less than two alignment units gets no tag, and is no longer part
\* of the block either.
place(m, bp, asize) ==
    LET diffsize == Size(m, bp) - asize
        taken    == Tag(m, bp, asize, 1)
    IN  IF diffsize >= 2 * ALIGNMENT THEN Tag(taken, bp + asize, diffsize, 0)
        ELSE taken

\* Mutant: only a header is added, and nothing is rounded up.
BlockSize_HeaderOnly(size) == size + WSIZE

\* mm_malloc's block size for a request: a header and a footer, rounded up.
BlockSize(size) ==
    IF size <= ALIGNMENT THEN 2 * ALIGNMENT
    ELSE ALIGNMENT * ((size + ALIGNMENT + (ALIGNMENT - 1)) \div ALIGNMENT)

\* mem_sbrk refuses to go past the end of the memory.
CanGrow(size) == brk + size <= MAX_HEAP

\* extend_heap: the old epilogue becomes the header of the new block.
Extended(m, top, size) ==
    coalesce(Epilogue(Tag(m, top, size, 0), top + size), top)

-----------------------------------------------------------------------------
(* mm_malloc, one step for each iteration of find_fit.                     *)

heap_listp == 2 * WSIZE

\* mem_reset_brk and mm_init: prologue, epilogue and a first free block, over
\* whatever the memory holds.
Initialised(m) ==
    LET prologue == Tag(m, heap_listp, ALIGNMENT, 1)
        bottom   == [prologue EXCEPT ![0] = 0]
    IN  Extended(Epilogue(bottom, 2 * ALIGNMENT), 2 * ALIGNMENT, CHUNKSIZE).mem

InitialBrk == 2 * ALIGNMENT + CHUNKSIZE

mm_init == /\ mem' = Initialised(mem)
           /\ brk' = InitialBrk
           /\ call' = Idle

\* Mutant: the search starts at the end of the heap.
mm_malloc_FromEnd(size) ==
    /\ call.at = "idle" /\ size > 0
    /\ call' = [at |-> "fit", asize |-> BlockSize(size), bp |-> brk]
    /\ UNCHANGED <<mem, brk>>

mm_malloc(size) ==
    /\ call.at = "idle" /\ size > 0
    /\ call' = [at |-> "fit", asize |-> BlockSize(size), bp |-> heap_listp]
    /\ UNCHANGED <<mem, brk>>

Fits(bp) == Size(mem, bp) >= call.asize /\ ~Allocated(mem, bp)

Returns(bp) == call' = [call EXCEPT !.at = "done", !.bp = bp]

FindNext ==
    /\ call.at = "fit"
    /\ Size(mem, call.bp) > 0 /\ ~Fits(call.bp)
    /\ call' = [call EXCEPT !.bp = NEXT_BLKP(mem, call.bp)]
    /\ UNCHANGED <<mem, brk>>

Found ==
    /\ call.at = "fit"
    /\ Size(mem, call.bp) > 0 /\ Fits(call.bp)
    /\ mem' = place(mem, call.bp, call.asize)
    /\ Returns(call.bp)
    /\ UNCHANGED brk

\* Mutant: the search does not end at the block of size 0.
NotFound_Endless == FALSE

NotFound ==
    /\ call.at = "fit"
    /\ Size(mem, call.bp) = 0
    /\ LET size     == Max({call.asize, CHUNKSIZE})
           extended == Extended(mem, brk, size)
       IN  \/ /\ CanGrow(size)
              /\ brk' = brk + size
              /\ mem' = place(extended.mem, extended.bp, call.asize)
              /\ Returns(extended.bp)
           \/ /\ ~CanGrow(size)
              /\ Returns(NULL)
              /\ UNCHANGED <<mem, brk>>

MallocStep == FindNext \/ Found \/ NotFound

\* The memory after mm_free(bp).
Freed(m, bp) == coalesce(Tag(m, bp, Size(m, bp), 0), bp).mem

-----------------------------------------------------------------------------
(* The consistency of the heap (the checks note/malloc.md:30-36 asks for). *)

\* The blocks a walk along the headers visits, prologue and epilogue included.
Blocks(m) ==
    LET walk[n \in 0 .. MAX_HEAP \div ALIGNMENT] ==
            IF n = 0 THEN heap_listp
            ELSE LET bp == walk[n - 1]
                 IN  IF HDRP(bp) \in Words THEN NEXT_BLKP(m, bp) ELSE bp
    IN  {walk[n] : n \in 0 .. MAX_HEAP \div ALIGNMENT}

\* B is the set of blocks of a heap that ends at top: they follow each other
\* without a gap, and each has its size in its header and in its footer.
Tiled(m, top, B) ==
    /\ {heap_listp, top} \subseteq B
    /\ m[HDRP(top)] = PACK(0, 1)
    /\ m[HDRP(heap_listp)] = PACK(ALIGNMENT, 1)
    /\ \A bp \in B :
          /\ bp \in heap_listp .. top /\ bp % ALIGNMENT = 0
          /\ bp # top =>
                /\ Size(m, bp) > 0 /\ m[FTRP(m, bp)] = m[HDRP(bp)]
                /\ bp # heap_listp => Size(m, bp) >= 2 * ALIGNMENT
                /\ NEXT_BLKP(m, bp) \in B
                /\ \A c \in B : c > bp => c >= NEXT_BLKP(m, bp)

\* No free block has escaped coalescing.
Coalesced(m, top, B) ==
    \A bp \in B \ {top} :
        ~Allocated(m, bp) => Allocated(m, NEXT_BLKP(m, bp))

=============================================================================
