------------------------------- MODULE MDriver -------------------------------
(***************************************************************************)
(* The allocator and its client: eval_mm_valid of mdriver.c, which plays   *)
(* traces of requests against mm.c and checks every answer.                *)
(*                                                                         *)
(* A trace is any sequence of requests that allocates, reallocates and     *)
(* frees each index in a sensible order, as trace files do; a new trace    *)
(* may start at any time, on a heap full of what the last one left.        *)
(***************************************************************************)
EXTENDS Heap, Functions

CONSTANTS Ids,       \* indices of the blocks of a trace; below 128, because
                     \* newp[j], a signed char, is compared with index & 0xFF
          Requests   \* payload sizes

ASSUME MDriverAssumption == /\ Ids \subseteq 0 .. 127
                            /\ Requests \subseteq Nat \ {0}

VARIABLES blocks,       \* trace->blocks and trace->block_sizes of the indices that
                        \* are allocated: the other entries are never read
          ranges,       \* the range list, a set: its order is not used
          op,           \* the request being served
          error         \* what malloc_error has reported

clientVars == <<blocks, ranges>>
vars == <<heapVars, clientVars, op, error>>

Op   == [type : {"none", "ALLOC", "REALLOC"}, index : Ids \cup {NULL}, size : Nat]
NoOp == [type |-> "none", index |-> NULL, size |-> 0]

Errors == {"none", "mm_malloc failed", "bad range", "data lost",
           "app_error",   \* mdriver has exited
           "crashed"}

-----------------------------------------------------------------------------
(* Bytes.  memset and memcpy end inside a word unless the size is a        *)
(* multiple of the word size; words are little-endian.                     *)

FirstBytes(w, k) == IF k >= WSIZE THEN w ELSE w % (256 ^ k)

Overlay(m, p, n, w) ==
    [a \in Words |->
        IF a < p \/ a >= p + n THEN m[a]
        ELSE m[a] - FirstBytes(m[a], p + n - a) + FirstBytes(w[a], p + n - a)]

\* The word that index & 0xFF fills.
Fill(index) == index * 16843009

memset(m, p, index, n) == Overlay(m, p, n, [a \in Words |-> Fill(index)])

\* What is read past the end of the memory is unspecified, and never looked at.
memcpy(m, dst, src, n) ==
    Overlay(m, dst, n, [a \in Words |->
        IF a - dst + src \in Words THEN m[a - dst + src] ELSE 0])

Holds(m, p, index, n) ==
    \A a \in {x \in Words : p <= x /\ x < p + n} :
        FirstBytes(m[a], p + n - a) = FirstBytes(Fill(index), p + n - a)

-----------------------------------------------------------------------------
(* The range list.                                                         *)

Payload(lo, size) == [lo |-> lo, hi |-> lo + size - 1]

\* Whether add_range accepts a payload: aligned, inside the heap, neither end
\* inside the payload of another block.
Acceptable(R, lo, size) ==
    /\ lo % ALIGNMENT = 0
    /\ {lo, lo + size - 1} \subseteq 0 .. brk' - 1
    /\ \A r \in R : {lo, lo + size - 1} \cap (r.lo .. r.hi) = {}

add_range(R, lo, size) == ranges' = R \cup {Payload(lo, size)}

remove_range(R, lo) == {r \in R : r.lo # lo}

-----------------------------------------------------------------------------
(* eval_mm_valid.                                                          *)

Serving == error = "none" /\ call.at = "done"
Ready   == error = "none" /\ call.at = "idle"

Request(type, i, size) ==
    /\ Ready
    /\ mm_malloc(size)
    /\ op' = [type |-> type, index |-> i, size |-> size]
    /\ UNCHANGED <<clientVars, error>>

\* mm_realloc of a live block to a size above 0 begins with mm_malloc.
Alloc(i, size)   == i \notin DOMAIN blocks /\ Request("ALLOC", i, size)
Realloc(i, size) == i \in DOMAIN blocks /\ Request("REALLOC", i, size)

MallocRuns == MallocStep /\ UNCHANGED <<clientVars, op, error>>

Report(what) ==
    /\ error' = what
    /\ UNCHANGED blocks

\* trace->blocks and trace->block_sizes with p as the block of the index.
WithBlock(p) ==
    [k \in DOMAIN blocks \cup {op.index} |->
        IF k = op.index THEN [lo |-> p, size |-> op.size] ELSE blocks[k]]

\* The block p becomes block index of the trace: memset, then remembered.
Remember(m, p) ==
    /\ mem' = memset(m, p, op.index, op.size)
    /\ blocks' = WithBlock(p)
    /\ UNCHANGED error

Done == call' = Idle /\ op' = NoOp /\ UNCHANGED brk

AllocFails ==
    /\ Serving /\ call.bp = NULL /\ op.type = "ALLOC"
    /\ Report("mm_malloc failed")
    /\ Done
    /\ UNCHANGED <<mem, ranges>>

AllocReturns ==
    /\ Serving /\ call.bp # NULL /\ op.type = "ALLOC"
    /\ Done
    /\ \/ /\ Acceptable(ranges, call.bp, op.size)
          /\ add_range(ranges, call.bp, op.size)
          /\ Remember(mem, call.bp)
       \/ /\ ~Acceptable(ranges, call.bp, op.size)
          /\ Report("bad range")
          /\ UNCHANGED <<mem, ranges>>

\* memcpy to the null pointer that mm_malloc has returned.
ReallocFails ==
    /\ Serving /\ call.bp = NULL /\ op.type = "REALLOC"
    /\ Report("crashed")
    /\ Done
    /\ UNCHANGED <<mem, ranges>>

\* What mm_realloc takes for the size of the old block is the word two words
\* before it: the footer of the block before.
oldSize(m, oldptr) == m[oldptr - ALIGNMENT]

Lesser(a, b) == IF a <= b THEN a ELSE b

\* The memory after mm_realloc: the data are copied, the old block is freed.
Reallocated(m, newptr, ptr, size) ==
    Freed(memcpy(m, newptr, ptr, Lesser(oldSize(m, ptr), size)), ptr)

ReallocReturns ==
    /\ Serving /\ call.bp # NULL /\ op.type = "REALLOC"
    /\ Done
    /\ LET oldp   == blocks[op.index].lo
           newp   == call.bp
           freed  == Reallocated(mem, newp, oldp, op.size)
           others == remove_range(ranges, oldp)
           kept   == Lesser(blocks[op.index].size, op.size)
       IN  \/ /\ ~Acceptable(others, newp, op.size)
              /\ Report("bad range")
              /\ mem' = freed /\ ranges' = others
           \/ /\ Acceptable(others, newp, op.size)
              /\ add_range(others, newp, op.size)
              /\ \/ Holds(freed, newp, op.index, kept) /\ Remember(freed, newp)
                 \/ /\ ~Holds(freed, newp, op.index, kept)
                    /\ Report("data lost")
                    /\ mem' = freed

mm_free(i) ==
    /\ Ready /\ i \in DOMAIN blocks
    /\ mem' = Freed(mem, blocks[i].lo)
    /\ blocks' = Restrict(blocks, DOMAIN blocks \ {i})
    /\ UNCHANGED <<brk, call, op, error>>

FreeBlock(i) ==
    /\ mm_free(i)
    /\ ranges' = remove_range(ranges, blocks[i].lo)

\* mem_reset_brk, clear_ranges, mm_init.  The word at brk - 4 and the rest of
\* the memory keep what the last trace has left there.
NewTrace ==
    /\ error \in {"mm_malloc failed", "bad range", "data lost"} \/ Ready
    /\ mm_init
    /\ ranges' = {} /\ blocks' = <<>>
    /\ op' = NoOp /\ error' = "none"

-----------------------------------------------------------------------------
Init == /\ mem = Initialised([a \in Words |-> 0])
        /\ brk = InitialBrk
        /\ call = Idle
        /\ blocks = <<>> /\ ranges = {}
        /\ op = NoOp /\ error = "none"

Next == \/ \E i \in Ids, size \in Requests : Alloc(i, size) \/ Realloc(i, size)
        \/ MallocRuns
        \/ AllocFails \/ AllocReturns
        \/ ReallocFails \/ ReallocReturns
        \/ \E i \in Ids : FreeBlock(i)
        \/ NewTrace

Spec == Init /\ [][Next]_vars

-----------------------------------------------------------------------------
(* Properties.                                                             *)

TypeOK ==
    /\ mem \in [Words -> Nat] /\ brk \in Addresses /\ call \in Call
    /\ DOMAIN blocks \subseteq Ids
    /\ blocks \in [DOMAIN blocks -> [lo : Addresses, size : Requests]]
    /\ ranges \subseteq [lo : Addresses, hi : Nat]
    /\ op \in Op /\ error \in Errors

\* The tags tile the heap and no two neighbours are both free, whatever
\* requests came before and whatever users wrote between the tags (the checks
\* of note/malloc.md:30-36).
HeapConsistent ==
    error = "none" => /\ Tiled(mem, brk, Blocks(mem))
                      /\ Coalesced(mem, brk, Blocks(mem))

\* Every allocated block belongs to the trace or is about to: none is lost
\* and none is handed out twice.
NoBlockLost ==
    error = "none" =>
        {bp \in Blocks(mem) \ {heap_listp, brk} : Allocated(mem, bp)} =
            {blocks[i].lo : i \in DOMAIN blocks}
            \cup (IF call.at = "done" THEN {call.bp} \ {NULL} ELSE {})

\* mm_malloc gives up only if no free block is large enough.
FailsOnlyWhenFull ==
    call.at = "done" /\ call.bp = NULL =>
        \A bp \in Blocks(mem) : ~Fits(bp)

\* "Make sure that the new block contains the data from the old block"
\* (mdriver.c:649).
PreservesData == error # "data lost"

\* Live blocks hold what eval_mm_valid has written to them, until an error is
\* reported.
Intact == error = "none" =>
    \A i \in DOMAIN blocks : Holds(mem, blocks[i].lo, i, blocks[i].size)

=============================================================================
