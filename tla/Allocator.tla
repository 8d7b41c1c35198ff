------------------------------ MODULE Allocator ------------------------------
(***************************************************************************)
(* What mm.h promises a client that names its blocks by Ids: mm_malloc     *)
(* returns aligned memory of the size asked for that no live block uses,   *)
(* or nothing; mm_free takes a live block back; what a client has written  *)
(* into a live block stays there.  Where blocks are, and how the free      *)
(* memory is organised, is left open.                                      *)
(***************************************************************************)
EXTENDS Integers

CONSTANTS MAX_HEAP, Ids, Requests

VARIABLES block,    \* block[i]: address and size of the live block of i
          intact    \* whether every live block holds what was written to it

allocVars == <<block, intact>>

Extent(b) == b.lo .. b.lo + b.size - 1

AllocInit == block = [i \in {} |-> 0] /\ intact = TRUE

Malloc(i, b) ==
    /\ i \notin DOMAIN block
    /\ Extent(b) \subseteq 0 .. MAX_HEAP - 1
    /\ \A k \in DOMAIN block : Extent(b) \cap Extent(block[k]) = {}
    /\ block' = [k \in DOMAIN block \cup {i} |-> IF k = i THEN b ELSE block[k]]
    /\ UNCHANGED intact

Free(i) ==
    /\ i \in DOMAIN block
    /\ block' = [k \in DOMAIN block \ {i} |-> block[k]]
    /\ UNCHANGED intact

\* The block moves; what moves with it is covered by intact.
Realloc(i, b) ==
    /\ i \in DOMAIN block
    /\ Extent(b) \subseteq 0 .. MAX_HEAP - 1
    /\ \A k \in DOMAIN block : Extent(b) \cap Extent(block[k]) = {}
    /\ block' = [block EXCEPT ![i] = b]
    /\ UNCHANGED intact

\* The heap is initialised again: every block is gone.
Reset == block' = [i \in {} |-> 0] /\ UNCHANGED intact

AllocNext ==
    \/ \E i \in Ids, n \in 0 .. MAX_HEAP \div 8, size \in Requests :
          \/ Malloc(i, [lo |-> 8 * n, size |-> size])
          \/ Realloc(i, [lo |-> 8 * n, size |-> size])
    \/ \E i \in Ids : Free(i)
    \/ Reset

AllocSpec == AllocInit /\ [][AllocNext]_allocVars
=============================================================================
