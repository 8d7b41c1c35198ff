----------------------------- MODULE Evaluation -----------------------------
(***************************************************************************)
(* The evaluation of the allocator by main of mdriver.c: a trace that      *)
(* eval_mm_valid accepts is replayed once by eval_mm_util, which measures  *)
(* how well the heap is used, and several times by eval_mm_speed, which is *)
(* timed.  The replays check nothing; where mm.c answers NULL they end the *)
(* program.                                                                *)
(*                                                                         *)
(* MDriver makes up the requests of a trace while it serves them; here     *)
(* they are recorded with their answers, for the replays.                  *)
(***************************************************************************)
EXTENDS MDriver, Sequences

CONSTANTS MaxOps,    \* bound: the first trace is replayed if it is no longer,
                     \* every other trace is only checked
          Repeats    \* how often fsecs runs eval_mm_speed

ASSUME EvaluationAssumption == MaxOps \in Nat \ {0} /\ Repeats \in Nat \ {0}

VARIABLES phase,           \* which eval_mm_ function runs
          trace,           \* trace->ops, with the addresses eval_mm_valid was given
          followed,        \* whether the trace is recorded
          i,               \* index of the request that is replayed
          lap,             \* runs of eval_mm_speed begun
          total_size, max_total_size   \* locals of eval_mm_util

replayVars == <<i, lap, total_size, max_total_size>>
mainVars   == <<phase, trace, followed, replayVars>>
allVars    == <<vars, mainVars>>

Entry(type, index, size, bp) ==
    [type |-> type, index |-> index, size |-> size, bp |-> bp]

-----------------------------------------------------------------------------
(* eval_mm_valid, as in MDriver, and the record of its requests.           *)

Recorded(entry) ==
    /\ followed' = (followed /\ Len(trace) < MaxOps)
    /\ trace' = IF followed' THEN Append(trace, entry) ELSE <<>>
    /\ UNCHANGED <<phase, replayVars>>

Checking == phase = "valid"

CheckedRequest ==
    /\ Checking
    /\ \E index \in Ids, size \in Requests : Alloc(index, size) \/ Realloc(index, size)
    /\ UNCHANGED mainVars

CheckedReturn ==
    /\ Checking
    /\ AllocReturns \/ ReallocReturns
    /\ Recorded(Entry(op.type, op.index, op.size, call.bp))

CheckedFailure == Checking /\ (AllocFails \/ ReallocFails) /\ UNCHANGED mainVars

CheckedFree(index) ==
    /\ Checking
    /\ FreeBlock(index)
    /\ Recorded(Entry("FREE", index, blocks[index].size, NULL))

\* A search of the free list, in whatever function.
Search == MallocRuns /\ UNCHANGED mainVars

-----------------------------------------------------------------------------
(* The replays.                                                            *)

\* Mutant: a replay goes on with the heap it finds.
Restarted_AsIs == UNCHANGED heapVars

\* mem_reset_brk and mm_init at the start of eval_mm_util and eval_mm_speed.
\* The entries of trace->blocks stay in the code; each is written before it is
\* read again.
Restarted == mm_init

Replay(function) ==
    /\ Restarted
    /\ phase' = function /\ i' = 1
    /\ blocks' = <<>>
    /\ UNCHANGED <<ranges, op, error, trace, followed>>

\* eval_mm_valid returns 1.
Accepted ==
    /\ Checking /\ Ready /\ followed
    /\ Replay("util")
    /\ total_size' = 0 /\ max_total_size' = 0
    /\ UNCHANGED lap

Replaying == phase \in {"util", "speed"} /\ i <= Len(trace)

AllReplayed(function) == phase = function /\ i > Len(trace) /\ Ready

ReplayRequest ==
    /\ Replaying /\ trace[i].type # "FREE"
    /\ Request(trace[i].type, trace[i].index, trace[i].size)
    /\ UNCHANGED mainVars

\* Mutant: a block that moves counts as a new one.
Grown_Moved(newsize, oldsize) == total_size + newsize

Grown(newsize, oldsize) == total_size + (newsize - oldsize)

HighWater(newtotal) == IF newtotal > max_total_size THEN newtotal ELSE max_total_size

\* The statistics of eval_mm_util; eval_mm_speed has none.
Counted(newtotal) ==
    /\ i' = i + 1
    /\ \/ /\ phase = "util"
          /\ total_size' = newtotal
          /\ max_total_size' = HighWater(newtotal)
       \/ phase = "speed" /\ UNCHANGED <<total_size, max_total_size>>
    /\ UNCHANGED <<phase, trace, followed, lap>>

\* mm_malloc and mm_realloc have returned: nothing is checked and nothing is
\* written to the block.
Remembered ==
    /\ blocks' = WithBlock(call.bp)
    /\ \/ /\ op.type = "ALLOC"
          /\ UNCHANGED mem
          /\ Counted(Grown(op.size, 0))
       \/ /\ op.type = "REALLOC"
          /\ mem' = Reallocated(mem, call.bp, blocks[op.index].lo, op.size)
          /\ Counted(Grown(op.size, blocks[op.index].size))
    /\ UNCHANGED error

\* mdriver exits, or mm_realloc has copied to the null pointer.
GivenUp ==
    /\ error' = (IF op.type = "ALLOC" THEN "app_error" ELSE "crashed")
    /\ UNCHANGED <<mem, blocks, mainVars>>

ReplayReturn ==
    /\ Replaying /\ Serving
    /\ Done
    /\ IF call.bp # NULL THEN Remembered ELSE GivenUp
    /\ UNCHANGED ranges

ReplayFree ==
    /\ Replaying /\ trace[i].type = "FREE"
    /\ mm_free(trace[i].index)
    /\ Counted(total_size - blocks[trace[i].index].size)
    /\ UNCHANGED ranges

\* eval_mm_util returns max_total_size / mem_heapsize(); fsecs begins.
Utilized ==
    /\ AllReplayed("util")
    /\ Replay("speed")
    /\ lap' = 1
    /\ UNCHANGED <<total_size, max_total_size>>

\* The loop of ftimer_gettod.
NextLap ==
    /\ AllReplayed("speed") /\ lap < Repeats
    /\ Replay("speed")
    /\ lap' = lap + 1
    /\ UNCHANGED <<total_size, max_total_size>>

\* main goes on to the next trace file when this one was found to be bad, has
\* been timed, or is not followed.
NextFile ==
    /\ NewTrace
    /\ \/ Checking /\ (error # "none" \/ ~followed)
       \/ AllReplayed("speed") /\ lap = Repeats
    /\ phase' = "valid" /\ trace' = <<>> /\ followed' = FALSE
    /\ i' = 1 /\ lap' = 0 /\ total_size' = 0 /\ max_total_size' = 0

-----------------------------------------------------------------------------
EvalInit == /\ Init
            /\ phase = "valid" /\ trace = <<>> /\ followed = TRUE
            /\ i = 1 /\ lap = 0 /\ total_size = 0 /\ max_total_size = 0

EvalNext == \/ CheckedRequest \/ CheckedReturn \/ CheckedFailure
            \/ \E index \in Ids : CheckedFree(index)
            \/ Search
            \/ Accepted \/ Utilized \/ NextLap \/ NextFile
            \/ ReplayRequest \/ ReplayReturn \/ ReplayFree

EvalSpec == EvalInit /\ [][EvalNext]_allVars

\* mdriver is one process that runs on.
FairSpec == EvalSpec /\ WF_allVars(Search)

-----------------------------------------------------------------------------
(* Properties.                                                             *)

EvalTypeOK ==
    /\ TypeOK
    /\ phase \in {"valid", "util", "speed"} /\ followed \in BOOLEAN
    /\ Len(trace) <= MaxOps
    /\ \A k \in DOMAIN trace :
          /\ trace[k].type \in {"ALLOC", "REALLOC", "FREE"}
          /\ trace[k].index \in Ids /\ trace[k].size \in Requests
    /\ i \in 1 .. MaxOps + 1 /\ lap \in 0 .. Repeats
    /\ total_size \in Nat /\ max_total_size \in Nat

\* The replays start from a heap that is full of what eval_mm_valid and its
\* client have left, and they do not fill their blocks; yet mm.c gives every
\* request the address it gave in eval_mm_valid.  So a trace that was found to
\* be valid never ends mdriver in eval_mm_util or eval_mm_speed.
ReplaysAgree ==
    phase # "valid" =>
        /\ error = "none"
        /\ call.at = "done" => call.bp = trace[i].bp

\* Requests up to the k-th whose block is live after the k-th.
LiveAfter(k) == {n \in 1 .. k : /\ trace[n].type # "FREE"
                                /\ \A j \in n + 1 .. k : trace[j].index # trace[n].index}

OptimalSize(k) == MapThenSumSet(LAMBDA n : trace[n].size, LiveAfter(k))

\* eval_mm_util computes what an optimal allocator would have needed at most,
\* no gaps and no internal fragmentation (mdriver.c:689-690), and no more than
\* the heap has; in the end what is live is what eval_mm_valid saw live.
UtilizationRight ==
    phase = "util" /\ call.at = "idle" =>
        /\ total_size = OptimalSize(i - 1)
        /\ max_total_size = Max({OptimalSize(k) : k \in 0 .. i - 1})
        /\ max_total_size <= brk
        /\ i > Len(trace) =>
              total_size = MapThenSumSet(LAMBDA r : r.hi - r.lo + 1, ranges)

\* Only eval_mm_valid looks at blocks and fills them.
Honoured == Checking => error # "bad range" /\ Intact

Promise == INSTANCE Allocator WITH block <- blocks, intact <- Honoured

\* The client sees aligned, disjoint blocks that keep its data: add_range never
\* has anything to complain of, and what mm_realloc loses is noticed at once.
ImplementsAllocator == Promise!AllocSpec

\* find_fit ends: the walk reaches the epilogue or a block that fits.
MallocReturns == call.at = "fit" ~> call.at # "fit"
=============================================================================
