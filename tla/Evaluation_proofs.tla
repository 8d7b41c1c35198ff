-------------------------- MODULE Evaluation_proofs --------------------------
(***************************************************************************)
(* Proofs about the evaluation of the allocator: what MDriver_proofs shows *)
(* of the heap also holds in the replays by eval_mm_util and eval_mm_speed *)
(* and from one trace to the next.  What is needed for it is that a replay *)
(* makes only requests that make sense, which the record of a trace says.  *)
(* From that, and from what the client knows of its blocks, follows that   *)
(* the evaluation sees the allocator that mm.h promises, that the replays  *)
(* are given the addresses of the first run, and that what eval_mm_util    *)
(* counts is what the live requests ask for.                               *)
(***************************************************************************)
EXTENDS Evaluation, MDriver_proofs

\* Indices that are live after the first k requests of the trace t.
Live(t, k) ==
    {x \in Ids : \E n \in 1 .. k : /\ t[n].index = x /\ t[n].type # "FREE"
                                   /\ \A j \in n + 1 .. k : t[j].index # x}

TraceEntries ==
    [type : {"ALLOC", "REALLOC", "FREE"}, index : Ids, size : Requests, bp : Int]

\* Each request allocates an index that is not live or moves or frees one that is.
Legal(t) ==
    \A n \in 1 .. Len(t) :
        \/ t[n].type = "ALLOC" /\ t[n].index \notin Live(t, n - 1)
        \/ t[n].type \in {"REALLOC", "FREE"} /\ t[n].index \in Live(t, n - 1)

\* The records of the trace, of the blocks and of the request being served.
Records ==
    /\ trace \in Seq(TraceEntries) /\ Legal(trace)
    /\ \A k \in DOMAIN blocks : k \in Ids /\ blocks[k].size \in Requests
    /\ call.at # "idle" => op.type \in {"ALLOC", "REALLOC"} /\ op.index \in Ids /\ op.size \in Requests

\* The block table has the indices that are live in the recorded trace.
CheckedSoFar == Checking /\ followed => DOMAIN blocks = Live(trace, Len(trace))

\* ... or in what has been replayed of it, and the request being served is the next.
ReplayedSoFar ==
    ~Checking =>
        /\ i \in 1 .. Len(trace) + 1
        /\ DOMAIN blocks = Live(trace, i - 1)
        /\ call.at # "idle" => /\ i <= Len(trace)
                               /\ op.type = trace[i].type /\ op.index = trace[i].index

EvalInv ==
    /\ HeapInv
    /\ Records
    /\ error = "none" => CheckedSoFar /\ ReplayedSoFar

-----------------------------------------------------------------------------
(* Live indices.                                                           *)

LEMMA LiveNone == \A t : Live(t, 0) = {}
BY DEF Live

LEMMA LiveNext ==
  ASSUME NEW t, NEW k \in Nat, t[k + 1].index \in Ids
  PROVE  Live(t, k + 1) = IF t[k + 1].type = "FREE" THEN Live(t, k) \ {t[k + 1].index}
                                                   ELSE Live(t, k) \cup {t[k + 1].index}
<1>1. 1 .. k + 1 = (1 .. k) \cup {k + 1}
  OBVIOUS
<1>2. ASSUME NEW n \in 1 .. k PROVE n + 1 .. k + 1 = (n + 1 .. k) \cup {k + 1}
  OBVIOUS
<1>3. (k + 1) + 1 .. k + 1 = {}
  OBVIOUS
<1> DEFINE Last(x, n, m) == /\ t[n].index = x /\ t[n].type # "FREE"
                            /\ \A j \in n + 1 .. m : t[j].index # x
<1>4. ASSUME NEW x \in Ids
      PROVE  (\E n \in 1 .. k + 1 : Last(x, n, k + 1))
             <=> (\/ t[k + 1].index = x /\ t[k + 1].type # "FREE"
                  \/ t[k + 1].index # x /\ \E n \in 1 .. k : Last(x, n, k))
  <2>1. Last(x, k + 1, k + 1) <=> (t[k + 1].index = x /\ t[k + 1].type # "FREE")
    BY <1>3
  <2>2. ASSUME NEW n \in 1 .. k
        PROVE  Last(x, n, k + 1) <=> (Last(x, n, k) /\ t[k + 1].index # x)
    BY <1>2
  <2> HIDE DEF Last
  <2> QED BY <1>1, <2>1, <2>2
<1>5. ASSUME NEW x
      PROVE  x \in Live(t, k + 1) <=> (/\ x \in Ids
                                       /\ \/ t[k + 1].index = x /\ t[k + 1].type # "FREE"
                                          \/ t[k + 1].index # x /\ x \in Live(t, k))
  BY <1>4 DEF Live
<1>6. Live(t, k) \subseteq Ids
  BY DEF Live
<1>7. CASE t[k + 1].type = "FREE"
  <2>1. \A x : x \in Live(t, k + 1) <=> x \in Live(t, k) \ {t[k + 1].index}
    BY <1>5, <1>6, <1>7
  <2> QED BY <1>7, <2>1
<1>8. CASE t[k + 1].type # "FREE"
  <2>1. \A x : x \in Live(t, k + 1) <=> x \in Live(t, k) \cup {t[k + 1].index}
    BY <1>5, <1>6, <1>8
  <2> QED BY <1>8, <2>1
<1> QED
  BY <1>7, <1>8

LEMMA LiveSame ==
  ASSUME NEW t, NEW u, NEW k \in Nat, \A n \in 1 .. k : t[n] = u[n]
  PROVE  Live(t, k) = Live(u, k)
<1>1. \A n \in 1 .. k : \A j \in n + 1 .. k : j \in 1 .. k
  OBVIOUS
<1> QED
  BY <1>1 DEF Live

\* What a request does to the live indices.
After(live, type, index) == IF type = "FREE" THEN live \ {index} ELSE live \cup {index}

\* A legal trace stays legal with a request that makes sense.
LEMMA LegalAppend ==
  ASSUME NEW t \in Seq(TraceEntries), Legal(t), NEW e \in TraceEntries,
         \/ e.type = "ALLOC" /\ e.index \notin Live(t, Len(t))
         \/ e.type \in {"REALLOC", "FREE"} /\ e.index \in Live(t, Len(t))
  PROVE  /\ Append(t, e) \in Seq(TraceEntries) /\ Legal(Append(t, e))
         /\ Live(Append(t, e), Len(Append(t, e))) = After(Live(t, Len(t)), e.type, e.index)
<1> DEFINE u == Append(t, e)
           m == Len(t)
<1>1. /\ u \in Seq(TraceEntries) /\ Len(u) = m + 1 /\ u[m + 1] = e /\ m \in Nat
      /\ \A n \in 1 .. m : u[n] = t[n]
  OBVIOUS
<1> HIDE DEF u
<1>2. ASSUME NEW k \in 0 .. m PROVE Live(u, k) = Live(t, k)
  <2>1. k \in Nat /\ \A n \in 1 .. k : n \in 1 .. m
    BY <1>1
  <2> QED BY <1>1, <2>1, LiveSame
<1>3. ASSUME NEW n \in 1 .. m + 1
      PROVE  \/ u[n].type = "ALLOC" /\ u[n].index \notin Live(u, n - 1)
             \/ u[n].type \in {"REALLOC", "FREE"} /\ u[n].index \in Live(u, n - 1)
  <2>1. CASE n = m + 1
    <3>1. n - 1 = m /\ m \in 0 .. m
      BY <1>1, <2>1
    <3> QED BY <1>1, <1>2, <2>1, <3>1
  <2>2. CASE n # m + 1
    <3>1. n \in 1 .. m /\ n - 1 \in 0 .. m
      BY <1>1, <2>2
    <3> QED BY <1>1, <1>2, <3>1 DEF Legal
  <2> QED BY <2>1, <2>2
<1>4. e.index \in Ids
  BY DEF TraceEntries
<1>5. Live(u, m + 1) = After(Live(t, m), e.type, e.index)
  <2>1. m \in Nat /\ u[m + 1].index \in Ids /\ m \in 0 .. m
    BY <1>1, <1>4
  <2>2. Live(u, m + 1) = IF u[m + 1].type = "FREE" THEN Live(u, m) \ {u[m + 1].index}
                                                  ELSE Live(u, m) \cup {u[m + 1].index}
    BY <2>1, LiveNext
  <2> QED BY <1>1, <1>2, <2>1, <2>2 DEF After
<1>6. Legal(u)
  BY <1>1, <1>3 DEF Legal
<1> QED
  BY <1>1, <1>5, <1>6 DEF u

-----------------------------------------------------------------------------
(* The steps of eval_mm_valid.                                             *)

LEMMA CheckedRequestStep ==
  ASSUME NoScraps, EvalInv, CheckedRequest
  PROVE  EvalInv'
<1>1. PICK index \in Ids, size \in Requests : Alloc(index, size) \/ Realloc(index, size)
  BY DEF CheckedRequest
<1>2. HeapInv'
  BY <1>1, RequestStep DEF Alloc, Realloc, EvalInv
<1>3. /\ op'.type \in {"ALLOC", "REALLOC"} /\ op'.index = index /\ op'.size = size
      /\ blocks' = blocks /\ error' = error /\ trace' = trace /\ phase' = phase
      /\ followed' = followed
  BY <1>1 DEF Alloc, Realloc, Request, clientVars, CheckedRequest, mainVars
<1>4. Records'
  BY <1>3 DEF Records, EvalInv
<1>5. (CheckedSoFar /\ ReplayedSoFar)' <=> (CheckedSoFar /\ ReplayedSoFar)
  BY <1>3 DEF CheckedRequest, CheckedSoFar, ReplayedSoFar, Checking
<1> QED
  BY <1>2, <1>3, <1>4, <1>5 DEF EvalInv

LEMMA CheckedFailureStep ==
  ASSUME EvalInv, CheckedFailure
  PROVE  EvalInv'
<1>1. HeapInv'
  BY FailureStep DEF EvalInv, CheckedFailure
<1>2. /\ call' = Idle /\ op' = NoOp /\ blocks' = blocks /\ trace' = trace /\ error' # "none"
  BY DEF CheckedFailure, AllocFails, ReallocFails, Done, Report, mainVars
<1>3. Records'
  BY <1>2, IdleFacts DEF Records, EvalInv
<1> QED
  BY <1>1, <1>2, <1>3 DEF EvalInv

LEMMA SearchKeeps ==
  ASSUME NoScraps, EvalInv, Search
  PROVE  EvalInv'
<1>1. HeapInv'
  BY SearchStep DEF EvalInv, Search
<1>2. /\ UNCHANGED <<blocks, op, error, phase, trace, followed, i>>
      /\ call.at = "fit"
  BY DEF Search, MallocRuns, MallocStep, FindNext, Found, NotFound, clientVars, mainVars, replayVars
<1>3. Records'
  BY <1>2 DEF Records, EvalInv
<1>4. error = "none" => (CheckedSoFar /\ ReplayedSoFar)'
  BY <1>2 DEF EvalInv, CheckedSoFar, ReplayedSoFar, Checking
<1> QED
  BY <1>1, <1>2, <1>3, <1>4 DEF EvalInv

\* A request that made sense has been served and is recorded.
LEMMA RecordedKeeps ==
  ASSUME EvalInv, Checking, error = "none", HeapInv', call'.at = "idle",
         NEW e \in TraceEntries, Recorded(e),
         \/ e.type = "ALLOC" /\ e.index \notin DOMAIN blocks
         \/ e.type \in {"REALLOC", "FREE"} /\ e.index \in DOMAIN blocks,
         \A k \in DOMAIN blocks' : k \in Ids /\ blocks'[k].size \in Requests,
         error' = "none" => DOMAIN blocks' = After(DOMAIN blocks, e.type, e.index)
  PROVE  EvalInv'
<1>1. /\ trace' = (IF followed' THEN Append(trace, e) ELSE <<>>)
      /\ followed' => followed
      /\ phase' = phase
  BY DEF Recorded
<1>2. Checking'
  BY <1>1 DEF Checking
<1>3. CASE ~followed'
  <2>1. trace' = <<>>
    BY <1>1, <1>3
  <2>2. trace' \in Seq(TraceEntries) /\ Legal(trace')
    BY <2>1 DEF Legal
  <2>3. Records'
    BY <2>2 DEF Records
  <2> QED BY <1>2, <1>3, <2>3 DEF EvalInv, CheckedSoFar, ReplayedSoFar
<1>4. CASE followed'
  <2>1. followed /\ trace' = Append(trace, e)
    BY <1>1, <1>4
  <2>2. /\ trace \in Seq(TraceEntries) /\ Legal(trace)
        /\ DOMAIN blocks = Live(trace, Len(trace))
    BY <2>1 DEF EvalInv, Records, CheckedSoFar
  <2>3. /\ trace' \in Seq(TraceEntries) /\ Legal(trace')
        /\ Live(trace', Len(trace')) = After(Live(trace, Len(trace)), e.type, e.index)
    BY <2>1, <2>2, LegalAppend
  <2>4. Records'
    BY <2>3 DEF Records
  <2>5. error' = "none" => CheckedSoFar'
    BY <2>2, <2>3 DEF CheckedSoFar
  <2> QED BY <1>2, <2>4, <2>5 DEF EvalInv, ReplayedSoFar
<1> QED
  BY <1>3, <1>4

LEMMA CheckedReturnStep ==
  ASSUME EvalInv, CheckedReturn
  PROVE  EvalInv'
<1> DEFINE e == Entry(op.type, op.index, op.size, call.bp)
<1>1. Checking /\ (AllocReturns \/ ReallocReturns) /\ Recorded(e)
  BY DEF CheckedReturn
<1>2. Serving /\ call.bp # NULL /\ call' = Idle
  BY <1>1 DEF AllocReturns, ReallocReturns, Done
<1>3. error = "none" /\ call.at = "done" /\ call'.at = "idle"
  BY <1>2, IdleFacts DEF Serving
<1>4. HeapInv'
  BY <1>1, AllocReturnsStep, ReallocReturnsStep DEF EvalInv
<1>5. call.bp \in Int /\ Sensible
  <2>1. PICK B : HeapState(B)
    BY <1>3 DEF EvalInv, HeapInv
  <2> QED BY <1>3, <2>1 DEF EvalInv, HeapInv, HeapState, SearchState
<1>6. /\ op.type \in {"ALLOC", "REALLOC"} /\ op.index \in Ids /\ op.size \in Requests
      /\ \A k \in DOMAIN blocks : k \in Ids /\ blocks[k].size \in Requests
  BY <1>3 DEF EvalInv, Records
<1>7. /\ e \in TraceEntries /\ e.type = op.type /\ e.index = op.index
  BY <1>5, <1>6 DEF Entry, TraceEntries
<1>8. \/ op.type = "ALLOC" /\ op.index \notin DOMAIN blocks
      \/ op.type = "REALLOC" /\ op.index \in DOMAIN blocks
  BY <1>3, <1>5 DEF Sensible
<1>9. \/ blocks' = WithBlock(call.bp)
      \/ blocks' = blocks /\ error' # "none"
  BY <1>1 DEF AllocReturns, ReallocReturns, Remember, Report
<1>10. /\ \A k \in DOMAIN blocks' : k \in Ids /\ blocks'[k].size \in Requests
       /\ error' = "none" => DOMAIN blocks' = After(DOMAIN blocks, op.type, op.index)
  BY <1>6, <1>9 DEF WithBlock, After
<1> HIDE DEF e
<1> QED
  BY <1>1, <1>3, <1>4, <1>7, <1>8, <1>10, RecordedKeeps

LEMMA FreedTable ==
  ASSUME NEW x, mm_free(x), \A k \in DOMAIN blocks : k \in Ids /\ blocks[k].size \in Requests
  PROVE  /\ DOMAIN blocks' = DOMAIN blocks \ {x}
         /\ \A k \in DOMAIN blocks' : k \in Ids /\ blocks'[k].size \in Requests
BY DEF mm_free, Restrict

LEMMA CheckedFreeStep ==
  ASSUME EvalInv, NEW x \in Ids, CheckedFree(x)
  PROVE  EvalInv'
<1> DEFINE e == Entry("FREE", x, blocks[x].size, NULL)
<1>1. Checking /\ mm_free(x) /\ Recorded(e)
  BY DEF CheckedFree, FreeBlock
<1>2. /\ error = "none" /\ x \in DOMAIN blocks /\ call' = call /\ call.at = "idle"
  BY <1>1 DEF mm_free, Ready
<1>3. HeapInv'
  BY <1>1, FreeStep DEF EvalInv
<1>4. \A k \in DOMAIN blocks : k \in Ids /\ blocks[k].size \in Requests
  BY DEF EvalInv, Records
<1>5. /\ e \in TraceEntries /\ e.type = "FREE" /\ e.index = x
  BY <1>2, <1>4 DEF Entry, TraceEntries, NULL
<1>6. /\ DOMAIN blocks' = After(DOMAIN blocks, "FREE", x)
      /\ \A k \in DOMAIN blocks' : k \in Ids /\ blocks'[k].size \in Requests
  BY <1>1, <1>4, FreedTable DEF After
<1> HIDE DEF e
<1> QED
  BY <1>1, <1>2, <1>3, <1>5, <1>6, RecordedKeeps

-----------------------------------------------------------------------------
(* The steps of the replays.                                               *)

\* A replay begins on the heap that mm_init leaves.
LEMMA ReplayBegins ==
  ASSUME NoScraps, EvalInv, NEW function \in {"util", "speed"}, Replay(function)
  PROVE  EvalInv'
<1>1. /\ mem' = Initialised(mem) /\ brk' = InitialBrk /\ call' = Idle /\ blocks' = <<>>
      /\ trace' = trace /\ phase' = function /\ i' = 1
  BY DEF Replay, Restarted, mm_init
<1>2. DOMAIN mem = Words
  BY DEF EvalInv, HeapInv
<1>3. HeapInv'
  BY <1>1, <1>2, Starting
<1>4. call'.at = "idle" /\ ~Checking'
  BY <1>1, IdleFacts DEF Checking
<1>5. DOMAIN blocks' = {}
  BY <1>1
<1>6. Records'
  BY <1>1, <1>4, <1>5 DEF EvalInv, Records
<1>7. CheckedSoFar'
  BY <1>4 DEF CheckedSoFar
<1>8. ReplayedSoFar'
  <2>1. Len(trace) \in Nat
    BY DEF EvalInv, Records
  <2>2. i' \in 1 .. Len(trace') + 1 /\ i' - 1 = 0
    BY <1>1, <2>1
  <2> QED BY <1>4, <1>5, <2>2, LiveNone DEF ReplayedSoFar
<1> QED
  BY <1>3, <1>6, <1>7, <1>8 DEF EvalInv

\* What a replay knows of its next request.
LEMMA NextIsLegal ==
  ASSUME EvalInv, Replaying, error = "none"
  PROVE  /\ ~Checking /\ i \in 1 .. Len(trace) /\ Len(trace) \in Nat /\ i \in Int
         /\ trace[i] \in TraceEntries
         /\ \/ trace[i].type = "ALLOC" /\ trace[i].index \notin DOMAIN blocks
            \/ trace[i].type \in {"REALLOC", "FREE"} /\ trace[i].index \in DOMAIN blocks
         /\ Live(trace, i) = After(DOMAIN blocks, trace[i].type, trace[i].index)
<1>1. ~Checking
  BY DEF Replaying, Checking
<1>2. trace \in Seq(TraceEntries) /\ Legal(trace)
  BY DEF EvalInv, Records
<1>3. i \in 1 .. Len(trace) + 1 /\ DOMAIN blocks = Live(trace, i - 1)
  BY <1>1 DEF EvalInv, ReplayedSoFar
<1>4. i \in 1 .. Len(trace) /\ Len(trace) \in Nat /\ i \in Int
  BY <1>2, <1>3 DEF Replaying
<1>5. trace[i] \in TraceEntries
  BY <1>2, <1>4
<1>6. i - 1 \in Nat /\ (i - 1) + 1 = i /\ trace[i].index \in Ids
  BY <1>4, <1>5 DEF TraceEntries
<1>7. Live(trace, i) = After(Live(trace, i - 1), trace[i].type, trace[i].index)
  <2> DEFINE k == i - 1
  <2>1. k \in Nat /\ trace[k + 1].index \in Ids /\ k + 1 = i
    BY <1>6
  <2> HIDE DEF k
  <2>2. Live(trace, k + 1) = IF trace[k + 1].type = "FREE"
                             THEN Live(trace, k) \ {trace[k + 1].index}
                             ELSE Live(trace, k) \cup {trace[k + 1].index}
    BY <2>1, LiveNext
  <2>3. Live(trace, i) = After(Live(trace, k), trace[i].type, trace[i].index)
    BY <2>1, <2>2 DEF After
  <2> QED BY <2>3 DEF k
<1> QED
  BY <1>1, <1>2, <1>3, <1>4, <1>5, <1>7 DEF Legal

LEMMA ReplayRequestStep ==
  ASSUME NoScraps, EvalInv, ReplayRequest
  PROVE  EvalInv'
<1>1. /\ Replaying /\ trace[i].type # "FREE"
      /\ Request(trace[i].type, trace[i].index, trace[i].size)
      /\ UNCHANGED mainVars
  BY DEF ReplayRequest
<1>2. /\ error = "none" /\ error' = error /\ blocks' = blocks /\ call'.at = "fit"
      /\ op' = [type |-> trace[i].type, index |-> trace[i].index, size |-> trace[i].size]
      /\ UNCHANGED <<trace, phase, followed, i>>
  BY <1>1 DEF Request, Ready, clientVars, mainVars, replayVars, mm_malloc
<1>3. /\ ~Checking /\ i \in 1 .. Len(trace) /\ trace[i] \in TraceEntries
      /\ \/ trace[i].type = "ALLOC" /\ trace[i].index \notin DOMAIN blocks
         \/ trace[i].type \in {"REALLOC", "FREE"} /\ trace[i].index \in DOMAIN blocks
  BY <1>1, <1>2, NextIsLegal
<1>4. /\ trace[i].size \in Requests /\ trace[i].index \in Ids
      /\ trace[i].type \in {"ALLOC", "REALLOC"}
  BY <1>1, <1>3 DEF TraceEntries
<1>5. HeapInv'
  BY <1>1, <1>3, <1>4, RequestStep DEF EvalInv
<1>6. op'.type = trace[i].type /\ op'.index = trace[i].index /\ op'.size = trace[i].size
  BY <1>2
<1>7. Records'
  BY <1>2, <1>4, <1>6 DEF EvalInv, Records
<1>8. (CheckedSoFar /\ ReplayedSoFar)'
  BY <1>2, <1>3, <1>6 DEF EvalInv, CheckedSoFar, ReplayedSoFar, Checking
<1> QED
  BY <1>5, <1>7, <1>8 DEF EvalInv

\* A request of the replay has been served: the block table is as it was after
\* this request in eval_mm_valid.
LEMMA CountedKeeps ==
  ASSUME EvalInv, Replaying, error = "none", HeapInv', call'.at = "idle",
         NEW newtotal, Counted(newtotal),
         \A k \in DOMAIN blocks' : k \in Ids /\ blocks'[k].size \in Requests,
         DOMAIN blocks' = After(DOMAIN blocks, trace[i].type, trace[i].index)
  PROVE  EvalInv'
<1>1. /\ ~Checking /\ i \in 1 .. Len(trace) /\ Len(trace) \in Nat /\ i \in Int
      /\ Live(trace, i) = After(DOMAIN blocks, trace[i].type, trace[i].index)
  BY NextIsLegal
<1>2. i' = i + 1 /\ phase' = phase /\ trace' = trace
  BY DEF Counted
<1>3. i' \in 1 .. Len(trace') + 1 /\ i' - 1 = i
  BY <1>1, <1>2
<1>4. Records'
  BY <1>2 DEF EvalInv, Records
<1>5. CheckedSoFar' /\ ReplayedSoFar'
  BY <1>1, <1>2, <1>3 DEF CheckedSoFar, ReplayedSoFar, Checking
<1> QED
  BY <1>4, <1>5 DEF EvalInv

\* mm_malloc has answered; nothing is written to the block that is new.
LEMMA RememberedKeepsHeap ==
  ASSUME HeapInv, Serving, call.bp # NULL, Remembered, call' = Idle, brk' = brk
  PROVE  HeapInv'
<1> DEFINE new == call.bp
           old == blocks[op.index].lo
<1>1. PICK B : /\ Good(mem, brk, B)
               /\ AllocatedIn(mem, brk, B) = Owned \cup {new}
               /\ new \notin Owned
               /\ \A k, j \in DOMAIN blocks : blocks[k].lo = blocks[j].lo => k = j
               /\ op.size \in Nat /\ op.size + 8 <= Size(mem, new)
               /\ Sensible
  BY ServingFacts
<1>2. blocks' = WithBlock(new)
  BY DEF Remembered
<1>3. CASE op.type = "ALLOC"
  <2>1. mem' = mem /\ op.index \notin DOMAIN blocks
    BY <1>1, <1>3 DEF Remembered, Sensible, Serving
  <2>2. /\ DOMAIN blocks' = DOMAIN blocks \cup {op.index}
        /\ blocks'[op.index].lo = new
        /\ \A k \in DOMAIN blocks : blocks'[k] = blocks[k]
    BY <1>2, <2>1 DEF WithBlock
  <2>3. Owned' = Owned \cup {new}
    BY <2>2 DEF Owned
  <2>4. \A k, j \in DOMAIN blocks' : blocks'[k].lo = blocks'[j].lo => k = j
    BY <1>1, <2>2 DEF Owned
  <2> QED BY <1>1, <2>1, <2>3, <2>4, BackToIdle
<1>4. CASE op.type = "REALLOC"
  <2>1. /\ mem' = Reallocated(mem, new, old, op.size)
        /\ op.index \in DOMAIN blocks /\ old \in Owned
    BY <1>1, <1>4 DEF Remembered, Sensible, Serving, Owned
  <2>2. old \in AllocatedIn(mem, brk, B) /\ new \in AllocatedIn(mem, brk, B) /\ old # new
    BY <1>1, <2>1
  <2>3. \E C : /\ Good(mem', brk, C)
               /\ AllocatedIn(mem', brk, C) = AllocatedIn(mem, brk, B) \ {old}
    <3> DEFINE w == Reallocated(mem, new, old, op.size)
    <3>1. w = mem' /\ op.size \in Nat /\ op.size + 8 <= Size(mem, new) /\ Good(mem, brk, B)
      BY <1>1, <2>1
    <3> HIDE DEF new, old
    <3>2. \E C : /\ Good(w, brk, C)
                 /\ AllocatedIn(w, brk, C) = AllocatedIn(mem, brk, B) \ {old}
                 /\ Size(w, new) = Size(mem, new)
                 /\ SameBlocks(w, mem, AllocatedIn(mem, brk, B) \ {old, new})
      BY <2>2, <3>1, Moving
    <3> HIDE DEF w
    <3> QED BY <3>1, <3>2
  <2>4. PICK C : /\ Good(mem', brk, C)
                 /\ AllocatedIn(mem', brk, C) = (Owned \cup {new}) \ {old}
    BY <1>1, <2>3
  <2> QED BY <1>1, <1>2, <2>1, <2>4, MovedOwner
<1> QED
  BY <1>3, <1>4 DEF Remembered

LEMMA ReplayReturnStep ==
  ASSUME EvalInv, ReplayReturn
  PROVE  EvalInv'
<1>1. /\ Replaying /\ Serving /\ call' = Idle /\ brk' = brk /\ error = "none" /\ call.at = "done"
  BY DEF ReplayReturn, Done, Serving
<1>2. call'.at = "idle"
  BY <1>1, IdleFacts
<1>3. CASE call.bp # NULL /\ Remembered
  <2>1. HeapInv'
    BY <1>1, <1>3, RememberedKeepsHeap DEF EvalInv
  <2>2. PICK newtotal : Counted(newtotal)
    BY <1>3 DEF Remembered
  <2>3. /\ op.type \in {"ALLOC", "REALLOC"} /\ op.index \in Ids /\ op.size \in Requests
        /\ \A k \in DOMAIN blocks : k \in Ids /\ blocks[k].size \in Requests
        /\ op.type = trace[i].type /\ op.index = trace[i].index
    <3>1. ~Checking
      BY <1>1 DEF Replaying, Checking
    <3> QED BY <1>1, <3>1 DEF EvalInv, Records, ReplayedSoFar
  <2>4. /\ \A k \in DOMAIN blocks' : k \in Ids /\ blocks'[k].size \in Requests
        /\ DOMAIN blocks' = After(DOMAIN blocks, trace[i].type, trace[i].index)
    <3>1. blocks' = WithBlock(call.bp)
      BY <1>3 DEF Remembered
    <3> QED BY <2>3, <3>1 DEF WithBlock, After
  <2> QED BY <1>1, <1>2, <2>1, <2>2, <2>4, CountedKeeps
<1>4. CASE GivenUp
  <2>1. UNCHANGED <<mem, blocks, trace>> /\ error' # "none"
    BY <1>4 DEF GivenUp, mainVars
  <2>2. HeapInv'
    BY <1>1, <2>1, BackToError DEF EvalInv, HeapInv
  <2>3. Records'
    BY <1>2, <2>1 DEF EvalInv, Records
  <2> QED BY <2>1, <2>2, <2>3 DEF EvalInv
<1> QED
  BY <1>3, <1>4 DEF ReplayReturn

LEMMA ReplayFreeStep ==
  ASSUME EvalInv, ReplayFree
  PROVE  EvalInv'
<1> DEFINE x == trace[i].index
<1>1. Replaying /\ trace[i].type = "FREE" /\ mm_free(x)
  BY DEF ReplayFree
<1>2. PICK newtotal : Counted(newtotal)
  BY DEF ReplayFree
<1>3. error = "none" /\ call' = call /\ call.at = "idle"
  BY <1>1 DEF mm_free, Ready
<1>4. HeapInv'
  BY <1>1, FreeStep DEF EvalInv
<1>5. /\ DOMAIN blocks' = DOMAIN blocks \ {x}
      /\ \A k \in DOMAIN blocks' : k \in Ids /\ blocks'[k].size \in Requests
  BY <1>1, FreedTable DEF EvalInv, Records
<1>6. DOMAIN blocks' = After(DOMAIN blocks, trace[i].type, trace[i].index)
  BY <1>1, <1>5 DEF After
<1> QED
  BY <1>1, <1>2, <1>3, <1>4, <1>5, <1>6, CountedKeeps

LEMMA NextFileStep ==
  ASSUME NoScraps, EvalInv, NextFile
  PROVE  EvalInv'
<1>1. /\ NewTrace /\ phase' = "valid" /\ trace' = <<>> /\ followed' = FALSE
      /\ blocks' = <<>> /\ call' = Idle
  BY DEF NextFile, NewTrace, mm_init
<1>2. HeapInv'
  BY <1>1, NewTraceStep DEF EvalInv
<1>3. trace' \in Seq(TraceEntries) /\ Legal(trace') /\ DOMAIN blocks' = {}
  BY <1>1 DEF Legal
<1>4. Records'
  BY <1>1, <1>3, IdleFacts DEF Records
<1> QED
  BY <1>1, <1>2, <1>4 DEF EvalInv, CheckedSoFar, ReplayedSoFar, Checking

-----------------------------------------------------------------------------
(* What clients write: memset and memcpy change bytes inside words.        *)

Numbers(m) == DOMAIN m = Words /\ \A a \in Words : m[a] \in Nat

\* Replacing the first bytes of the word v by those of f.
LEMMA FirstBytesFacts ==
  ASSUME NEW v \in Nat, NEW f \in Nat, NEW k \in Int, k >= 1
  PROVE  /\ FirstBytes(v, k) \in Nat
         /\ (v - FirstBytes(v, k)) + FirstBytes(f, k) \in Nat
         /\ FirstBytes((v - FirstBytes(v, k)) + FirstBytes(f, k), k) = FirstBytes(f, k)
<1>1. CASE k >= 4
  <2>1. \A x : FirstBytes(x, k) = x
    BY <1>1 DEF FirstBytes, WSIZE
  <2>2. (v - v) + f = f
    OBVIOUS
  <2> QED BY <2>1, <2>2
<1>2. ASSUME NEW d \in {256, 65536, 16777216}, \A x : FirstBytes(x, k) = x % d
      PROVE  /\ FirstBytes(v, k) \in Nat
             /\ (v - FirstBytes(v, k)) + FirstBytes(f, k) \in Nat
             /\ FirstBytes((v - FirstBytes(v, k)) + FirstBytes(f, k), k) = FirstBytes(f, k)
  <2>1. /\ v % d \in Nat /\ f % d \in Nat /\ v % d <= v
        /\ ((v - (v % d)) + (f % d)) % d = f % d
    BY Z3T(30)
  <2>2. v - (v % d) \in Nat /\ (v - (v % d)) + (f % d) \in Nat
    BY <2>1
  <2>3. FirstBytes(v, k) = v % d /\ FirstBytes(f, k) = f % d
    BY <1>2
  <2> QED BY <1>2, <2>1, <2>2, <2>3
<1>3. CASE k < 4
  <2>1. /\ 256 ^ 1 = 256 /\ 256 ^ 2 = 65536 /\ 256 ^ 3 = 16777216
    BY Z3T(10)
  <2>2. k = 1 \/ k = 2 \/ k = 3
    BY <1>3
  <2>3. \A x : FirstBytes(x, k) = x % (256 ^ k)
    BY <1>3 DEF FirstBytes, WSIZE
  <2>4. \E d \in {256, 65536, 16777216} : \A x : FirstBytes(x, k) = x % d
    <3>1. CASE k = 1
      <4>1. \A x : FirstBytes(x, k) = x % 256
        BY <2>1, <2>3, <3>1
      <4> QED BY <4>1
    <3>2. CASE k = 2
      <4>1. \A x : FirstBytes(x, k) = x % 65536
        BY <2>1, <2>3, <3>2
      <4> QED BY <4>1
    <3>3. CASE k = 3
      <4>1. \A x : FirstBytes(x, k) = x % 16777216
        BY <2>1, <2>3, <3>3
      <4> QED BY <4>1
    <3> QED BY <2>2, <3>1, <3>2, <3>3
  <2> QED BY <1>2, <2>4
<1> QED
  BY <1>1, <1>3

\* The words that are written to begin with the bytes that were written.
LEMMA OverlayWrites ==
  ASSUME NEW m, Numbers(m), NEW p \in Int, NEW n \in Int,
         NEW w, \A a \in Words : w[a] \in Nat
  PROVE  /\ Numbers(Overlay(m, p, n, w))
         /\ \A a \in Words : p <= a /\ a < p + n =>
               FirstBytes(Overlay(m, p, n, w)[a], (p + n) - a) = FirstBytes(w[a], (p + n) - a)
<1>1. Words \subseteq Int
  BY MemoryFacts DEF Words, WSIZE
<1>2. ASSUME NEW a \in Words, p <= a, a < p + n
      PROVE  /\ Overlay(m, p, n, w)[a] \in Nat
             /\ FirstBytes(Overlay(m, p, n, w)[a], (p + n) - a) = FirstBytes(w[a], (p + n) - a)
  <2> DEFINE k == (p + n) - a
  <2>1. k \in Int /\ k >= 1 /\ m[a] \in Nat /\ w[a] \in Nat
    BY <1>1, <1>2 DEF Numbers
  <2>2. Overlay(m, p, n, w)[a] = (m[a] - FirstBytes(m[a], k)) + FirstBytes(w[a], k)
    BY <1>1, <1>2 DEF Overlay
  <2> HIDE DEF k
  <2>3. /\ (m[a] - FirstBytes(m[a], k)) + FirstBytes(w[a], k) \in Nat
        /\ FirstBytes((m[a] - FirstBytes(m[a], k)) + FirstBytes(w[a], k), k) = FirstBytes(w[a], k)
    BY <2>1, FirstBytesFacts
  <2>4. Overlay(m, p, n, w)[a] \in Nat /\ FirstBytes(Overlay(m, p, n, w)[a], k) = FirstBytes(w[a], k)
    BY <2>2, <2>3
  <2> QED BY <2>4 DEF k
<1>3. DOMAIN Overlay(m, p, n, w) = Words
  BY OverlayFacts
<1>4. ASSUME NEW a \in Words PROVE Overlay(m, p, n, w)[a] \in Nat
  <2>1. CASE a < p \/ a >= p + n
    BY <2>1, OverlayFacts DEF Numbers
  <2>2. CASE p <= a /\ a < p + n
    BY <1>2, <2>2
  <2> QED BY <1>1, <2>1, <2>2
<1> QED
  BY <1>2, <1>3, <1>4 DEF Numbers

\* After memset the block holds what it is to hold.
LEMMA MemsetHolds ==
  ASSUME NEW m, Numbers(m), NEW p \in Int, NEW n \in Int, NEW index \in Nat
  PROVE  /\ Numbers(memset(m, p, index, n))
         /\ Holds(memset(m, p, index, n), p, index, n)
<1> DEFINE w == [a \in Words |-> Fill(index)]
           v == Overlay(m, p, n, w)
<1>1. \A a \in Words : w[a] = Fill(index) /\ w[a] \in Nat
  BY DEF Fill
<1> HIDE DEF w
<1>2. /\ Numbers(v)
      /\ \A a \in Words : p <= a /\ a < p + n =>
            FirstBytes(v[a], (p + n) - a) = FirstBytes(w[a], (p + n) - a)
  BY <1>1, OverlayWrites
<1>3. memset(m, p, index, n) = v
  BY DEF memset, w
<1> HIDE DEF v
<1>4. Words \subseteq Int
  BY MemoryFacts DEF Words, WSIZE
<1>5. Holds(v, p, index, n)
  <2> SUFFICES ASSUME NEW a \in Words, p <= a, a < p + n
               PROVE  FirstBytes(v[a], p + n - a) = FirstBytes(Fill(index), p + n - a)
    BY DEF Holds
  <2>1. p + n - a = (p + n) - a
    BY <1>4
  <2> QED BY <1>1, <1>2, <2>1
<1> QED
  BY <1>2, <1>3, <1>5

LEMMA MemcpyNumbers ==
  ASSUME NEW m, Numbers(m), NEW dst \in Int, NEW src \in Int, NEW n \in Int
  PROVE  Numbers(memcpy(m, dst, src, n))
<1> DEFINE w == [a \in Words |-> IF a - dst + src \in Words THEN m[a - dst + src] ELSE 0]
<1>1. \A a \in Words : w[a] \in Nat
  BY DEF Numbers
<1> HIDE DEF w
<1>2. Numbers(Overlay(m, dst, n, w))
  BY <1>1, OverlayWrites
<1> QED
  BY <1>2 DEF memcpy, w

\* What mm.c does to numbers leaves numbers.
LEMMA WrittenNumbers ==
  ASSUME NEW m, Numbers(m), NEW w, DOMAIN w = Words, Written(w, m)
  PROVE  Numbers(w)
BY DEF Numbers, Written

LEMMA PlaceNumbers ==
  ASSUME NEW m, Numbers(m), NEW bp, Size(m, bp) \in Int, NEW asize \in Nat
  PROVE  Numbers(place(m, bp, asize))
<1>1. ASSUME NEW v, Numbers(v), NEW p, NEW size \in Nat, NEW alloc \in {0, 1}
      PROVE  Numbers(Tag(v, p, size, alloc))
  BY <1>1 DEF Numbers, Tag, PACK
<1>2. Numbers(Tag(m, bp, asize, 1))
  BY <1>1
<1>3. Size(m, bp) - asize >= 2 * ALIGNMENT =>
          Numbers(Tag(Tag(m, bp, asize, 1), bp + asize, Size(m, bp) - asize, 0))
  <2> SUFFICES ASSUME Size(m, bp) - asize >= 16
               PROVE  Numbers(Tag(Tag(m, bp, asize, 1), bp + asize, Size(m, bp) - asize, 0))
    BY DEF ALIGNMENT
  <2>1. Size(m, bp) - asize \in Nat
    OBVIOUS
  <2> QED BY <1>1, <1>2, <2>1
<1> QED
  BY <1>2, <1>3 DEF place

\* A block that keeps its words still holds what it did.
LEMMA HoldsKept ==
  ASSUME NEW m, NEW w, NEW S, SameBlocks(w, m, S), NEW p \in S, p \in Int,
         Size(m, p) \in Int,
         NEW n \in Nat, n + 8 <= Size(m, p)
  PROVE  /\ n + 8 <= Size(w, p)
         /\ \A index : Holds(m, p, index, n) => Holds(w, p, index, n)
<1>1. Words \subseteq Int
  BY MemoryFacts DEF Words, WSIZE
<1>2. /\ Size(w, p) = Size(m, p)
      /\ \A a \in Words : p <= a /\ a < p + (Size(m, p) - 8) => w[a] = m[a]
  BY DEF SameBlocks
<1>3. \A a \in Words : p <= a /\ a < p + n => w[a] = m[a]
  BY <1>1, <1>2
<1> QED
  BY <1>2, <1>3 DEF Holds

-----------------------------------------------------------------------------
(* Payloads.                                                               *)

\* Payloads that fit into two allocated blocks lie apart, and inside the heap.
LEMMA Layout ==
  ASSUME NEW m, NEW top, NEW B, Good(m, top, B),
         NEW p \in AllocatedIn(m, top, B), NEW n \in Nat, n + 8 <= Size(m, p)
  PROVE  /\ p \in Int /\ p % 8 = 0 /\ 8 <= p /\ p + n <= top /\ top \in Int /\ top <= MAX_HEAP
         /\ Size(m, p) \in Int
         /\ \A q \in AllocatedIn(m, top, B), k \in Nat :
               q # p /\ k + 8 <= Size(m, q) => p + n <= q \/ q + k <= p
<1>1. Heap(m, top, B) /\ \A q \in AllocatedIn(m, top, B) : q \in B /\ q # top
  BY DEF Good, AllocatedIn, Inner
<1>2. \A q \in B : /\ q \in Int /\ q % 8 = 0 /\ 8 <= q /\ Size(m, q) \in Int
                   /\ q # top => q + Size(m, q) <= top
  BY <1>1, BlockFacts
<1>3. top \in Int /\ top <= MAX_HEAP
  BY <1>1, EndFacts DEF Addresses
<1>4. ASSUME NEW q \in AllocatedIn(m, top, B), NEW k \in Nat, q # p, k + 8 <= Size(m, q)
      PROVE  p + n <= q \/ q + k <= p
  <2>1. q < p \/ q >= p + Size(m, p)
    BY <1>1, <1>4, Apart
  <2>2. p < q \/ p >= q + Size(m, q)
    BY <1>1, <1>4, Apart
  <2>3. p \in Int /\ q \in Int /\ Size(m, p) \in Int /\ Size(m, q) \in Int
    BY <1>1, <1>2
  <2> QED BY <1>4, <2>1, <2>2, <2>3
<1>5. p + n <= top
  BY <1>1, <1>2, <1>3
<1> QED
  BY <1>1, <1>2, <1>3, <1>4, <1>5

\* mm_malloc keeps what is allocated while it searches and when it has found.
LEMMA SearchKeepsBlocks ==
  ASSUME NoScraps, HeapInv, Numbers(mem), MallocRuns
  PROVE  /\ SameBlocks(mem', mem, Owned) /\ Numbers(mem')
         /\ call'.asize = call.asize
         /\ call'.at = "done" /\ call'.bp # NULL => Size(mem', call'.bp) = call.asize
<1>1. error = "none" /\ call.at = "fit" /\ MallocStep
  BY IdleFacts DEF HeapInv, MallocRuns, MallocStep, FindNext, Found, NotFound
<1>2. PICK B : HeapState(B)
  BY <1>1 DEF HeapInv
<1>3. /\ Good(mem, brk, B) /\ SearchState(mem, B) /\ AllocatedIn(mem, brk, B) = Owned
      /\ Heap(mem, brk, B)
  BY <1>1, <1>2 DEF HeapState, Handed, Good
<1>4. /\ call.asize \in Nat /\ call.asize % 16 = 0 /\ call.asize >= 16
      /\ call.bp \in B /\ call.bp \in Int /\ Size(mem, call.bp) \in Int
  BY <1>1, <1>3, BlockFacts DEF SearchState
<1>4a. call \in [at : {"idle", "fit", "done"}, asize : Nat, bp : Int]
  BY <1>3 DEF SearchState
<1>5. CASE FindNext
  <2>1. mem' = mem /\ call'.at = "fit" /\ call'.asize = call.asize
    BY <1>4a, <1>5 DEF FindNext
  <2> QED BY <2>1 DEF SameBlocks
<1>6. CASE Found
  <2>1. /\ mem' = place(mem, call.bp, call.asize)
        /\ Size(mem, call.bp) > 0 /\ Fits(call.bp)
        /\ call'.bp = call.bp /\ call'.asize = call.asize
    BY <1>4a, <1>6 DEF Found, Returns
  <2>2. /\ call.bp \in Inner(brk, B) /\ ~Allocated(mem, call.bp)
        /\ call.asize <= Size(mem, call.bp)
    <3>1. call.bp # heap_listp /\ call.bp # brk
      BY <1>3, <2>1, EndFacts DEF Fits
    <3> QED BY <1>4, <2>1, <3>1 DEF Fits, Inner
  <2>3. PICK C : /\ Good(mem', brk, C)
                 /\ AllocatedIn(mem', brk, C) = AllocatedIn(mem, brk, B) \cup {call.bp}
                 /\ Size(mem', call.bp) = call.asize
                 /\ SameBlocks(mem', mem, AllocatedIn(mem, brk, B))
    BY <1>3, <1>4, <2>1, <2>2, Placing
  <2> QED BY <1>3, <1>4, <2>1, <2>3, PlaceNumbers
<1>7. CASE NotFound
  <2> DEFINE size == Max({call.asize, CHUNKSIZE})
             x == Extended(mem, brk, size)
  <2>1. /\ \/ mem' = mem /\ call'.bp = NULL
           \/ /\ brk + size <= MAX_HEAP /\ mem' = place(x.mem, x.bp, call.asize)
              /\ call'.bp = x.bp
        /\ call'.asize = call.asize
    BY <1>4a, <1>7 DEF NotFound, CanGrow, Returns
  <2>2. size \in Int /\ size % 16 = 0 /\ size >= 16 /\ size >= call.asize
    BY <1>4, ChunkFacts
  <2>3. CASE mem' = mem /\ call'.bp = NULL
    BY <2>1, <2>3 DEF SameBlocks
  <2>4. CASE /\ brk + size <= MAX_HEAP /\ mem' = place(x.mem, x.bp, call.asize)
             /\ call'.bp = x.bp
    <3> HIDE DEF size
    <3>1. PICK C : /\ Good(x.mem, brk + size, C)
                   /\ x.bp \in Inner(brk + size, C) /\ ~Allocated(x.mem, x.bp)
                   /\ Size(x.mem, x.bp) >= size
                   /\ AllocatedIn(x.mem, brk + size, C) = AllocatedIn(mem, brk, B)
                   /\ Keeps(x.mem, mem, AllocatedIn(mem, brk, B))
      BY <1>3, <2>2, <2>4, Growing
    <3>2. /\ x.bp \in C /\ Heap(x.mem, brk + size, C)
      BY <3>1 DEF Inner, Good
    <3>3. Size(x.mem, x.bp) \in Int
      BY <3>2, BlockFacts
    <3>4. call.asize <= Size(x.mem, x.bp)
      BY <1>4, <2>2, <3>1, <3>3
    <3>5. Numbers(x.mem)
      BY <3>1, <3>2, WrittenNumbers DEF Keeps, Heap
    <3> HIDE DEF x
    <3>6. PICK D : /\ Good(mem', brk + size, D)
                   /\ AllocatedIn(mem', brk + size, D) = AllocatedIn(x.mem, brk + size, C) \cup {x.bp}
                   /\ Size(mem', x.bp) = call.asize
                   /\ SameBlocks(mem', x.mem, AllocatedIn(x.mem, brk + size, C))
      BY <1>4, <2>4, <3>1, <3>4, Placing
    <3>7. Numbers(mem')
      BY <1>4, <2>4, <3>3, <3>5, PlaceNumbers
    <3>8. SameBlocks(mem', mem, Owned)
      BY <1>3, <3>1, <3>6 DEF SameBlocks, Keeps
    <3> QED BY <2>1, <2>4, <3>6, <3>7, <3>8
  <2> QED BY <2>1, <2>3, <2>4
<1> QED
  BY <1>1, <1>5, <1>6, <1>7 DEF MallocStep

LEMMA FreeKeepsBlocks ==
  ASSUME HeapInv, Numbers(mem), NEW x, mm_free(x)
  PROVE  SameBlocks(mem', mem, Owned \ {blocks[x].lo}) /\ Numbers(mem')
<1> DEFINE bp == blocks[x].lo
<1>1. error = "none" /\ call.at = "idle" /\ x \in DOMAIN blocks /\ mem' = Freed(mem, bp)
  BY DEF mm_free, Ready
<1>2. PICK B : HeapState(B)
  BY <1>1 DEF HeapInv
<1>3. Good(mem, brk, B) /\ AllocatedIn(mem, brk, B) = Owned /\ bp \in Owned
  BY <1>1, <1>2 DEF HeapState, Handed, Owned
<1> HIDE DEF bp
<1>4. \E C : /\ Good(Freed(mem, bp), brk, C)
             /\ AllocatedIn(Freed(mem, bp), brk, C) = AllocatedIn(mem, brk, B) \ {bp}
             /\ Keeps(Freed(mem, bp), mem, AllocatedIn(mem, brk, B) \ {bp})
  BY <1>3, Freeing
<1>5. DOMAIN mem' = Words
  BY <1>1, <1>4, NullIsNoBlock
<1>6. Numbers(mem')
  BY <1>1, <1>4, <1>5, WrittenNumbers DEF Keeps
<1> QED
  BY <1>1, <1>3, <1>4, <1>6 DEF Keeps, bp

-----------------------------------------------------------------------------
(* The client and its blocks.                                              *)

\* The blocks of the indices D have the sizes that mm_malloc gives them, hold
\* what they are to hold, and have these payloads.
SizedIn(m, T, D) == \A k \in D : Size(m, T[k].lo) = BlockSize(T[k].size)
FullIn(m, T, D)  == \A k \in D : Holds(m, T[k].lo, k, T[k].size)
PayloadsOf(T, D) == {Payload(T[k].lo, T[k].size) : k \in D}

\* A block has the size that its request asked for.  While eval_mm_valid runs,
\* its range list has the payloads of the live blocks, and they hold what it
\* has written.
ClientInv ==
    /\ Numbers(mem)
    /\ error # "bad range"
    /\ error = "none" =>
          /\ SizedIn(mem, blocks, DOMAIN blocks)
          /\ call.at # "idle" => call.asize = BlockSize(op.size)
          /\ call.at = "done" /\ call.bp # NULL => Size(mem, call.bp) = BlockSize(op.size)
          /\ Checking => /\ ranges = PayloadsOf(blocks, DOMAIN blocks)
                         /\ FullIn(mem, blocks, DOMAIN blocks)

LEMMA BlocksKept ==
  ASSUME NEW m, NEW w, NEW S, SameBlocks(w, m, S), NEW T, NEW D, SizedIn(m, T, D),
         \A k \in D : /\ T[k].lo \in S /\ T[k].lo \in Int /\ Size(m, T[k].lo) \in Int
                      /\ T[k].size \in Nat
  PROVE  /\ SizedIn(w, T, D)
         /\ FullIn(m, T, D) => FullIn(w, T, D)
<1>1. ASSUME NEW k \in D
      PROVE  /\ Size(w, T[k].lo) = BlockSize(T[k].size)
             /\ \A index : Holds(m, T[k].lo, index, T[k].size) => Holds(w, T[k].lo, index, T[k].size)
  <2> DEFINE p == T[k].lo
             n == T[k].size
  <2>1. p \in S /\ p \in Int /\ Size(m, p) \in Int /\ n \in Nat /\ Size(m, p) = BlockSize(n)
    BY DEF SizedIn
  <2> HIDE DEF p, n
  <2>2. n + 8 <= Size(m, p)
    BY <2>1, BlockSizeFacts
  <2>3. \A index : Holds(m, p, index, n) => Holds(w, p, index, n)
    BY <2>1, <2>2, HoldsKept
  <2>4. Size(w, p) = BlockSize(n)
    BY <2>1 DEF SameBlocks
  <2> QED BY <2>3, <2>4 DEF p, n
<1> QED
  BY <1>1 DEF SizedIn, FullIn

LEMMA Inputs == (\A x \in Ids : x \in Nat) /\ (\A n \in Requests : n \in Nat /\ n # 0)
<1>1. Ids \subseteq 0 .. 127 /\ Requests \subseteq Nat \ {0}
  BY MDriverAssumption
<1> QED
  BY <1>1

\* What the block table says of the heap.
LEMMA TableFacts ==
  ASSUME EvalInv, error = "none"
  PROVE  /\ \A k \in DOMAIN blocks :
               /\ k \in Ids /\ k \in Int
               /\ blocks[k].size \in Requests /\ blocks[k].size \in Nat /\ blocks[k].size # 0
               /\ blocks[k].lo \in Owned /\ blocks[k].lo \in Int
               /\ Size(mem, blocks[k].lo) \in Int
         /\ \A k, j \in DOMAIN blocks : blocks[k].lo = blocks[j].lo => k = j
<1>1. PICK B : HeapState(B)
  BY DEF EvalInv, HeapInv
<1>2. Good(mem, brk, B) /\ Heap(mem, brk, B) /\ Owned \subseteq B
  BY <1>1 DEF HeapState, Good, AllocatedIn, Inner
<1>3. \A p \in Owned : p \in Int /\ Size(mem, p) \in Int
  BY <1>2, BlockFacts
<1>4. \A k \in DOMAIN blocks : k \in Ids /\ blocks[k].size \in Requests
  BY DEF EvalInv, Records
<1>5. \A k \in DOMAIN blocks : blocks[k].lo \in Owned
  BY DEF Owned
<1>6. \A k, j \in DOMAIN blocks : blocks[k].lo = blocks[j].lo => k = j
  BY <1>1 DEF HeapState
<1> QED
  BY <1>3, <1>4, <1>5, <1>6, Inputs

\* The block that mm_malloc has returned lies inside the heap, apart from every
\* live block.
LEMMA NewBlock ==
  ASSUME EvalInv, ClientInv, Serving, call.bp # NULL
  PROVE  /\ op.index \in Ids /\ op.index \in Nat
         /\ op.size \in Requests /\ op.size \in Nat /\ op.size # 0
         /\ op.size + 8 <= Size(mem, call.bp)
         /\ call.bp \in Int /\ call.bp % 8 = 0 /\ 8 <= call.bp
         /\ brk \in Int /\ call.bp + op.size <= brk /\ brk <= MAX_HEAP
         /\ Size(mem, call.bp) \in Int
         /\ \A k \in DOMAIN blocks : \/ call.bp + op.size <= blocks[k].lo
                                     \/ blocks[k].lo + blocks[k].size <= call.bp
<1>1. error = "none" /\ call.at = "done"
  BY DEF Serving
<1>2. op.index \in Ids /\ op.size \in Requests
  BY <1>1 DEF EvalInv, Records
<1>3. op.index \in Nat /\ op.size \in Nat /\ op.size # 0
  BY <1>2, Inputs
<1>4. PICK B : /\ Good(mem, brk, B)
               /\ AllocatedIn(mem, brk, B) = Owned \cup {call.bp}
               /\ call.bp \notin Owned
               /\ op.size + 8 <= Size(mem, call.bp)
  BY ServingFacts DEF EvalInv
<1> DEFINE p == call.bp
           n == op.size
<1>5. p \in AllocatedIn(mem, brk, B) /\ n \in Nat /\ n + 8 <= Size(mem, p)
  BY <1>3, <1>4
<1> HIDE DEF p, n
<1>6. /\ p \in Int /\ p % 8 = 0 /\ 8 <= p /\ p + n <= brk /\ brk \in Int /\ brk <= MAX_HEAP
      /\ Size(mem, p) \in Int
      /\ \A q \in AllocatedIn(mem, brk, B), k \in Nat :
            q # p /\ k + 8 <= Size(mem, q) => p + n <= q \/ q + k <= p
  BY <1>4, <1>5, Layout
<1>7. ASSUME NEW k \in DOMAIN blocks
      PROVE  p + n <= blocks[k].lo \/ blocks[k].lo + blocks[k].size <= p
  <2>1. /\ blocks[k].lo \in AllocatedIn(mem, brk, B) /\ blocks[k].size \in Nat
        /\ blocks[k].lo # p
    BY <1>1, <1>4, TableFacts DEF p
  <2>2. blocks[k].size + 8 <= Size(mem, blocks[k].lo)
    BY <1>1, <2>1, BlockSizeFacts DEF ClientInv, SizedIn
  <2> QED BY <1>6, <2>1, <2>2
<1> QED
  BY <1>2, <1>3, <1>4, <1>6, <1>7 DEF p, n

\* add_range never has anything to complain of.
LEMMA Accepts ==
  ASSUME EvalInv, ClientInv, Serving, call.bp # NULL, brk' = brk,
         NEW D \in SUBSET DOMAIN blocks
  PROVE  Acceptable(PayloadsOf(blocks, D), call.bp, op.size)
<1>1. /\ op.size \in Nat /\ op.size # 0
      /\ call.bp \in Int /\ call.bp % 8 = 0 /\ 8 <= call.bp
      /\ brk \in Int /\ call.bp + op.size <= brk
      /\ \A k \in DOMAIN blocks : \/ call.bp + op.size <= blocks[k].lo
                                  \/ blocks[k].lo + blocks[k].size <= call.bp
  BY NewBlock
<1>2. ASSUME NEW k \in D
      PROVE  {call.bp, call.bp + op.size - 1}
             \cap (blocks[k].lo .. blocks[k].lo + blocks[k].size - 1) = {}
  <2>1. blocks[k].lo \in Int /\ blocks[k].size \in Nat
    BY TableFacts DEF Serving
  <2> QED BY <1>1, <2>1
<1>3. \A r \in PayloadsOf(blocks, D) :
          {call.bp, call.bp + op.size - 1} \cap (r.lo .. r.hi) = {}
  BY <1>2 DEF PayloadsOf, Payload
<1>4. {call.bp, call.bp + op.size - 1} \subseteq 0 .. brk' - 1
  BY <1>1
<1> QED
  BY <1>1, <1>3, <1>4 DEF Acceptable, ALIGNMENT

LEMMA WithBlockFacts ==
  ASSUME NEW T, NEW p, T = WithBlock(p)
  PROVE  /\ DOMAIN T = DOMAIN blocks \cup {op.index}
         /\ T[op.index].lo = p /\ T[op.index].size = op.size
         /\ \A k \in DOMAIN blocks \ {op.index} : T[k] = blocks[k]
BY DEF WithBlock

\* The block p has become the block of the index, and eval_mm_valid has filled
\* it; the blocks of the other indices are as they were in m.
LEMMA ClientGains ==
  ASSUME EvalInv, ClientInv, Serving, call.bp # NULL,
         NEW m, NEW D, D = DOMAIN blocks \ {op.index}, Numbers(m),
         Size(m, call.bp) = BlockSize(op.size), call' = Idle,
         SizedIn(m, blocks, D), FullIn(m, blocks, D),
         NEW S, SameBlocks(memset(m, call.bp, op.index, op.size), m, S),
         \A k \in D : blocks[k].lo \in S /\ Size(m, blocks[k].lo) \in Int,
         Size(memset(m, call.bp, op.index, op.size), call.bp) = Size(m, call.bp),
         Remember(m, call.bp),
         ranges' = PayloadsOf(blocks, D) \cup {Payload(call.bp, op.size)}
  PROVE  ClientInv'
<1> DEFINE p == call.bp
           n == op.size
           x == op.index
           w == memset(m, p, x, n)
<1>1. mem' = w /\ blocks' = WithBlock(p) /\ error' = error /\ error = "none"
  BY DEF Remember, Serving
<1>2. x \in Nat /\ n \in Nat /\ p \in Int
  BY NewBlock
<1>3. \A k \in DOMAIN blocks : blocks[k].lo \in Int /\ blocks[k].size \in Nat
  BY <1>1, TableFacts
<1>4. Numbers(w) /\ Holds(w, p, x, n)
  <2> HIDE DEF p, n, x
  <2> QED BY <1>2, MemsetHolds
<1>5. Size(w, p) = BlockSize(n) /\ SameBlocks(w, m, S)
  OBVIOUS
<1> HIDE DEF w
<1>6. SizedIn(w, blocks, D) /\ FullIn(w, blocks, D)
  <2>1. \A k \in D : /\ blocks[k].lo \in S /\ blocks[k].lo \in Int
                     /\ Size(m, blocks[k].lo) \in Int /\ blocks[k].size \in Nat
    BY <1>3
  <2> QED BY <1>5, <2>1, BlocksKept
<1>7. /\ DOMAIN blocks' = D \cup {x}
      /\ blocks'[x].lo = p /\ blocks'[x].size = n
      /\ \A k \in D : blocks'[k] = blocks[k]
  BY <1>1, WithBlockFacts
<1> HIDE DEF p, n, x
<1>8. SizedIn(w, blocks', DOMAIN blocks') /\ FullIn(w, blocks', DOMAIN blocks')
  BY <1>4, <1>5, <1>6, <1>7 DEF SizedIn, FullIn
<1>9. ranges' = PayloadsOf(blocks', DOMAIN blocks')
  <2>1. ranges' = PayloadsOf(blocks, D) \cup {Payload(p, n)}
    BY DEF p, n
  <2>2. PayloadsOf(blocks', D \cup {x}) = PayloadsOf(blocks, D) \cup {Payload(p, n)}
    BY <1>7 DEF PayloadsOf
  <2> QED BY <1>7, <2>1, <2>2
<1> QED
  BY <1>1, <1>4, <1>8, <1>9, IdleFacts DEF ClientInv

\* mm_malloc has returned.
LEMMA ClientAllocates ==
  ASSUME EvalInv, ClientInv, Checking, AllocReturns
  PROVE  ClientInv' /\ blocks' = WithBlock(call.bp)
<1>1. /\ Serving /\ call.bp # NULL /\ op.type = "ALLOC" /\ brk' = brk
      /\ error = "none" /\ call.at = "done" /\ call' = Idle
  BY DEF AllocReturns, Done, Serving
<1>2. op.index \notin DOMAIN blocks
  BY <1>1 DEF EvalInv, HeapInv, Sensible
<1>3. /\ ranges = PayloadsOf(blocks, DOMAIN blocks) /\ FullIn(mem, blocks, DOMAIN blocks)
      /\ SizedIn(mem, blocks, DOMAIN blocks) /\ Numbers(mem)
      /\ Size(mem, call.bp) = BlockSize(op.size)
  BY <1>1 DEF ClientInv
<1>4. Acceptable(ranges, call.bp, op.size)
  BY <1>1, <1>3, Accepts
<1>5. /\ Remember(mem, call.bp)
      /\ ranges' = ranges \cup {Payload(call.bp, op.size)}
  BY <1>4 DEF AllocReturns, add_range
<1>6. PICK B : /\ Good(mem, brk, B)
               /\ AllocatedIn(mem, brk, B) = Owned \cup {call.bp}
               /\ call.bp \notin Owned
               /\ op.size \in Nat /\ op.size + 8 <= Size(mem, call.bp)
  BY <1>1, ServingFacts DEF EvalInv
<1> DEFINE w == memset(mem, call.bp, op.index, op.size)
<1>7. SameBlocks(w, mem, Owned) /\ Size(w, call.bp) = Size(mem, call.bp)
  <2>1. DOMAIN w = Words /\ \A a \in Words : a < call.bp \/ a >= call.bp + op.size => w[a] = mem[a]
    BY OverlayFacts DEF memset
  <2> HIDE DEF w
  <2>2. Size(w, call.bp) = Size(mem, call.bp) /\ SameBlocks(w, mem, AllocatedIn(mem, brk, B) \ {call.bp})
    <3>1. op.size \in Int /\ call.bp \in AllocatedIn(mem, brk, B)
      BY <1>6
    <3> QED BY <1>6, <2>1, <3>1, Writing
  <2> QED BY <1>6, <2>2 DEF SameBlocks
<1>8. \A k \in DOMAIN blocks : blocks[k].lo \in Owned /\ Size(mem, blocks[k].lo) \in Int
  BY <1>1, TableFacts
<1>9. DOMAIN blocks = DOMAIN blocks \ {op.index}
  BY <1>2
<1>10. ClientInv'
  BY <1>1, <1>3, <1>5, <1>6, <1>7, <1>8, <1>9, ClientGains
<1> QED
  BY <1>5, <1>10 DEF Remember

LEMMA MovingNumbers ==
  ASSUME NEW m, NEW top, NEW B, Good(m, top, B), Numbers(m),
         NEW old \in AllocatedIn(m, top, B), NEW new \in AllocatedIn(m, top, B), old # new,
         NEW size \in Nat, size + 8 <= Size(m, new)
  PROVE  Numbers(Reallocated(m, new, old, size))
<1> DEFINE n == Lesser(oldSize(m, old), size)
           t == memcpy(m, new, old, n)
<1>1. n \in Int /\ n <= size
  BY OldSizeFacts DEF Lesser
<1>2. Heap(m, top, B) /\ new \in B /\ old \in B
  BY DEF AllocatedIn, Inner, Good
<1>3. Size(m, new) \in Int /\ new \in Int /\ old \in Int
  BY <1>2, BlockFacts
<1> HIDE DEF n
<1>4. n + 8 <= Size(m, new)
  BY <1>1, <1>3
<1>5. DOMAIN t = Words /\ \A a \in Words : a < new \/ a >= new + n => t[a] = m[a]
  BY OverlayFacts DEF memcpy
<1>6. Numbers(t)
  BY <1>1, <1>3, MemcpyNumbers
<1> HIDE DEF t
<1>7. Good(t, top, B) /\ AllocatedIn(t, top, B) = AllocatedIn(m, top, B)
  BY <1>1, <1>4, <1>5, Writing
<1>8. PICK C : /\ Good(Freed(t, old), top, C)
               /\ Keeps(Freed(t, old), t, AllocatedIn(t, top, B) \ {old})
  BY <1>7, Freeing
<1>9. DOMAIN Freed(t, old) = Words
  BY <1>8, NullIsNoBlock
<1>10. Numbers(Freed(t, old))
  BY <1>6, <1>8, <1>9, WrittenNumbers DEF Keeps
<1> QED
  BY <1>10 DEF Reallocated, n, t

\* mm_realloc has moved a block: the blocks of the other indices are as they were.
LEMMA OthersKept ==
  ASSUME EvalInv, ClientInv, Serving, call.bp # NULL, op.type = "REALLOC",
         NEW w, w = Reallocated(mem, call.bp, blocks[op.index].lo, op.size),
         NEW D, D = DOMAIN blocks \ {op.index}
  PROVE  /\ op.index \in DOMAIN blocks
         /\ \E C : /\ Good(w, brk, C) /\ call.bp \in AllocatedIn(w, brk, C)
                   /\ \A k \in D : /\ blocks[k].lo \in AllocatedIn(w, brk, C) \ {call.bp}
                                   /\ Size(w, blocks[k].lo) \in Int
         /\ Numbers(w)
         /\ Size(w, call.bp) = BlockSize(op.size) /\ op.size + 8 <= Size(w, call.bp)
         /\ SizedIn(w, blocks, D)
         /\ FullIn(mem, blocks, DOMAIN blocks) => FullIn(w, blocks, D)
<1> DEFINE old == blocks[op.index].lo
           new == call.bp
<1>1. error = "none" /\ call.at = "done"
  BY DEF Serving
<1>2. op.index \in DOMAIN blocks /\ old \in Owned
  BY <1>1 DEF EvalInv, HeapInv, Sensible, Owned
<1>3. PICK B : /\ Good(mem, brk, B)
               /\ AllocatedIn(mem, brk, B) = Owned \cup {new}
               /\ new \notin Owned
               /\ op.size \in Nat /\ op.size + 8 <= Size(mem, new)
  BY ServingFacts DEF EvalInv
<1>4. /\ \A k \in D : /\ blocks[k].lo \in Owned \ {old} /\ blocks[k].lo \in Int
                      /\ Size(mem, blocks[k].lo) \in Int /\ blocks[k].size \in Nat
  BY <1>1, <1>2, TableFacts
<1>5. SizedIn(mem, blocks, D) /\ (FullIn(mem, blocks, DOMAIN blocks) => FullIn(mem, blocks, D))
  BY <1>1 DEF ClientInv, SizedIn, FullIn
<1>6. /\ old \in AllocatedIn(mem, brk, B) /\ new \in AllocatedIn(mem, brk, B) /\ old # new
      /\ op.size \in Nat /\ op.size + 8 <= Size(mem, new) /\ Good(mem, brk, B) /\ Numbers(mem)
      /\ w = Reallocated(mem, new, old, op.size)
  BY <1>2, <1>3 DEF ClientInv
<1> HIDE DEF old, new
<1>7. PICK C : /\ Good(w, brk, C)
               /\ AllocatedIn(w, brk, C) = AllocatedIn(mem, brk, B) \ {old}
               /\ Size(w, new) = Size(mem, new)
               /\ SameBlocks(w, mem, AllocatedIn(mem, brk, B) \ {old, new})
  <2> DEFINE v == Reallocated(mem, new, old, op.size)
  <2>1. \E C : /\ Good(v, brk, C)
               /\ AllocatedIn(v, brk, C) = AllocatedIn(mem, brk, B) \ {old}
               /\ Size(v, new) = Size(mem, new)
               /\ SameBlocks(v, mem, AllocatedIn(mem, brk, B) \ {old, new})
    BY <1>6, Moving
  <2>2. w = v
    BY <1>6
  <2> HIDE DEF v
  <2> QED BY <2>1, <2>2
<1>8. Numbers(w)
  BY <1>6, MovingNumbers
<1>9. AllocatedIn(mem, brk, B) \ {old, new} = Owned \ {old} /\ new \notin Owned \ {old}
  BY <1>3 DEF new
<1>10. SameBlocks(w, mem, Owned \ {old})
  BY <1>7, <1>9
<1>11. /\ SizedIn(w, blocks, D)
       /\ FullIn(mem, blocks, D) => FullIn(w, blocks, D)
  <2> DEFINE S == Owned \ {old}
  <2>1. \A k \in D : /\ blocks[k].lo \in S /\ blocks[k].lo \in Int
                     /\ Size(mem, blocks[k].lo) \in Int /\ blocks[k].size \in Nat
    BY <1>4
  <2>2. SameBlocks(w, mem, S)
    BY <1>10
  <2> HIDE DEF S
  <2> QED BY <1>5, <2>1, <2>2, BlocksKept
<1>12. \A k \in D : /\ blocks[k].lo \in AllocatedIn(w, brk, C) \ {new}
                    /\ Size(w, blocks[k].lo) \in Int
  BY <1>4, <1>7, <1>9, <1>10 DEF SameBlocks
<1>13. /\ new \in AllocatedIn(w, brk, C) /\ op.size + 8 <= Size(w, new)
       /\ Size(w, new) = BlockSize(op.size)
  <2>1. Size(mem, new) = BlockSize(op.size)
    BY <1>1 DEF ClientInv, new
  <2> QED BY <1>6, <1>7, <2>1
<1> QED
  BY <1>2, <1>5, <1>7, <1>8, <1>11, <1>12, <1>13 DEF new

\* mm_realloc has returned.
LEMMA ClientReallocates ==
  ASSUME EvalInv, ClientInv, Checking, Checking', ReallocReturns
  PROVE  /\ ClientInv'
         /\ \/ blocks' = WithBlock(call.bp)
            \/ blocks' = blocks
<1> DEFINE w == Reallocated(mem, call.bp, blocks[op.index].lo, op.size)
           D == DOMAIN blocks \ {op.index}
           others == remove_range(ranges, blocks[op.index].lo)
<1>1. /\ Serving /\ call.bp # NULL /\ op.type = "REALLOC" /\ brk' = brk /\ error = "none"
      /\ call' = Idle
  BY DEF ReallocReturns, Done, Serving
<1>2. /\ ranges = PayloadsOf(blocks, DOMAIN blocks) /\ FullIn(mem, blocks, DOMAIN blocks)
  BY <1>1 DEF ClientInv
<1>3. /\ op.index \in DOMAIN blocks
      /\ Numbers(w) /\ op.size + 8 <= Size(w, call.bp)
      /\ Size(w, call.bp) = BlockSize(op.size)
      /\ SizedIn(w, blocks, D) /\ FullIn(w, blocks, D)
  <2> HIDE DEF w, D
  <2> QED BY <1>1, <1>2, OthersKept DEF w, D
<1>4. PICK C : /\ Good(w, brk, C) /\ call.bp \in AllocatedIn(w, brk, C)
               /\ \A k \in D : /\ blocks[k].lo \in AllocatedIn(w, brk, C) \ {call.bp}
                               /\ Size(w, blocks[k].lo) \in Int
  <2> HIDE DEF w, D
  <2> QED BY <1>1, OthersKept DEF w, D
<1>5. others = PayloadsOf(blocks, D)
  <2>1. \A k \in DOMAIN blocks : blocks[k].lo = blocks[op.index].lo <=> k = op.index
    BY <1>1, <1>3, TableFacts
  <2> QED BY <1>2, <2>1 DEF remove_range, PayloadsOf, Payload
<1>6. Acceptable(others, call.bp, op.size)
  <2>1. D \in SUBSET DOMAIN blocks
    OBVIOUS
  <2> HIDE DEF D
  <2> QED BY <1>1, <1>5, <2>1, Accepts
<1>7. /\ ranges' = others \cup {Payload(call.bp, op.size)}
      /\ Remember(w, call.bp) \/ (Report("data lost") /\ mem' = w)
  BY <1>6 DEF ReallocReturns, add_range
<1>8. CASE Report("data lost") /\ mem' = w
  BY <1>3, <1>8 DEF Report, ClientInv
<1>9. CASE Remember(w, call.bp)
  <2> DEFINE v == memset(w, call.bp, op.index, op.size)
             S == AllocatedIn(w, brk, C) \ {call.bp}
  <2>1. DOMAIN v = Words /\ \A a \in Words : a < call.bp \/ a >= call.bp + op.size => v[a] = w[a]
    BY OverlayFacts DEF memset
  <2>2. op.size \in Int
    BY <1>1, NewBlock
  <2> HIDE DEF w, v, D
  <2>3. Size(v, call.bp) = Size(w, call.bp) /\ SameBlocks(v, w, S)
    <3>1. /\ op.size + 8 <= Size(w, call.bp) /\ call.bp \in AllocatedIn(w, brk, C)
          /\ Good(w, brk, C)
      BY <1>3, <1>4
    <3> QED BY <2>1, <2>2, <3>1, Writing
  <2> HIDE DEF S
  <2>4. \A k \in D : blocks[k].lo \in S /\ Size(w, blocks[k].lo) \in Int
    BY <1>4 DEF S
  <2>5. ranges' = PayloadsOf(blocks, D) \cup {Payload(call.bp, op.size)}
    BY <1>5, <1>7
  <2>6. ClientInv'
    BY <1>1, <1>3, <1>9, <2>3, <2>4, <2>5, ClientGains DEF v, D
  <2> QED BY <1>9, <2>6 DEF Remember
<1> QED
  BY <1>7, <1>8, <1>9 DEF Report

\* A block is freed, in whatever function.
LEMMA ClientFrees ==
  ASSUME EvalInv, ClientInv, NEW x, mm_free(x), Checking' <=> Checking,
         Checking => ranges' = remove_range(ranges, blocks[x].lo)
  PROVE  ClientInv'
<1> DEFINE D == DOMAIN blocks \ {x}
<1>1. /\ error = "none" /\ error' = error /\ x \in DOMAIN blocks /\ call.at = "idle" /\ call' = call
      /\ blocks' = Restrict(blocks, D)
  BY DEF mm_free, Ready
<1>2. DOMAIN blocks' = D /\ \A k \in D : blocks'[k] = blocks[k]
  BY <1>1 DEF Restrict
<1>3. SameBlocks(mem', mem, Owned \ {blocks[x].lo}) /\ Numbers(mem')
  BY FreeKeepsBlocks DEF EvalInv, ClientInv
<1>4. \A k \in D : /\ blocks[k].lo \in Owned \ {blocks[x].lo} /\ blocks[k].lo \in Int
                   /\ Size(mem, blocks[k].lo) \in Int /\ blocks[k].size \in Nat
  BY <1>1, TableFacts
<1>5. /\ SizedIn(mem, blocks, D)
      /\ Checking => ranges = PayloadsOf(blocks, DOMAIN blocks) /\ FullIn(mem, blocks, D)
  BY <1>1 DEF ClientInv, SizedIn, FullIn
<1>6. SizedIn(mem', blocks, D) /\ (FullIn(mem, blocks, D) => FullIn(mem', blocks, D))
  <2> DEFINE S == Owned \ {blocks[x].lo}
  <2>1. /\ SameBlocks(mem', mem, S)
        /\ \A k \in D : /\ blocks[k].lo \in S /\ blocks[k].lo \in Int
                        /\ Size(mem, blocks[k].lo) \in Int /\ blocks[k].size \in Nat
    BY <1>3, <1>4
  <2> HIDE DEF S, D
  <2> QED BY <1>5, <2>1, BlocksKept
<1>7. Checking => ranges' = PayloadsOf(blocks, D)
  <2>1. \A k \in DOMAIN blocks : blocks[k].lo = blocks[x].lo <=> k = x
    BY <1>1, TableFacts
  <2> QED BY <1>5, <2>1 DEF remove_range, PayloadsOf, Payload
<1> HIDE DEF D
<1>8. /\ SizedIn(mem', blocks', DOMAIN blocks')
      /\ FullIn(mem', blocks, D) => FullIn(mem', blocks', DOMAIN blocks')
      /\ PayloadsOf(blocks', DOMAIN blocks') = PayloadsOf(blocks, D)
  BY <1>2, <1>6 DEF SizedIn, FullIn, PayloadsOf
<1> QED
  BY <1>1, <1>3, <1>5, <1>6, <1>7, <1>8 DEF ClientInv

\* A call of mm_malloc that has not returned leaves the live blocks alone.
LEMMA ClientWaits ==
  ASSUME NoScraps, EvalInv, ClientInv, Search
  PROVE  ClientInv'
<1>1. MallocRuns /\ UNCHANGED <<blocks, ranges, op, error, phase>> /\ call.at = "fit"
  BY DEF Search, MallocRuns, MallocStep, FindNext, Found, NotFound, clientVars, mainVars
<1>2. error = "none"
  BY <1>1, IdleFacts DEF EvalInv, HeapInv
<1>3. /\ SameBlocks(mem', mem, Owned) /\ Numbers(mem')
      /\ call'.asize = call.asize
      /\ call'.at = "done" /\ call'.bp # NULL => Size(mem', call'.bp) = call.asize
  BY <1>1, SearchKeepsBlocks DEF EvalInv, ClientInv
<1>4. \A k \in DOMAIN blocks : /\ blocks[k].lo \in Owned /\ blocks[k].lo \in Int
                               /\ Size(mem, blocks[k].lo) \in Int /\ blocks[k].size \in Nat
  BY <1>2, TableFacts
<1>5. SizedIn(mem, blocks, DOMAIN blocks)
  BY <1>2 DEF ClientInv
<1>6. /\ SizedIn(mem', blocks, DOMAIN blocks)
      /\ FullIn(mem, blocks, DOMAIN blocks) => FullIn(mem', blocks, DOMAIN blocks)
  <2> DEFINE D == DOMAIN blocks
  <2>1. /\ SizedIn(mem, blocks, D)
        /\ \A k \in D : /\ blocks[k].lo \in Owned /\ blocks[k].lo \in Int
                        /\ Size(mem, blocks[k].lo) \in Int /\ blocks[k].size \in Nat
    BY <1>4, <1>5
  <2> HIDE DEF D
  <2>2. SizedIn(mem', blocks, D) /\ (FullIn(mem, blocks, D) => FullIn(mem', blocks, D))
    BY <1>3, <2>1, BlocksKept
  <2> QED BY <2>2 DEF D
<1>7. call.asize = BlockSize(op.size)
  BY <1>1, <1>2 DEF ClientInv
<1> QED
  BY <1>1, <1>3, <1>6, <1>7 DEF ClientInv, Checking

\* In a replay mm_malloc or mm_realloc has returned.
LEMMA ClientRemembers ==
  ASSUME EvalInv, ClientInv, ~Checking', Serving, call.bp # NULL, Remembered, call' = Idle
  PROVE  ClientInv'
<1> DEFINE D == DOMAIN blocks \ {op.index}
           old == blocks[op.index].lo
<1>1. /\ error = "none" /\ error' = error /\ blocks' = WithBlock(call.bp)
  BY DEF Serving, Remembered
<1>2. /\ DOMAIN blocks' = D \cup {op.index}
      /\ blocks'[op.index].lo = call.bp /\ blocks'[op.index].size = op.size
      /\ \A k \in D : blocks'[k] = blocks[k]
  BY <1>1, WithBlockFacts
<1>3. Numbers(mem') /\ SizedIn(mem', blocks, D) /\ Size(mem', call.bp) = BlockSize(op.size)
  <2>1. CASE op.type = "ALLOC" /\ mem' = mem
    BY <1>1, <2>1 DEF ClientInv, SizedIn, Serving
  <2>2. CASE op.type = "REALLOC" /\ mem' = Reallocated(mem, call.bp, old, op.size)
    BY <2>2, OthersKept
  <2> QED BY <2>1, <2>2 DEF Remembered
<1> HIDE DEF D
<1>4. SizedIn(mem', blocks', DOMAIN blocks')
  BY <1>2, <1>3 DEF SizedIn
<1> QED
  BY <1>1, <1>3, <1>4, IdleFacts DEF ClientInv

LEMMA NoBlocks == \A T : T = <<>> => DOMAIN T = {} /\ T = [k \in {} |-> 0]
OBVIOUS

\* Where there is no block there is nothing to keep.
LEMMA ClientStarts ==
  ASSUME NoScraps, NEW m, Numbers(m), mem' = Initialised(m), blocks' = <<>>, call' = Idle,
         error' # "bad range", Checking' => ranges' = {}
  PROVE  ClientInv'
<1>1. DOMAIN m = Words
  BY DEF Numbers
<1>2. /\ \E C : Good(Initialised(m), InitialBrk, C)
      /\ Written(Initialised(m), m)
  BY <1>1, Initialising DEF NoScraps
<1>3. DOMAIN Initialised(m) = Words
  BY <1>2, NullIsNoBlock
<1>4. Numbers(mem')
  BY <1>2, <1>3, WrittenNumbers
<1>5. DOMAIN blocks' = {}
  BY NoBlocks
<1>6. /\ SizedIn(mem', blocks', DOMAIN blocks') /\ FullIn(mem', blocks', DOMAIN blocks')
      /\ PayloadsOf(blocks', DOMAIN blocks') = {}
  BY <1>5 DEF SizedIn, FullIn, PayloadsOf
<1> QED
  BY <1>4, <1>6, IdleFacts DEF ClientInv

LEMMA ClientBegins ==
  ASSUME NoScraps, EvalInit
  PROVE  ClientInv
<1> DEFINE zero == [a \in Words |-> 0]
<1>1. /\ mem = Initialised(zero) /\ blocks = <<>> /\ ranges = {} /\ error = "none" /\ call = Idle
  BY DEF EvalInit, Init
<1>2. Numbers(zero)
  BY DEF Numbers
<1>3. Numbers(mem)
  <2>1. DOMAIN zero = Words
    OBVIOUS
  <2> HIDE DEF zero
  <2>2. /\ \E C : Good(Initialised(zero), InitialBrk, C)
        /\ Written(Initialised(zero), zero)
    BY <2>1, Initialising DEF NoScraps
  <2>3. DOMAIN Initialised(zero) = Words
    BY <2>2, NullIsNoBlock
  <2> QED BY <1>1, <1>2, <2>2, <2>3, WrittenNumbers
<1>4. DOMAIN blocks = {}
  BY <1>1, NoBlocks
<1> QED
  BY <1>1, <1>3, <1>4, IdleFacts DEF ClientInv, SizedIn, FullIn, PayloadsOf

-----------------------------------------------------------------------------
(* The steps of the evaluation are steps of the promise of mm.h.           *)

LEMMA HonouredAlways == (ClientInv => Honoured = TRUE) /\ (ClientInv' => Honoured' = TRUE)
BY DEF ClientInv, Honoured, Intact, FullIn

\* The block that the client remembers is one that mm.h allows.
LEMMA AllocatesOrMoves ==
  ASSUME EvalInv, ClientInv, ClientInv', Serving, call.bp # NULL, blocks' = WithBlock(call.bp)
  PROVE  Promise!AllocNext
<1> DEFINE p == call.bp
           s == op.size
           x == op.index
           b == [lo |-> p, size |-> s]
<1>1. /\ x \in Ids /\ s \in Requests /\ s \in Nat /\ s # 0
      /\ p \in Int /\ p % 8 = 0 /\ 8 <= p
      /\ brk \in Int /\ p + s <= brk /\ brk <= MAX_HEAP
      /\ \A k \in DOMAIN blocks : p + s <= blocks[k].lo \/ blocks[k].lo + blocks[k].size <= p
  BY NewBlock
<1>2. /\ error = "none" /\ call.at = "done"
      /\ \A k \in DOMAIN blocks : blocks[k].lo \in Int /\ blocks[k].size \in Nat
  BY TableFacts DEF Serving
<1>3. \/ op.type = "ALLOC" /\ x \notin DOMAIN blocks
      \/ op.type = "REALLOC" /\ x \in DOMAIN blocks
  BY <1>2 DEF EvalInv, HeapInv, Sensible
<1>4. UNCHANGED Honoured
  BY HonouredAlways
<1>5. blocks' = [k \in DOMAIN blocks \cup {x} |-> IF k = x THEN b ELSE blocks[k]]
  BY DEF WithBlock
<1> HIDE DEF p, s, x
<1>6. PICK n \in 0 .. MAX_HEAP \div 8 : p = 8 * n
  <2>1. p \div 8 \in 0 .. MAX_HEAP \div 8 /\ p = 8 * (p \div 8)
    BY <1>1, MemoryFacts, Z3T(20)
  <2> QED BY <2>1
<1>7. b = [lo |-> 8 * n, size |-> s]
  BY <1>6
<1>8. Promise!Extent(b) \subseteq 0 .. MAX_HEAP - 1
  BY <1>1, MemoryFacts DEF Promise!Extent
<1>9. \A k \in DOMAIN blocks : Promise!Extent(b) \cap Promise!Extent(blocks[k]) = {}
  BY <1>1, <1>2 DEF Promise!Extent
<1> HIDE DEF b
<1>10. Promise!Malloc(x, b) \/ Promise!Realloc(x, b)
  <2>1. CASE x \notin DOMAIN blocks
    BY <1>4, <1>5, <1>8, <1>9, <2>1 DEF Promise!Malloc
  <2>2. CASE x \in DOMAIN blocks
    <3>1. DOMAIN blocks \cup {x} = DOMAIN blocks
      BY <2>2
    <3>2. blocks' = [blocks EXCEPT ![x] = b]
      BY <1>5, <3>1
    <3> QED BY <1>4, <1>8, <1>9, <2>2, <3>2 DEF Promise!Realloc
  <2> QED BY <2>1, <2>2
<1> QED
  BY <1>1, <1>7, <1>10 DEF Promise!AllocNext

LEMMA FreesBlock ==
  ASSUME ClientInv, ClientInv', NEW x \in Ids, mm_free(x)
  PROVE  Promise!AllocNext
<1>1. UNCHANGED Honoured
  BY HonouredAlways
<1>2. /\ x \in DOMAIN blocks
      /\ blocks' = [k \in DOMAIN blocks \ {x} |-> blocks[k]]
  BY DEF mm_free, Restrict
<1>3. Promise!Free(x)
  BY <1>1, <1>2 DEF Promise!Free
<1> QED
  BY <1>3 DEF Promise!AllocNext

LEMMA Resets ==
  ASSUME ClientInv, ClientInv', blocks' = <<>>
  PROVE  Promise!AllocNext
<1>1. UNCHANGED Honoured
  BY HonouredAlways
<1>2. blocks' = [k \in {} |-> 0]
  BY NoBlocks
<1>3. Promise!Reset
  BY <1>1, <1>2 DEF Promise!Reset
<1> QED
  BY <1>3 DEF Promise!AllocNext

LEMMA Stutters ==
  ASSUME ClientInv, ClientInv', blocks' = blocks
  PROVE  UNCHANGED <<blocks, Honoured>>
BY HonouredAlways

\* Every step of the evaluation keeps the client's view of its blocks and is
\* for it a request that mm.h allows, or nothing.
LEMMA ClientStep ==
  ASSUME NoScraps, EvalInv, ClientInv, [EvalNext]_allVars
  PROVE  ClientInv' /\ [Promise!AllocNext]_<<blocks, Honoured>>
<1>1. CASE CheckedRequest \/ ReplayRequest \/ UNCHANGED allVars
  <2>1. /\ UNCHANGED <<mem, blocks, ranges, error, phase>>
        /\ \/ call'.at = "fit" /\ call'.asize = BlockSize(op'.size)
           \/ UNCHANGED <<call, op>>
    BY <1>1 DEF CheckedRequest, ReplayRequest, Alloc, Realloc, Request, mm_malloc, allVars, vars,
       heapVars, clientVars, mainVars
  <2>2. ClientInv'
    BY <2>1 DEF ClientInv, Checking
  <2> QED BY <2>1, <2>2, Stutters
<1>2. CASE CheckedReturn
  <2>1. /\ Checking /\ Checking' /\ (AllocReturns \/ ReallocReturns) /\ Serving /\ call.bp # NULL
    BY <1>2 DEF CheckedReturn, Recorded, Checking, AllocReturns, ReallocReturns
  <2>2. ClientInv' /\ (blocks' = WithBlock(call.bp) \/ blocks' = blocks)
    BY <2>1, ClientAllocates, ClientReallocates
  <2> QED BY <2>1, <2>2, AllocatesOrMoves, Stutters
<1>3. CASE CheckedFailure
  <2>1. /\ UNCHANGED <<mem, blocks>>
        /\ error' \in {"mm_malloc failed", "crashed"}
    BY <1>3 DEF CheckedFailure, AllocFails, ReallocFails, Report
  <2>2. ClientInv'
    BY <2>1 DEF ClientInv
  <2> QED BY <2>1, <2>2, Stutters
<1>4. ASSUME NEW x \in Ids, CheckedFree(x) PROVE ClientInv' /\ Promise!AllocNext
  <2>1. /\ mm_free(x) /\ ranges' = remove_range(ranges, blocks[x].lo)
        /\ Checking' <=> Checking
    BY <1>4 DEF CheckedFree, FreeBlock, Recorded, Checking
  <2>2. ClientInv'
    BY <2>1, ClientFrees
  <2> QED BY <2>1, <2>2, FreesBlock
<1>5. CASE Search
  <2>1. ClientInv'
    BY <1>5, ClientWaits
  <2>2. blocks' = blocks
    BY <1>5 DEF Search, MallocRuns, clientVars
  <2> QED BY <2>1, <2>2, Stutters
<1>6. CASE Accepted \/ Utilized \/ NextLap
  <2>1. PICK function \in {"util", "speed"} : Replay(function)
    BY <1>6 DEF Accepted, Utilized, NextLap
  <2>2. /\ mem' = Initialised(mem) /\ blocks' = <<>> /\ error' = error /\ ~Checking' /\ call' = Idle
    BY <2>1 DEF Replay, Restarted, mm_init, Checking
  <2>3. ClientInv'
    BY <2>2, ClientStarts DEF ClientInv
  <2> QED BY <2>2, <2>3, Resets
<1>7. CASE NextFile
  <2>1. /\ mem' = Initialised(mem) /\ blocks' = <<>> /\ error' = "none" /\ ranges' = {} /\ call' = Idle
    BY <1>7 DEF NextFile, NewTrace, mm_init
  <2>2. ClientInv'
    BY <2>1, ClientStarts DEF ClientInv
  <2> QED BY <2>1, <2>2, Resets
<1>8. CASE ReplayReturn /\ call.bp # NULL
  <2>1. /\ Serving /\ call.bp # NULL /\ Remembered /\ ~Checking /\ blocks' = WithBlock(call.bp)
        /\ call' = Idle
    BY <1>8 DEF ReplayReturn, Replaying, Checking, Remembered, Done
  <2>2. ~Checking'
    BY <2>1 DEF Remembered, Counted, Checking
  <2>3. ClientInv'
    BY <2>1, <2>2, ClientRemembers
  <2> QED BY <2>1, <2>3, AllocatesOrMoves
<1>9. CASE ReplayReturn /\ call.bp = NULL
  <2>1. /\ UNCHANGED <<mem, blocks>> /\ error' \in {"app_error", "crashed"}
    BY <1>9 DEF ReplayReturn, GivenUp
  <2>2. ClientInv'
    BY <2>1 DEF ClientInv
  <2> QED BY <2>1, <2>2, Stutters
<1>10. CASE ReplayFree
  <2> DEFINE x == trace[i].index
  <2>1. mm_free(x) /\ error = "none" /\ ~Checking /\ ~Checking'
    BY <1>10 DEF ReplayFree, mm_free, Ready, Replaying, Counted, Checking
  <2>2. x \in Ids
    BY <1>10, <2>1, NextIsLegal DEF ReplayFree, TraceEntries
  <2> HIDE DEF x
  <2>3. ClientInv'
    BY <2>1, ClientFrees
  <2> QED BY <2>1, <2>2, <2>3, FreesBlock
<1> QED
  BY <1>1, <1>2, <1>3, <1>4, <1>5, <1>6, <1>7, <1>8, <1>9, <1>10 DEF EvalNext

-----------------------------------------------------------------------------
(* Where blocks go does not depend on what the memory holds.               *)

\* A heap is determined by its end and its allocated blocks: the free blocks
\* are what is left between those.
LEMMA AlikeUpTo ==
  ASSUME NEW m, NEW w, NEW top, NEW B, NEW C, Good(m, top, B), Good(w, top, C),
         AllocatedIn(m, top, B) = AllocatedIn(w, top, C),
         \A p \in AllocatedIn(m, top, B) : Size(m, p) = Size(w, p),
         NEW c \in B, \A d \in B : d < c => d \in C
  PROVE  c \in C
<1>1. Heap(m, top, B) /\ Coalesced(m, top, B) /\ Heap(w, top, C)
  BY DEF Good
<1>2. /\ heap_listp \in C /\ top \in C /\ Size(m, heap_listp) = 8 /\ Size(w, heap_listp) = 8
      /\ top \in Int
  BY <1>1, EndFacts
<1>3. CASE c # heap_listp /\ c # top
  <2>1. PICK p \in B : p < c /\ p + Size(m, p) = c
    BY <1>1, <1>3, Predecessor
  <2>2. p \in C /\ p # top
    <3>1. p \in Int /\ c \in Int /\ c <= top
      BY <1>1, <2>1, BlockFacts
    <3> QED BY <1>2, <2>1, <3>1
  <2>3. p + Size(w, p) \in C
    BY <1>1, <2>2, BlockFacts
  <2>4. CASE p = heap_listp
    BY <1>2, <2>1, <2>3, <2>4
  <2>5. CASE p # heap_listp /\ Allocated(m, p)
    <3>1. p \in AllocatedIn(m, top, B)
      BY <2>1, <2>2, <2>5 DEF AllocatedIn, Inner
    <3> QED BY <2>1, <2>3, <3>1
  <2>6. CASE ~Allocated(m, p)
    <3>1. Allocated(m, c)
      BY <1>1, <2>1, <2>2, <2>6 DEF Coalesced, NEXT_BLKP
    <3>2. c \in AllocatedIn(w, top, C)
      BY <1>3, <3>1 DEF AllocatedIn, Inner
    <3> QED BY <3>2 DEF AllocatedIn, Inner
  <2> QED BY <2>4, <2>5, <2>6
<1> QED
  BY <1>2, <1>3

LEMMA Alike ==
  ASSUME NEW m, NEW w, NEW top, NEW B, NEW C, Good(m, top, B), Good(w, top, C),
         AllocatedIn(m, top, B) = AllocatedIn(w, top, C),
         \A p \in AllocatedIn(m, top, B) : Size(m, p) = Size(w, p)
  PROVE  /\ B = C
         /\ \A c \in B : Size(m, c) = Size(w, c) /\ (Allocated(m, c) <=> Allocated(w, c))
<1> DEFINE D == {c \in B : c \notin C} \cup {c \in C : c \notin B}
<1>1. Heap(m, top, B) /\ Heap(w, top, C)
  BY DEF Good
<1>2. /\ top \in Int
      /\ \A c \in B \cup C : c \in Int /\ 8 <= c /\ c <= top
  BY <1>1, BlockFacts, EndFacts
<1>3. B = C
  <2>1. SUFFICES ASSUME D # {} PROVE FALSE
    OBVIOUS
  <2>2. IsFiniteSet(D) /\ D \subseteq Nat
    <3>1. \A c \in D : c \in Int /\ 0 <= c /\ c <= top
      BY <1>2
    <3> HIDE DEF D
    <3>2. D \subseteq 0 .. top /\ D \subseteq Nat
      BY <1>2, <3>1
    <3>3. IsFiniteSet(0 .. top)
      BY <1>2, FS_Interval
    <3> QED BY <3>2, <3>3, FS_Subset
  <2> DEFINE least == Min(D)
  <2>3. least \in D /\ \A c \in D : least <= c
    <3> HIDE DEF D
    <3> QED BY <2>1, <2>2, MinFacts
  <2> HIDE DEF least
  <2>4. \A d \in B \cup C : d < least => d \in B /\ d \in C
    BY <1>2, <2>3
  <2>5. CASE least \in B
    <3>1. \A d \in B : d < least => d \in C
      BY <2>4
    <3>2. least \in C
      BY <2>5, <3>1, AlikeUpTo
    <3> QED BY <2>3, <2>5, <3>2
  <2>6. CASE least \in C
    <3>1. \A d \in C : d < least => d \in B
      BY <2>4
    <3>2. /\ AllocatedIn(w, top, C) = AllocatedIn(m, top, B)
          /\ \A p \in AllocatedIn(w, top, C) : Size(w, p) = Size(m, p)
      OBVIOUS
    <3>3. least \in B
      BY <2>6, <3>1, <3>2, AlikeUpTo
    <3> QED BY <2>3, <2>6, <3>3
  <2> QED BY <2>3, <2>5, <2>6
<1>4. ASSUME NEW c \in B
      PROVE  Size(m, c) = Size(w, c) /\ (Allocated(m, c) <=> Allocated(w, c))
  <2>1. CASE c = top \/ c = heap_listp
    BY <1>1, <2>1, EndFacts
  <2>2. CASE c # top /\ c # heap_listp
    <3>1. /\ c + Size(m, c) \in B /\ c + Size(w, c) \in B
          /\ Size(m, c) \in Int /\ Size(w, c) \in Int /\ Size(m, c) >= 8 /\ Size(w, c) >= 8
          /\ \A d \in B : d > c => d >= c + Size(m, c) /\ d >= c + Size(w, c)
      BY <1>1, <1>3, <2>2, BlockFacts
    <3>2. Size(m, c) = Size(w, c)
      BY <1>2, <3>1
    <3>3. c \in AllocatedIn(m, top, B) <=> Allocated(m, c)
      BY <2>2 DEF AllocatedIn, Inner
    <3>4. c \in AllocatedIn(w, top, C) <=> Allocated(w, c)
      BY <1>3, <2>2 DEF AllocatedIn, Inner
    <3> QED BY <3>2, <3>3, <3>4
  <2> QED BY <2>1, <2>2
<1> QED
  BY <1>3, <1>4

\* The table T describes the allocated blocks of the heap of m that ends at top.
HeapOf(T, m, top, B) ==
    /\ Good(m, top, B)
    /\ AllocatedIn(m, top, B) = {T[x].lo : x \in DOMAIN T}
    /\ SizedIn(m, T, DOMAIN T)

\* With the blocks of T in a heap that ends at top, mm_malloc finds bp for a
\* block of asize bytes, and the heap then ends at newtop.
Answer(T, top, asize, bp, newtop) ==
    \E m, B :
        /\ HeapOf(T, m, top, B)
        /\ \/ /\ bp \in B /\ FitsIn(m, bp, asize)
              /\ \A c \in B : c < bp => ~FitsIn(m, c, asize)
              /\ newtop = top
           \/ /\ \A c \in B : ~FitsIn(m, c, asize)
              /\ newtop = top + Max({asize, CHUNKSIZE})
              /\ \E w, C : /\ HeapOf(T, w, newtop, C)
                           /\ bp \in C /\ bp <= top /\ top < bp + Size(w, bp)

LEMMA SameHeap ==
  ASSUME NEW T, NEW top, NEW m, NEW B, HeapOf(T, m, top, B), NEW w, NEW C, HeapOf(T, w, top, C)
  PROVE  /\ B = C
         /\ \A c \in B : Size(m, c) = Size(w, c) /\ (Allocated(m, c) <=> Allocated(w, c))
<1>1. Good(m, top, B) /\ Good(w, top, C)
  BY DEF HeapOf
<1>2. AllocatedIn(m, top, B) = AllocatedIn(w, top, C)
  BY DEF HeapOf
<1>3. \A p \in AllocatedIn(m, top, B) : Size(m, p) = Size(w, p)
  BY DEF HeapOf, SizedIn
<1> QED
  BY <1>1, <1>2, <1>3, Alike

\* mm_malloc has one answer, whatever the memory holds.
LEMMA OneAnswer ==
  ASSUME NEW T, NEW top, NEW asize,
         NEW p, NEW e, Answer(T, top, asize, p, e),
         NEW q, NEW f, Answer(T, top, asize, q, f)
  PROVE  p = q /\ e = f
<1> DEFINE Fit(m, B, bp, newtop) ==
               /\ bp \in B /\ FitsIn(m, bp, asize)
               /\ \A c \in B : c < bp => ~FitsIn(m, c, asize)
               /\ newtop = top
           More(m, B, bp, newtop) ==
               /\ \A c \in B : ~FitsIn(m, c, asize)
               /\ newtop = top + Max({asize, CHUNKSIZE})
               /\ \E w, C : /\ HeapOf(T, w, newtop, C)
                            /\ bp \in C /\ bp <= top /\ top < bp + Size(w, bp)
<1>1. PICK m, B : HeapOf(T, m, top, B) /\ (Fit(m, B, p, e) \/ More(m, B, p, e))
  BY DEF Answer
<1>2. PICK n, C : HeapOf(T, n, top, C) /\ (Fit(n, C, q, f) \/ More(n, C, q, f))
  BY DEF Answer
<1>3. /\ B = C
      /\ \A c \in B : Size(m, c) = Size(n, c) /\ (Allocated(m, c) <=> Allocated(n, c))
  BY <1>1, <1>2, SameHeap
<1>4. \A c \in B : FitsIn(m, c, asize) <=> FitsIn(n, c, asize)
  BY <1>3 DEF FitsIn
<1>5. \A c \in B : c \in Int
  <2>1. Heap(m, top, B)
    BY <1>1 DEF HeapOf, Good
  <2> QED BY <2>1, BlockFacts
<1>6. CASE Fit(m, B, p, e) /\ Fit(n, C, q, f)
  BY <1>3, <1>4, <1>5, <1>6
<1>7. CASE More(m, B, p, e) /\ More(n, C, q, f)
  <2>1. e = f
    BY <1>7
  <2>2. PICK v, D : HeapOf(T, v, e, D) /\ p \in D /\ p <= top /\ top < p + Size(v, p)
    BY <1>7
  <2>3. PICK w, E : HeapOf(T, w, e, E) /\ q \in E /\ q <= top /\ top < q + Size(w, q)
    BY <1>7
  <2>4. D = E /\ \A c \in D : Size(v, c) = Size(w, c)
    BY <2>2, <2>3, SameHeap
  <2>5. Heap(v, e, D)
    BY <2>2 DEF HeapOf, Good
  <2>6. top \in Int
    <3>1. Heap(m, top, B)
      BY <1>1 DEF HeapOf, Good
    <3> QED BY <3>1, EndFacts
  <2>7. /\ p \in Int /\ q \in Int /\ Size(v, p) \in Int /\ Size(v, q) \in Int
        /\ q > p => q >= p + Size(v, p)
        /\ p > q => p >= q + Size(v, q)
    BY <2>2, <2>3, <2>4, <2>5, BlockFacts
  <2> QED BY <2>1, <2>2, <2>3, <2>4, <2>6, <2>7
<1> QED
  BY <1>1, <1>2, <1>3, <1>4, <1>6, <1>7

\* ... or none, when no block fits and the memory ends.
Refusal(T, top, asize) ==
    /\ \E m, B : HeapOf(T, m, top, B) /\ \A c \in B : ~FitsIn(m, c, asize)
    /\ ~(top + Max({asize, CHUNKSIZE}) <= MAX_HEAP)

LEMMA NoRefusal ==
  ASSUME NEW T, NEW top, NEW asize, NEW bp, NEW newtop, Answer(T, top, asize, bp, newtop)
  PROVE  ~Refusal(T, top, asize) /\ bp # NULL
<1>1. PICK m, B :
        /\ HeapOf(T, m, top, B)
        /\ \/ bp \in B /\ FitsIn(m, bp, asize)
           \/ /\ newtop = top + Max({asize, CHUNKSIZE})
              /\ \E w, C : HeapOf(T, w, newtop, C) /\ bp \in C
  BY DEF Answer
<1>2. CASE bp \in B /\ FitsIn(m, bp, asize)
  <2>1. ASSUME NEW n, NEW C, HeapOf(T, n, top, C), \A c \in C : ~FitsIn(n, c, asize)
        PROVE  FALSE
    <3>1. bp \in C /\ Size(m, bp) = Size(n, bp) /\ (Allocated(m, bp) <=> Allocated(n, bp))
      BY <1>1, <1>2, <2>1, SameHeap
    <3> QED BY <1>2, <2>1, <3>1 DEF FitsIn
  <2>2. bp # NULL
    BY <1>1, <1>2, NullIsNoBlock DEF HeapOf
  <2> QED BY <2>1, <2>2 DEF Refusal
<1>3. CASE /\ newtop = top + Max({asize, CHUNKSIZE})
           /\ \E w, C : HeapOf(T, w, newtop, C) /\ bp \in C
  <2>1. PICK w, C : HeapOf(T, w, newtop, C) /\ bp \in C
    BY <1>3
  <2>2. Heap(w, newtop, C) /\ Good(w, newtop, C)
    BY <2>1 DEF HeapOf, Good
  <2>3. newtop <= MAX_HEAP
    BY <2>2, EndFacts
  <2>4. bp # NULL
    BY <2>1, <2>2, NullIsNoBlock
  <2> QED BY <1>3, <2>3, <2>4 DEF Refusal
<1> QED
  BY <1>1, <1>2, <1>3

\* A search goes on, or gives the answer that the blocks determine.
LEMMA SearchAnswers ==
  ASSUME NoScraps, EvalInv, ClientInv, Search
  PROVE  /\ error = "none" /\ call.at = "fit"
         /\ LET asize == BlockSize(op.size)
            IN  \/ call'.at = "fit" /\ brk' = brk
                \/ call'.at = "done" /\ Answer(blocks, brk, asize, call'.bp, brk')
                \/ call'.at = "done" /\ call'.bp = NULL /\ Refusal(blocks, brk, asize)
<1>1. MallocStep /\ call.at = "fit"
  BY DEF Search, MallocRuns, MallocStep, FindNext, Found, NotFound
<1>2. error = "none"
  BY <1>1, IdleFacts DEF EvalInv, HeapInv
<1>3. PICK B : HeapState(B)
  BY <1>2 DEF EvalInv, HeapInv
<1>4. /\ Good(mem, brk, B) /\ SearchState(mem, B) /\ AllocatedIn(mem, brk, B) = Owned
      /\ Heap(mem, brk, B)
  BY <1>1, <1>3 DEF HeapState, Handed, Good
<1>5. /\ call.asize \in Nat /\ call.asize % 16 = 0 /\ call.asize >= 16
      /\ call.bp \in B /\ call.bp \in Int
      /\ \A c \in B : c < call.bp => ~FitsIn(mem, c, call.asize)
      /\ call \in [at : {"idle", "fit", "done"}, asize : Nat, bp : Int]
  BY <1>1, <1>4, BlockFacts DEF SearchState
<1>6. call.asize = BlockSize(op.size) /\ SizedIn(mem, blocks, DOMAIN blocks)
  BY <1>1, <1>2 DEF ClientInv
<1>7. HeapOf(blocks, mem, brk, B)
  BY <1>4, <1>6 DEF HeapOf, Owned
<1>8. CASE FindNext
  <2>1. call'.at = "fit" /\ brk' = brk
    BY <1>5, <1>8 DEF FindNext
  <2> QED BY <1>1, <1>2, <2>1
<1>9. CASE Found
  <2>1. call'.at = "done" /\ call'.bp = call.bp /\ brk' = brk /\ FitsIn(mem, call.bp, call.asize)
    BY <1>5, <1>9 DEF Found, Returns, Fits, FitsIn
  <2>2. Answer(blocks, brk, call.asize, call'.bp, brk')
    BY <1>5, <1>7, <2>1 DEF Answer
  <2> QED BY <1>1, <1>2, <1>6, <2>1, <2>2
<1>10. CASE NotFound
  <2> DEFINE size == Max({call.asize, CHUNKSIZE})
             x == Extended(mem, brk, size)
  <2>1. /\ call'.at = "done"
        /\ \/ brk + size <= MAX_HEAP /\ brk' = brk + size /\ call'.bp = x.bp
           \/ ~(brk + size <= MAX_HEAP) /\ call'.bp = NULL
    BY <1>5, <1>10 DEF NotFound, CanGrow, Returns
  <2>2. \A c \in B : ~FitsIn(mem, c, call.asize)
    <3>1. call.bp = brk /\ Allocated(mem, brk) /\ brk \in Int
      BY <1>4, <1>5, <1>10, EndFacts DEF NotFound
    <3>2. \A c \in B : c \in Int /\ c <= brk
      BY <1>4, BlockFacts
    <3>3. \A c \in B : c < brk \/ c = brk
      BY <3>1, <3>2
    <3> QED BY <1>5, <3>1, <3>3 DEF FitsIn
  <2>3. CASE brk + size <= MAX_HEAP /\ brk' = brk + size /\ call'.bp = x.bp
    <3>1. size \in Int /\ size % 16 = 0 /\ size >= 16
      BY <1>5, ChunkFacts
    <3>2. brk' = brk + Max({call.asize, CHUNKSIZE})
      BY <2>3
    <3> HIDE DEF size
    <3>3. PICK C : /\ Good(x.mem, brk + size, C)
                   /\ x.bp \in Inner(brk + size, C)
                   /\ x.bp <= brk /\ brk < x.bp + Size(x.mem, x.bp)
                   /\ AllocatedIn(x.mem, brk + size, C) = AllocatedIn(mem, brk, B)
                   /\ Keeps(x.mem, mem, AllocatedIn(mem, brk, B))
      BY <1>4, <2>3, <3>1, Growing
    <3> HIDE DEF x
    <3>4. SizedIn(x.mem, blocks, DOMAIN blocks)
      BY <1>4, <1>6, <3>3 DEF SizedIn, Keeps, SameBlocks, Owned
    <3>5. HeapOf(blocks, x.mem, brk', C)
      BY <1>4, <2>3, <3>3, <3>4 DEF HeapOf, Owned
    <3>6. call'.bp \in C /\ call'.bp <= brk /\ brk < call'.bp + Size(x.mem, call'.bp)
      BY <2>3, <3>3 DEF Inner
    <3>7. Answer(blocks, brk, call.asize, call'.bp, brk')
      BY <1>7, <2>2, <3>2, <3>5, <3>6 DEF Answer
    <3> QED BY <1>1, <1>2, <1>6, <2>1, <3>7
  <2>4. CASE ~(brk + size <= MAX_HEAP) /\ call'.bp = NULL
    <3>1. Refusal(blocks, brk, call.asize)
      BY <1>7, <2>2, <2>4 DEF Refusal
    <3> QED BY <1>1, <1>2, <1>6, <2>1, <2>4, <3>1
  <2> QED BY <2>1, <2>3, <2>4
<1> QED
  BY <1>1, <1>8, <1>9, <1>10 DEF MallocStep

-----------------------------------------------------------------------------
(* A replay gives the answers that are recorded.                           *)

\* The block table after the request e.
TableAfter(T, e) ==
    IF e.type = "FREE" THEN Restrict(T, DOMAIN T \ {e.index})
    ELSE [k \in DOMAIN T \cup {e.index} |->
             IF k = e.index THEN [lo |-> e.bp, size |-> e.size] ELSE T[k]]

\* How the block table and the end of the heap change along the trace t when
\* every request gets the answer that t has.
History(t, tabs, tops) ==
    /\ tabs[0] = <<>> /\ tops[0] = InitialBrk
    /\ \A k \in 1 .. Len(t) :
          /\ tabs[k] = TableAfter(tabs[k - 1], t[k])
          /\ IF t[k].type = "FREE" THEN tops[k] = tops[k - 1]
             ELSE Answer(tabs[k - 1], tops[k - 1], BlockSize(t[k].size), t[k].bp, tops[k])

\* The trace that is being recorded has such a history.
RecordAgrees(tabs, tops) ==
    /\ History(trace, tabs, tops)
    /\ blocks = tabs[Len(trace)]
    /\ call.at # "done" => brk = tops[Len(trace)]
    /\ call.at = "done" /\ call.bp # NULL =>
          Answer(blocks, tops[Len(trace)], BlockSize(op.size), call.bp, brk)

\* What has been replayed of it has run along this history.
ReplayAgrees(tabs, tops) ==
    /\ History(trace, tabs, tops)
    /\ blocks = tabs[i - 1]
    /\ call.at # "done" => brk = tops[i - 1]
    /\ call.at = "done" => call.bp = trace[i].bp /\ brk = tops[i]
    /\ ranges = PayloadsOf(tabs[Len(trace)], DOMAIN tabs[Len(trace)])

AgreeInv ==
    /\ error = "none" /\ Checking /\ followed => \E tabs, tops : RecordAgrees(tabs, tops)
    /\ ~Checking => /\ error = "none"
                    /\ call.at # "idle" => op.size = trace[i].size
                    /\ \E tabs, tops : ReplayAgrees(tabs, tops)

\* The history goes on with a request.
LEMMA HistoryAppend ==
  ASSUME NEW t \in Seq(TraceEntries), NEW e \in TraceEntries,
         NEW tabs, NEW tops, History(t, tabs, tops), NEW top,
         IF e.type = "FREE" THEN top = tops[Len(t)]
         ELSE Answer(tabs[Len(t)], tops[Len(t)], BlockSize(e.size), e.bp, top)
  PROVE  \E T, S : /\ History(Append(t, e), T, S)
                   /\ T[Len(t) + 1] = TableAfter(tabs[Len(t)], e) /\ S[Len(t) + 1] = top
<1> DEFINE m == Len(t)
           u == Append(t, e)
           T == [k \in 0 .. m + 1 |-> IF k = m + 1 THEN TableAfter(tabs[m], e) ELSE tabs[k]]
           S == [k \in 0 .. m + 1 |-> IF k = m + 1 THEN top ELSE tops[k]]
<1>1. /\ Len(u) = m + 1 /\ u[m + 1] = e /\ m \in Nat
      /\ \A n \in 1 .. m : u[n] = t[n]
  OBVIOUS
<1>2. /\ T[m + 1] = TableAfter(tabs[m], e) /\ S[m + 1] = top
      /\ \A k \in 0 .. m : T[k] = tabs[k] /\ S[k] = tops[k]
  BY <1>1
<1>3. IF e.type = "FREE" THEN top = tops[m]
      ELSE Answer(tabs[m], tops[m], BlockSize(e.size), e.bp, top)
  OBVIOUS
<1> HIDE DEF u, T, S, m
<1>4. ASSUME NEW k \in 1 .. m + 1
      PROVE  /\ T[k] = TableAfter(T[k - 1], u[k])
             /\ IF u[k].type = "FREE" THEN S[k] = S[k - 1]
                ELSE Answer(T[k - 1], S[k - 1], BlockSize(u[k].size), u[k].bp, S[k])
  <2>1. CASE k = m + 1
    <3>1. k - 1 = m /\ m \in 0 .. m
      BY <1>1, <2>1
    <3> QED BY <1>1, <1>2, <1>3, <2>1, <3>1
  <2>2. CASE k # m + 1
    <3>1. k \in 1 .. m /\ k - 1 \in 0 .. m /\ k \in 0 .. m
      BY <1>1, <2>2
    <3>2. /\ tabs[k] = TableAfter(tabs[k - 1], t[k])
          /\ IF t[k].type = "FREE" THEN tops[k] = tops[k - 1]
             ELSE Answer(tabs[k - 1], tops[k - 1], BlockSize(t[k].size), t[k].bp, tops[k])
      BY <3>1 DEF History, m
    <3> QED BY <1>1, <1>2, <3>1, <3>2
  <2> QED BY <2>1, <2>2
<1>5. T[0] = <<>> /\ S[0] = InitialBrk
  BY <1>1, <1>2 DEF History
<1>6. History(u, T, S)
  BY <1>1, <1>4, <1>5 DEF History
<1> QED
  BY <1>2, <1>6 DEF u, m

LEMMA WithBlockIsAfter ==
  ASSUME NEW e, e.type # "FREE", e.index = op.index, e.size = op.size, e.bp = call.bp
  PROVE  WithBlock(call.bp) = TableAfter(blocks, e)
BY DEF WithBlock, TableAfter

\* A request that is being recorded.
LEMMA RequestAgrees ==
  ASSUME AgreeInv, CheckedRequest
  PROVE  AgreeInv'
<1>1. /\ call.at = "idle" /\ error = "none" /\ Checking
      /\ call'.at = "fit"
      /\ UNCHANGED <<blocks, brk, error, trace, phase, followed>>
  BY DEF CheckedRequest, Alloc, Realloc, Request, Ready, mm_malloc, clientVars, mainVars
<1>2. ASSUME followed
      PROVE  \E tabs, tops : RecordAgrees(tabs, tops)'
  <2>1. PICK tabs, tops : RecordAgrees(tabs, tops)
    BY <1>1, <1>2 DEF AgreeInv
  <2>2. RecordAgrees(tabs, tops)'
    BY <1>1, <2>1 DEF RecordAgrees
  <2> QED BY <2>2
<1> QED
  BY <1>1, <1>2 DEF AgreeInv, Checking

\* A request that has been answered is recorded.
LEMMA RecordedAgrees ==
  ASSUME EvalInv, AgreeInv, Checking, error = "none",
         NEW e \in TraceEntries, Recorded(e), call'.at = "idle", brk' = brk,
         error' = "none" =>
             /\ blocks' = TableAfter(blocks, e)
             /\ \A tabs, tops : RecordAgrees(tabs, tops) =>
                   IF e.type = "FREE" THEN brk = tops[Len(trace)]
                   ELSE Answer(blocks, tops[Len(trace)], BlockSize(e.size), e.bp, brk)
  PROVE  AgreeInv'
<1>1. /\ trace' = (IF followed' THEN Append(trace, e) ELSE <<>>)
      /\ followed' => followed
      /\ phase' = phase
  BY DEF Recorded
<1>2. Checking'
  BY <1>1 DEF Checking
<1>3. ASSUME error' = "none", followed'
      PROVE  \E T, S : RecordAgrees(T, S)'
  <2>1. followed /\ trace' = Append(trace, e)
    BY <1>1, <1>3
  <2>2. PICK tabs, tops : RecordAgrees(tabs, tops)
    BY <2>1 DEF AgreeInv
  <2>3. /\ History(trace, tabs, tops) /\ blocks = tabs[Len(trace)]
        /\ trace \in Seq(TraceEntries)
        /\ IF e.type = "FREE" THEN brk = tops[Len(trace)]
           ELSE Answer(tabs[Len(trace)], tops[Len(trace)], BlockSize(e.size), e.bp, brk)
    BY <1>3, <2>2 DEF RecordAgrees, EvalInv, Records
  <2>4. PICK T, S : /\ History(Append(trace, e), T, S)
                    /\ T[Len(trace) + 1] = TableAfter(tabs[Len(trace)], e)
                    /\ S[Len(trace) + 1] = brk
    <3> DEFINE t == trace
               end == brk
    <3>1. /\ t \in Seq(TraceEntries) /\ History(t, tabs, tops)
          /\ IF e.type = "FREE" THEN end = tops[Len(t)]
             ELSE Answer(tabs[Len(t)], tops[Len(t)], BlockSize(e.size), e.bp, end)
      BY <2>3
    <3> HIDE DEF t, end
    <3>2. \E T, S : /\ History(Append(t, e), T, S)
                    /\ T[Len(t) + 1] = TableAfter(tabs[Len(t)], e) /\ S[Len(t) + 1] = end
      BY <3>1, HistoryAppend
    <3> QED BY <3>2 DEF t, end
  <2>5. Len(trace') = Len(trace) + 1
    BY <2>1, <2>3
  <2>6. /\ History(trace', T, S)
        /\ blocks' = T[Len(trace')] /\ brk' = S[Len(trace')]
    BY <1>3, <2>1, <2>3, <2>4, <2>5
  <2>7. RecordAgrees(T, S)'
    BY <2>6 DEF RecordAgrees
  <2> QED BY <2>7
<1> QED
  BY <1>2, <1>3 DEF AgreeInv

LEMMA ReturnAgrees ==
  ASSUME EvalInv, AgreeInv, CheckedReturn
  PROVE  AgreeInv'
<1> DEFINE e == Entry(op.type, op.index, op.size, call.bp)
<1>1. Checking /\ (AllocReturns \/ ReallocReturns) /\ Recorded(e)
  BY DEF CheckedReturn
<1>2. Serving /\ call.bp # NULL /\ call' = Idle /\ brk' = brk
  BY <1>1 DEF AllocReturns, ReallocReturns, Done
<1>3. error = "none" /\ call.at = "done" /\ call'.at = "idle"
  BY <1>2, IdleFacts DEF Serving
<1>4. call.bp \in Int
  BY <1>3 DEF EvalInv, HeapInv, HeapState, SearchState
<1>5. op.type \in {"ALLOC", "REALLOC"} /\ op.index \in Ids /\ op.size \in Requests
  BY <1>3 DEF EvalInv, Records
<1>6. /\ e \in TraceEntries /\ e.type # "FREE" /\ e.index = op.index
      /\ e.size = op.size /\ e.bp = call.bp
  BY <1>4, <1>5 DEF Entry, TraceEntries
<1> HIDE DEF e
<1>7. error' = "none" => blocks' = TableAfter(blocks, e)
  <2>1. \/ blocks' = WithBlock(call.bp)
        \/ blocks' = blocks /\ error' # "none"
    BY <1>1 DEF AllocReturns, ReallocReturns, Remember, Report
  <2> QED BY <1>6, <2>1, WithBlockIsAfter
<1>8. \A tabs, tops : RecordAgrees(tabs, tops) =>
          Answer(blocks, tops[Len(trace)], BlockSize(e.size), e.bp, brk)
  BY <1>2, <1>3, <1>6 DEF RecordAgrees
<1> QED
  BY <1>1, <1>2, <1>3, <1>6, <1>7, <1>8, RecordedAgrees

LEMMA FreeAgrees ==
  ASSUME EvalInv, AgreeInv, NEW x \in Ids, CheckedFree(x)
  PROVE  AgreeInv'
<1> DEFINE e == Entry("FREE", x, blocks[x].size, NULL)
<1>1. Checking /\ mm_free(x) /\ Recorded(e)
  BY DEF CheckedFree, FreeBlock
<1>2. /\ error = "none" /\ x \in DOMAIN blocks /\ call' = call /\ call.at = "idle" /\ brk' = brk
  BY <1>1 DEF mm_free, Ready
<1>3. /\ e \in TraceEntries /\ e.type = "FREE" /\ e.index = x
  BY <1>2 DEF Entry, TraceEntries, NULL, EvalInv, Records
<1> HIDE DEF e
<1>4. blocks' = TableAfter(blocks, e)
  BY <1>1, <1>3 DEF mm_free, TableAfter
<1>5. \A tabs, tops : RecordAgrees(tabs, tops) => brk = tops[Len(trace)]
  BY <1>2 DEF RecordAgrees
<1> QED
  BY <1>1, <1>2, <1>3, <1>4, <1>5, RecordedAgrees

\* A search of eval_mm_valid gives an answer; a search of a replay gives the
\* answer that is recorded, because there is only one.
LEMMA SearchAgrees ==
  ASSUME NoScraps, EvalInv, ClientInv, AgreeInv, Search
  PROVE  AgreeInv'
<1>1. UNCHANGED <<blocks, ranges, op, error, phase, trace, followed, i>>
  BY DEF Search, MallocRuns, clientVars, mainVars, replayVars
<1> DEFINE asize == BlockSize(op.size)
<1>2. /\ error = "none" /\ call.at = "fit"
      /\ \/ call'.at = "fit" /\ brk' = brk
         \/ call'.at = "done" /\ Answer(blocks, brk, asize, call'.bp, brk')
         \/ call'.at = "done" /\ call'.bp = NULL /\ Refusal(blocks, brk, asize)
  BY SearchAnswers
<1> HIDE DEF asize
<1>3. ASSUME Checking, followed
      PROVE  \E tabs, tops : RecordAgrees(tabs, tops)'
  <2>1. PICK tabs, tops : RecordAgrees(tabs, tops)
    BY <1>2, <1>3 DEF AgreeInv
  <2>2. call'.at = "done" /\ call'.bp # NULL => Answer(blocks, brk, asize, call'.bp, brk')
    BY <1>2
  <2>3. RecordAgrees(tabs, tops)'
    BY <1>1, <1>2, <2>1, <2>2 DEF RecordAgrees, asize
  <2> QED BY <2>3
<1>4. ASSUME ~Checking
      PROVE  \E tabs, tops : ReplayAgrees(tabs, tops)'
  <2>1. PICK tabs, tops : ReplayAgrees(tabs, tops)
    BY <1>4 DEF AgreeInv
  <2>2. /\ i \in 1 .. Len(trace) /\ op.type = trace[i].type
        /\ op.type \in {"ALLOC", "REALLOC"} /\ op.size = trace[i].size
    <3>1. i \in 1 .. Len(trace) + 1 /\ i <= Len(trace) /\ op.type = trace[i].type
      BY <1>2, <1>4 DEF EvalInv, ReplayedSoFar
    <3>2. op.size = trace[i].size /\ op.type \in {"ALLOC", "REALLOC"} /\ Len(trace) \in Nat
      BY <1>2, <1>4 DEF AgreeInv, EvalInv, Records
    <3> QED BY <3>1, <3>2
  <2>3. /\ blocks = tabs[i - 1] /\ brk = tops[i - 1]
        /\ Answer(blocks, brk, asize, trace[i].bp, tops[i])
    BY <1>2, <2>1, <2>2 DEF ReplayAgrees, History, asize
  <2>4. call'.at = "done" => call'.bp = trace[i].bp /\ brk' = tops[i]
    BY <1>2, <2>3, OneAnswer, NoRefusal
  <2>5. ReplayAgrees(tabs, tops)'
    BY <1>1, <1>2, <2>1, <2>4 DEF ReplayAgrees
  <2> QED BY <2>5
<1> QED
  BY <1>1, <1>2, <1>3, <1>4 DEF AgreeInv, Checking

\* Every replay begins like the trace.
LEMMA ReplayBeginsAgree ==
  ASSUME EvalInv, ClientInv, AgreeInv, NEW function \in {"util", "speed"}, Replay(function),
         error = "none", Checking => followed
  PROVE  AgreeInv'
<1>1. /\ brk' = InitialBrk /\ call' = Idle /\ blocks' = <<>> /\ error' = error
      /\ ranges' = ranges /\ trace' = trace /\ phase' = function /\ i' = 1
  BY DEF Replay, Restarted, mm_init
<1>2. ~Checking' /\ call'.at = "idle" /\ i' - 1 = 0
  BY <1>1, IdleFacts DEF Checking
<1>3. PICK tabs, tops : /\ History(trace, tabs, tops)
                        /\ ranges = PayloadsOf(tabs[Len(trace)], DOMAIN tabs[Len(trace)])
  BY DEF AgreeInv, RecordAgrees, ReplayAgrees, ClientInv
<1>4. ReplayAgrees(tabs, tops)'
  BY <1>1, <1>2, <1>3 DEF ReplayAgrees, History
<1> QED
  BY <1>1, <1>2, <1>4 DEF AgreeInv

LEMMA ReplayRequestAgrees ==
  ASSUME AgreeInv, ReplayRequest
  PROVE  AgreeInv'
<1>1. /\ call.at = "idle" /\ error = "none" /\ ~Checking
      /\ call'.at = "fit" /\ op'.size = trace[i].size
      /\ UNCHANGED <<blocks, ranges, brk, error, trace, phase, followed, i>>
  BY DEF ReplayRequest, Replaying, Request, Ready, mm_malloc, clientVars, mainVars, replayVars,
     Checking
<1>2. PICK tabs, tops : ReplayAgrees(tabs, tops)
  BY <1>1 DEF AgreeInv
<1>3. ReplayAgrees(tabs, tops)'
  BY <1>1, <1>2 DEF ReplayAgrees
<1> QED
  BY <1>1, <1>3 DEF AgreeInv, Checking

\* A request of the replay has been served.
LEMMA CountedAgrees ==
  ASSUME EvalInv, AgreeInv, Replaying, error = "none", error' = error, call'.at = "idle",
         NEW newtotal, Counted(newtotal), brk' = brk, ranges' = ranges,
         blocks' = TableAfter(blocks, trace[i]),
         trace[i].type # "FREE" => call.at = "done",
         trace[i].type = "FREE" => call.at # "done"
  PROVE  AgreeInv'
<1>1. ~Checking /\ i \in 1 .. Len(trace) /\ i \in Int
  BY NextIsLegal
<1>2. i' = i + 1 /\ phase' = phase /\ trace' = trace
  BY DEF Counted
<1>3. i' - 1 = i /\ ~Checking'
  BY <1>1, <1>2 DEF Checking
<1>4. PICK tabs, tops : ReplayAgrees(tabs, tops)
  BY <1>1 DEF AgreeInv
<1>5. brk = tops[i] /\ blocks' = tabs[i]
  BY <1>1, <1>4 DEF ReplayAgrees, History
<1>6. ReplayAgrees(tabs, tops)'
  BY <1>2, <1>3, <1>4, <1>5 DEF ReplayAgrees
<1> QED
  BY <1>3, <1>6 DEF AgreeInv

LEMMA ReplayReturnAgrees ==
  ASSUME EvalInv, AgreeInv, ReplayReturn
  PROVE  AgreeInv'
<1>1. /\ Replaying /\ Serving /\ call' = Idle /\ brk' = brk /\ error = "none" /\ call.at = "done"
      /\ ~Checking /\ ranges' = ranges
  BY DEF ReplayReturn, Done, Serving, Replaying, Checking
<1>2. call'.at = "idle"
  BY <1>1, IdleFacts
<1>3. PICK tabs, tops : ReplayAgrees(tabs, tops)
  BY <1>1 DEF AgreeInv
<1>4. i \in 1 .. Len(trace)
  BY <1>1, NextIsLegal
<1>5. /\ op.type = trace[i].type /\ op.index = trace[i].index /\ op.size = trace[i].size
      /\ op.type # "FREE" /\ call.bp = trace[i].bp
  BY <1>1, <1>3 DEF EvalInv, ReplayedSoFar, Records, AgreeInv, ReplayAgrees
<1>6. call.bp # NULL
  <2>1. Answer(tabs[i - 1], tops[i - 1], BlockSize(trace[i].size), trace[i].bp, tops[i])
    BY <1>3, <1>4, <1>5 DEF ReplayAgrees, History
  <2> QED BY <1>5, <2>1, NoRefusal
<1>7. Remembered
  BY <1>6 DEF ReplayReturn
<1>8. PICK newtotal : Counted(newtotal)
  BY <1>7 DEF Remembered
<1>9. blocks' = TableAfter(blocks, trace[i]) /\ error' = error
  BY <1>5, <1>7, WithBlockIsAfter DEF Remembered
<1> QED
  BY <1>1, <1>2, <1>5, <1>8, <1>9, CountedAgrees

LEMMA ReplayFreeAgrees ==
  ASSUME EvalInv, AgreeInv, ReplayFree
  PROVE  AgreeInv'
<1>1. Replaying /\ trace[i].type = "FREE" /\ mm_free(trace[i].index)
  BY DEF ReplayFree
<1>2. PICK newtotal : Counted(newtotal)
  BY DEF ReplayFree
<1>3. error = "none" /\ error' = error /\ call' = call /\ call.at = "idle" /\ brk' = brk
      /\ ranges' = ranges
  BY <1>1 DEF mm_free, Ready, ReplayFree
<1>4. blocks' = TableAfter(blocks, trace[i])
  BY <1>1 DEF mm_free, TableAfter
<1> QED
  BY <1>1, <1>2, <1>3, <1>4, CountedAgrees

LEMMA AgreeStep ==
  ASSUME NoScraps, EvalInv, ClientInv, AgreeInv, [EvalNext]_allVars
  PROVE  AgreeInv'
<1>1. CASE CheckedFailure
  <2>1. error' # "none" /\ Checking'
    BY <1>1 DEF CheckedFailure, AllocFails, ReallocFails, Report, mainVars, Checking
  <2> QED BY <2>1 DEF AgreeInv
<1>2. CASE Accepted \/ Utilized \/ NextLap
  <2>1. PICK function \in {"util", "speed"} : Replay(function)
    BY <1>2 DEF Accepted, Utilized, NextLap
  <2>2. error = "none" /\ (Checking => followed)
    BY <1>2 DEF Accepted, Utilized, NextLap, AllReplayed, Ready, Checking
  <2> QED BY <2>1, <2>2, ReplayBeginsAgree
<1>3. CASE NextFile
  <2>1. Checking' /\ ~followed'
    BY <1>3 DEF NextFile, Checking
  <2> QED BY <2>1 DEF AgreeInv
<1>4. CASE UNCHANGED allVars
  BY <1>4 DEF allVars, vars, heapVars, clientVars, mainVars, replayVars, AgreeInv,
     RecordAgrees, ReplayAgrees, Checking
<1>5. ASSUME NEW x \in Ids, CheckedFree(x) PROVE AgreeInv'
  BY <1>5, FreeAgrees
<1> QED
  BY <1>1, <1>2, <1>3, <1>4, <1>5, RequestAgrees, ReturnAgrees, SearchAgrees,
     ReplayRequestAgrees, ReplayReturnAgrees, ReplayFreeAgrees DEF EvalNext

-----------------------------------------------------------------------------
(* What eval_mm_util counts: sums of the sizes of live requests and blocks. *)

LEMMA OptimalIsTotal ==
  ASSUME NEW k, IsFiniteSet(LiveAfter(k))
  PROVE  OptimalSize(k) = Total([n \in LiveAfter(k) |-> trace[n].size], LiveAfter(k))
<1> DEFINE S == LiveAfter(k)
           f == [n \in S |-> trace[n].size]
           Sums(g) == g = [s \in SUBSET S |->
                              IF s = {} THEN 0
                              ELSE trace[CHOOSE n \in s : TRUE].size
                                   + g[s \ {CHOOSE n \in s : TRUE}]]
           g == CHOOSE g : Sums(g)
<1>1. OptimalSize(k) = g[S]
  BY DEF OptimalSize, MapThenSumSet, MapThenFoldSet
<1> HIDE DEF S, g
<1>2. \A h : IsSum(h, f, S) <=> Sums(h)
  <2>1. \A s \in SUBSET S : s # {} => (CHOOSE n \in s : TRUE) \in S
    OBVIOUS
  <2>2. \A s \in SUBSET S : s # {} => f[CHOOSE n \in s : TRUE] = trace[CHOOSE n \in s : TRUE].size
    BY <2>1
  <2> HIDE DEF f
  <2> QED BY <2>2 DEF IsSum
<1> HIDE DEF Sums, f
<1>3. IsSum(g, f, S)
  <2>1. \E h : IsSum(h, f, S)
    BY SumExists DEF S
  <2> QED BY <1>2, <2>1 DEF g
<1>4. PICK h : IsSum(h, f, S) /\ Total(f, S) = h[S]
  BY TotalIsSum DEF S
<1>5. g[S] = h[S]
  <2>1. IsFiniteSet(S)
    BY DEF S
  <2> QED BY <1>3, <1>4, <2>1, SumSame
<1> QED
  BY <1>1, <1>4, <1>5 DEF f, S

LEMMA RangesTotal ==
  ASSUME IsFiniteSet(ranges)
  PROVE  MapThenSumSet(LAMBDA r : r.hi - r.lo + 1, ranges)
            = Total([r \in ranges |-> r.hi - r.lo + 1], ranges)
<1> DEFINE S == ranges
           f == [r \in S |-> r.hi - r.lo + 1]
           size(r) == r.hi - r.lo + 1
           Sums(g) == g = [s \in SUBSET S |->
                              IF s = {} THEN 0
                              ELSE size(CHOOSE r \in s : TRUE)
                                   + g[s \ {CHOOSE r \in s : TRUE}]]
           g == CHOOSE g : Sums(g)
<1>1. MapThenSumSet(LAMBDA r : r.hi - r.lo + 1, ranges) = g[S]
  BY DEF MapThenSumSet, MapThenFoldSet
<1>2. \A r \in S : f[r] = size(r)
  OBVIOUS
<1> HIDE DEF S, g
<1>3. \A h : IsSum(h, f, S) <=> Sums(h)
  <2>1. \A s \in SUBSET S : s # {} => (CHOOSE n \in s : TRUE) \in S
    OBVIOUS
  <2>2. \A s \in SUBSET S : s # {} => f[CHOOSE n \in s : TRUE] = size(CHOOSE n \in s : TRUE)
    BY <1>2, <2>1
  <2> HIDE DEF f, size
  <2> QED BY <2>2 DEF IsSum
<1> HIDE DEF Sums, f, size
<1>4. IsSum(g, f, S)
  <2>1. \E h : IsSum(h, f, S)
    BY SumExists DEF S
  <2> QED BY <1>3, <2>1 DEF g
<1>5. PICK h : IsSum(h, f, S) /\ Total(f, S) = h[S]
  BY TotalIsSum DEF S
<1>6. g[S] = h[S]
  <2>1. IsFiniteSet(S)
    BY DEF S
  <2> QED BY <1>4, <1>5, <2>1, SumSame
<1> QED
  BY <1>1, <1>5, <1>6 DEF f, S, size

\* The sizes of all blocks of a table together.
Sizes(T) == Total([x \in DOMAIN T |-> T[x].size], DOMAIN T)

\* What is known of a block table.
Table(T) ==
    /\ DOMAIN T \subseteq Ids /\ IsFiniteSet(DOMAIN T)
    /\ \A x \in DOMAIN T : T[x].size \in Nat /\ T[x].size # 0

\* A request changes the sum of the sizes as eval_mm_util counts.
LEMMA SizesAfter ==
  ASSUME NEW T, Table(T), NEW e, e.index \in Ids, e.size \in Nat
  PROVE  /\ Sizes(T) \in Nat
         /\ LET new == IF e.type = "FREE" THEN 0 ELSE e.size
                old == IF e.index \in DOMAIN T THEN T[e.index].size ELSE 0
            IN  /\ Sizes(TableAfter(T, e)) = Sizes(T) + (new - old)
                /\ new - old \in Int
<1> DEFINE U == TableAfter(T, e)
           x == e.index
           D == DOMAIN T \ {x}
           f == [y \in DOMAIN T |-> T[y].size]
           h == [y \in DOMAIN U |-> U[y].size]
<1>1. /\ DOMAIN U = (IF e.type = "FREE" THEN D ELSE D \cup {x})
      /\ \A y \in D : U[y] = T[y]
      /\ e.type # "FREE" => U[x].size = e.size
  BY DEF TableAfter, Restrict
<1>2. /\ IsFiniteSet(DOMAIN T) /\ IsFiniteSet(D) /\ IsFiniteSet(DOMAIN U)
      /\ \A y \in DOMAIN T : f[y] \in Nat
      /\ D \subseteq DOMAIN T /\ x \notin D
  <2>1. IsFiniteSet(D)
    BY FS_Subset DEF Table
  <2>2. IsFiniteSet(D \cup {x})
    BY <2>1, FS_AddElement
  <2> QED BY <1>1, <2>1, <2>2 DEF Table
<1>3. \A y \in D : h[y] = f[y]
  BY <1>1
<1>4. e.type # "FREE" => h[x] = e.size
  BY <1>1
<1>5. x \in DOMAIN T => f[x] = T[x].size
  OBVIOUS
<1>6. Sizes(T) = Total(f, DOMAIN T) /\ Sizes(U) = Total(h, DOMAIN U)
  BY DEF Sizes
<1>7. x \in DOMAIN T => D = DOMAIN T \ {x}
  OBVIOUS
<1>8. x \notin DOMAIN T => D = DOMAIN T
  OBVIOUS
<1> HIDE DEF U, D, f, h
<1>9. /\ Total(f, D) \in Nat /\ Total(f, DOMAIN T) \in Nat
      /\ \A y \in DOMAIN T : Total(f, DOMAIN T) = f[y] + Total(f, DOMAIN T \ {y})
  BY <1>2, TotalFacts
<1>10. Total(h, D) = Total(f, D)
  BY <1>2, <1>3, TotalSame
<1>11. e.type # "FREE" => Total(h, DOMAIN U) = e.size + Total(f, D)
  <2> SUFFICES ASSUME e.type # "FREE" PROVE Total(h, DOMAIN U) = h[x] + Total(h, D)
    BY <1>4, <1>10
  <2> DEFINE V == DOMAIN U
  <2>1. V \ {x} = D /\ x \in V /\ IsFiniteSet(V) /\ \A y \in V : h[y] \in Nat
    BY <1>1, <1>2, <1>3, <1>4
  <2> HIDE DEF V
  <2>2. Total(h, V) = h[x] + Total(h, V \ {x})
    BY <2>1, TotalFacts
  <2> QED BY <2>1, <2>2 DEF V
<1>12. Total(f, DOMAIN T) = (IF x \in DOMAIN T THEN T[x].size ELSE 0) + Total(f, D)
  BY <1>5, <1>7, <1>8, <1>9
<1>13. (x \in DOMAIN T => T[x].size \in Nat)
  BY DEF Table
<1>14. Sizes(U) = (IF e.type = "FREE" THEN 0 ELSE e.size) + Total(f, D)
  BY <1>1, <1>6, <1>9, <1>10, <1>11
<1> QED
  BY <1>6, <1>9, <1>12, <1>13, <1>14 DEF U

\* All of a table's blocks fit below the end of the heap.
LEMMA SizesFit ==
  ASSUME NEW m, NEW top, NEW B, Good(m, top, B), NEW T, Table(T),
         \A x \in DOMAIN T : T[x].lo \in AllocatedIn(m, top, B),
         \A x, y \in DOMAIN T : T[x].lo = T[y].lo => x = y,
         SizedIn(m, T, DOMAIN T)
  PROVE  Sizes(T) <= top /\ top \in Int
<1> DEFINE S == DOMAIN T
           f == [x \in S |-> T[x].size]
           lo == [x \in S |-> T[x].lo]
<1>1. /\ IsFiniteSet(S)
      /\ \A x \in S : /\ f[x] = T[x].size /\ lo[x] = T[x].lo /\ f[x] \in Nat /\ f[x] # 0
                      /\ f[x] + 8 <= Size(m, lo[x])
                      /\ lo[x] \in AllocatedIn(m, top, B)
  <2>1. \A x \in S : T[x].size + 8 <= Size(m, T[x].lo)
    <3> SUFFICES ASSUME NEW x \in S PROVE T[x].size + 8 <= Size(m, T[x].lo)
      OBVIOUS
    <3>1. Size(m, T[x].lo) = BlockSize(T[x].size) /\ T[x].size \in Nat
      BY DEF SizedIn, Table
    <3> QED BY <3>1, BlockSizeFacts
  <2> QED BY <2>1 DEF Table
<1>2. Sizes(T) = Total(f, S)
  BY DEF Sizes
<1>3. \A x, y \in S : x # y => lo[x] # lo[y]
  OBVIOUS
<1> HIDE DEF S, f, lo
<1>4. \A x \in S : lo[x] \in Nat /\ lo[x] + f[x] <= top
  <2> SUFFICES ASSUME NEW x \in S PROVE lo[x] \in Nat /\ lo[x] + f[x] <= top
    OBVIOUS
  <2> DEFINE p == lo[x]
             n == f[x]
  <2>1. p \in AllocatedIn(m, top, B) /\ n \in Nat /\ n + 8 <= Size(m, p)
    BY <1>1
  <2> HIDE DEF p, n
  <2>2. p \in Int /\ 8 <= p /\ p + n <= top
    BY <2>1, Layout
  <2> QED BY <2>2 DEF p, n
<1>5. \A x, y \in S : x # y => lo[x] + f[x] <= lo[y] \/ lo[y] + f[y] <= lo[x]
  <2> SUFFICES ASSUME NEW x \in S, NEW y \in S, x # y
               PROVE  lo[x] + f[x] <= lo[y] \/ lo[y] + f[y] <= lo[x]
    OBVIOUS
  <2> DEFINE p == lo[x]
             n == f[x]
             q == lo[y]
             k == f[y]
  <2>1. /\ p \in AllocatedIn(m, top, B) /\ n \in Nat /\ n + 8 <= Size(m, p)
        /\ q \in AllocatedIn(m, top, B) /\ k \in Nat /\ k + 8 <= Size(m, q) /\ q # p
    BY <1>1, <1>3
  <2> HIDE DEF p, n, q, k
  <2>2. p + n <= q \/ q + k <= p
    BY <2>1, Layout
  <2> QED BY <2>2 DEF p, n, q, k
<1>6. top \in Nat
  <2>1. Heap(m, top, B)
    BY DEF Good
  <2> QED BY <2>1, EndFacts DEF Addresses
<1>7. Total(f, S) <= top
  BY <1>1, <1>4, <1>5, <1>6, TotalApart
<1> QED
  BY <1>2, <1>6, <1>7

\* The sizes in the table T are those of the requests up to the k-th that are live.
SizedAs(T, k) == \A n \in LiveAfter(k) : T[trace[n].index].size = trace[n].size

LEMMA LiveAfterFacts ==
  ASSUME NEW k \in Nat
  PROVE  /\ IsFiniteSet(LiveAfter(k))
         /\ \A n, m \in LiveAfter(k) : trace[n].index = trace[m].index => n = m
<1>1. LiveAfter(k) \subseteq 1 .. k
  BY DEF LiveAfter
<1>2. IsFiniteSet(LiveAfter(k))
  BY <1>1, FS_Interval, FS_Subset
<1>3. ASSUME NEW n \in LiveAfter(k), NEW m \in LiveAfter(k), trace[n].index = trace[m].index
      PROVE  n = m
  <2>1. /\ n \in 1 .. k /\ \A j \in n + 1 .. k : trace[j].index # trace[n].index
        /\ m \in 1 .. k /\ \A j \in m + 1 .. k : trace[j].index # trace[m].index
    BY DEF LiveAfter
  <2>2. m \notin n + 1 .. k /\ n \notin m + 1 .. k
    BY <1>3, <2>1
  <2> QED BY <2>1, <2>2
<1> QED
  BY <1>2, <1>3

\* The sizes of the live requests together are the sizes of the blocks.
LEMMA OptimalIsSizes ==
  ASSUME NEW k \in Nat, \A n \in 1 .. k : trace[n].index \in Ids,
         NEW T, Table(T), DOMAIN T = Live(trace, k), SizedAs(T, k)
  PROVE  OptimalSize(k) = Sizes(T)
<1> DEFINE S == LiveAfter(k)
           h == [n \in S |-> trace[n].index]
           f == [n \in S |-> trace[n].size]
           g == [x \in DOMAIN T |-> T[x].size]
<1>1. IsFiniteSet(S) /\ \A n, m \in S : h[n] = h[m] => n = m
  BY LiveAfterFacts
<1>2. {h[n] : n \in S} = DOMAIN T
  <2>1. \A x \in DOMAIN T : \E n \in S : trace[n].index = x
    BY DEF Live, LiveAfter
  <2>2. \A n \in S : trace[n].index \in DOMAIN T
    BY DEF Live, LiveAfter
  <2> HIDE DEF S
  <2> QED BY <2>1, <2>2
<1>3. \A n \in S : f[n] = g[h[n]] /\ f[n] \in Nat
  <2> SUFFICES ASSUME NEW n \in S PROVE f[n] = g[h[n]] /\ f[n] \in Nat
    OBVIOUS
  <2>1. h[n] \in DOMAIN T
    BY <1>2
  <2>2. T[h[n]].size = trace[n].size
    BY DEF SizedAs
  <2> QED BY <2>1, <2>2 DEF Table
<1>4. OptimalSize(k) = Total(f, S)
  BY <1>1, OptimalIsTotal
<1>5. Sizes(T) = Total(g, DOMAIN T)
  BY DEF Sizes
<1> HIDE DEF S, h, f, g
<1>6. Total(f, S) = Total(g, {h[n] : n \in S})
  BY <1>1, <1>3, TotalMapped
<1> QED
  BY <1>2, <1>4, <1>5, <1>6

LEMMA SizedAfter ==
  ASSUME NEW k \in Nat, \A n \in 1 .. k : trace[n].index \in Ids,
         NEW T, DOMAIN T = Live(trace, k), SizedAs(T, k)
  PROVE  SizedAs(TableAfter(T, trace[k + 1]), k + 1)
<1> DEFINE e == trace[k + 1]
           U == TableAfter(T, e)
<1> SUFFICES ASSUME NEW n \in LiveAfter(k + 1) PROVE U[trace[n].index].size = trace[n].size
  BY DEF SizedAs
<1>1. /\ n \in 1 .. k + 1 /\ trace[n].type # "FREE"
      /\ \A j \in n + 1 .. k + 1 : trace[j].index # trace[n].index
  BY DEF LiveAfter
<1>2. CASE n = k + 1
  <2>1. U[e.index].size = e.size
    BY <1>1, <1>2 DEF TableAfter
  <2> QED BY <1>2, <2>1
<1>3. CASE n # k + 1
  <2>1. n \in 1 .. k /\ k + 1 \in n + 1 .. k + 1 /\ \A j \in n + 1 .. k : j \in n + 1 .. k + 1
    BY <1>1, <1>3
  <2>2. n \in LiveAfter(k) /\ trace[n].index # e.index
    BY <1>1, <2>1 DEF LiveAfter
  <2>3. T[trace[n].index].size = trace[n].size
    BY <2>2 DEF SizedAs
  <2>4. trace[n].index \in DOMAIN T
    BY <1>1, <2>1, <2>2 DEF Live, LiveAfter
  <2>5. U[trace[n].index] = T[trace[n].index]
    BY <2>2, <2>4 DEF TableAfter, Restrict
  <2> QED BY <2>3, <2>5
<1> QED
  BY <1>2, <1>3

LEMMA OptimalSame == trace' = trace => \A k : LiveAfter(k)' = LiveAfter(k) /\ OptimalSize(k)' = OptimalSize(k)
<1> SUFFICES ASSUME trace' = trace, NEW k PROVE LiveAfter(k)' = LiveAfter(k) /\ OptimalSize(k)' = OptimalSize(k)
  OBVIOUS
<1>1. LiveAfter(k)' = LiveAfter(k)
  BY DEF LiveAfter
<1>2. OptimalSize(k)' = OptimalSize(k)
  BY <1>1 DEF OptimalSize, MapThenSumSet, MapThenFoldSet
<1> QED
  BY <1>1, <1>2

\* In every state without an error.
Fitting == error = "none" => Table(blocks) /\ Sizes(blocks) <= brk /\ brk \in Nat

\* What eval_mm_util has counted.
UtilInv ==
    /\ ~Checking => SizedAs(blocks, i - 1)
    /\ phase = "util" => /\ total_size = OptimalSize(i - 1)
                         /\ max_total_size = Max({OptimalSize(k) : k \in 0 .. i - 1})
                         /\ max_total_size <= brk

LEMMA BlocksFit == EvalInv /\ ClientInv => Fitting
<1> SUFFICES ASSUME EvalInv, ClientInv, error = "none"
             PROVE  Table(blocks) /\ Sizes(blocks) <= brk /\ brk \in Nat
  BY DEF Fitting
<1>1. PICK B : Good(mem, brk, B) /\ Owned \subseteq AllocatedIn(mem, brk, B)
  BY DEF EvalInv, HeapInv, HeapState
<1>2. Table(blocks)
  <2>1. \A k \in DOMAIN blocks : k \in Ids /\ blocks[k].size \in Nat /\ blocks[k].size # 0
    BY TableFacts
  <2>2. IsFiniteSet(Ids)
    <3>1. Ids \subseteq 0 .. 127
      BY MDriverAssumption
    <3>2. \A k \in Nat : IsFiniteSet(0 .. k)
      BY FS_Interval
    <3>3. IsFiniteSet(0 .. 127)
      BY <3>2
    <3> QED BY <3>1, <3>3, FS_Subset
  <2>3. IsFiniteSet(DOMAIN blocks)
    BY <2>1, <2>2, FS_Subset
  <2> QED BY <2>1, <2>3 DEF Table
<1>3. /\ \A k \in DOMAIN blocks : blocks[k].lo \in AllocatedIn(mem, brk, B)
      /\ \A k, j \in DOMAIN blocks : blocks[k].lo = blocks[j].lo => k = j
      /\ SizedIn(mem, blocks, DOMAIN blocks)
  BY <1>1, TableFacts DEF ClientInv
<1>4. brk \in Nat
  <2>1. Heap(mem, brk, B)
    BY <1>1 DEF Good
  <2> QED BY <2>1, EndFacts DEF Addresses
<1> QED
  BY <1>1, <1>2, <1>3, <1>4, SizesFit

\* The largest of the sums up to the k-th.
LEMMA OptimalNumbers ==
  ASSUME NEW k \in Nat, \A n \in 1 .. k : trace[n].size \in Nat
  PROVE  /\ {OptimalSize(n) : n \in 0 .. k} \subseteq Nat
         /\ IsFiniteSet({OptimalSize(n) : n \in 0 .. k})
         /\ {OptimalSize(n) : n \in 0 .. k} # {}
<1>1. ASSUME NEW n \in 0 .. k PROVE OptimalSize(n) \in Nat
  <2> DEFINE S == LiveAfter(n)
             f == [j \in S |-> trace[j].size]
  <2>1. n \in Nat /\ IsFiniteSet(S)
    BY LiveAfterFacts
  <2>2. \A j \in S : f[j] \in Nat
    <3>1. \A j \in S : j \in 1 .. k
      BY DEF LiveAfter
    <3> QED BY <3>1
  <2>3. OptimalSize(n) = Total(f, S)
    BY <2>1, OptimalIsTotal
  <2> HIDE DEF S, f
  <2> QED BY <2>1, <2>2, <2>3, TotalFacts
<1>2. IsFiniteSet({OptimalSize(n) : n \in 0 .. k})
  <2> DEFINE S == 0 .. k
             h == [n \in S |-> OptimalSize(n)]
  <2>1. IsFiniteSet(S)
    BY FS_Interval
  <2>2. {h[n] : n \in S} = {OptimalSize(n) : n \in S}
    OBVIOUS
  <2> HIDE DEF S, h
  <2>3. IsFiniteSet({h[n] : n \in S})
    BY <2>1, FiniteImage
  <2> QED BY <2>2, <2>3 DEF S
<1>3. OptimalSize(0) \in {OptimalSize(n) : n \in 0 .. k}
  OBVIOUS
<1> QED
  BY <1>1, <1>2, <1>3

\* A request of a replay has been served and counted.
LEMMA CountedRight ==
  ASSUME EvalInv, UtilInv, Fitting, Fitting', Replaying, error = "none", error' = error,
         NEW newtotal, Counted(newtotal), brk' = brk,
         blocks' = TableAfter(blocks, trace[i]),
         phase = "util" =>
            newtotal = total_size
                + ((IF trace[i].type = "FREE" THEN 0 ELSE trace[i].size)
                   - (IF trace[i].index \in DOMAIN blocks THEN blocks[trace[i].index].size ELSE 0))
  PROVE  UtilInv'
<1> DEFINE k == i - 1
           e == trace[i]
<1>1. /\ ~Checking /\ i \in 1 .. Len(trace) /\ Len(trace) \in Nat
      /\ Live(trace, i) = After(DOMAIN blocks, e.type, e.index)
      /\ trace \in Seq(TraceEntries)
      /\ DOMAIN blocks = Live(trace, i - 1)
  <2>1. trace \in Seq(TraceEntries)
    BY DEF EvalInv, Records
  <2>2. ~Checking /\ i \in 1 .. Len(trace) /\ Len(trace) \in Nat
        /\ Live(trace, i) = After(DOMAIN blocks, e.type, e.index)
    BY NextIsLegal
  <2> QED BY <2>1, <2>2 DEF EvalInv, ReplayedSoFar
<1>2. k \in Nat /\ k + 1 = i /\ i \in Nat
  BY <1>1
<1>3. \A n \in 1 .. i : trace[n].index \in Ids /\ trace[n].size \in Nat
  <2>1. \A n \in 1 .. i : trace[n] \in TraceEntries
    BY <1>1
  <2> QED BY <2>1, Inputs DEF TraceEntries
<1>4. i' - 1 = i /\ phase' = phase /\ trace' = trace /\ ~Checking'
  BY <1>1 DEF Counted, Checking
<1>5. SizedAs(blocks, k) /\ DOMAIN blocks = Live(trace, k)
  BY <1>1 DEF UtilInv
<1>6. SizedAs(blocks', i)
  <2>1. SizedAs(TableAfter(blocks, trace[k + 1]), k + 1)
    <3>1. \A n \in 1 .. k : trace[n].index \in Ids
      BY <1>2, <1>3
    <3> HIDE DEF k
    <3> QED BY <1>2, <1>5, <3>1, SizedAfter
  <2> QED BY <1>2, <2>1
<1>7. DOMAIN blocks' = Live(trace, i)
  BY <1>1 DEF TableAfter, Restrict, After
<1>8. SizedAs(blocks, i - 1)'
  BY <1>4, <1>6, OptimalSame DEF SizedAs
<1>9. ASSUME phase = "util"
      PROVE  /\ total_size' = OptimalSize(i)
             /\ max_total_size' = Max({OptimalSize(n) : n \in 0 .. i})
             /\ max_total_size' <= brk'
  <2>1. /\ total_size = OptimalSize(k) /\ max_total_size <= brk
        /\ max_total_size = Max({OptimalSize(n) : n \in 0 .. k})
    BY <1>9 DEF UtilInv
  <2>2. OptimalSize(k) = Sizes(blocks)
    <3>1. \A n \in 1 .. k : trace[n].index \in Ids
      BY <1>2, <1>3
    <3> HIDE DEF k
    <3> QED BY <1>2, <1>5, <3>1, OptimalIsSizes DEF Fitting
  <2>3. OptimalSize(i) = Sizes(blocks')
    <3> DEFINE T == blocks'
    <3>1. Table(T) /\ DOMAIN T = Live(trace, i) /\ SizedAs(T, i)
          /\ \A n \in 1 .. i : trace[n].index \in Ids
      BY <1>3, <1>6, <1>7 DEF Fitting
    <3> HIDE DEF T
    <3>2. OptimalSize(i) = Sizes(T)
      BY <1>2, <3>1, OptimalIsSizes
    <3> QED BY <3>2 DEF T
  <2>4. /\ total_size' = newtotal
        /\ max_total_size' = HighWater(newtotal)
    BY <1>9 DEF Counted
  <2>5. newtotal = OptimalSize(i)
    <3>1. Table(blocks) /\ e.index \in Ids /\ e.size \in Nat
      BY <1>2, <1>3 DEF Fitting
    <3>2. newtotal = total_size
                + ((IF e.type = "FREE" THEN 0 ELSE e.size)
                   - (IF e.index \in DOMAIN blocks THEN blocks[e.index].size ELSE 0))
      BY <1>9
    <3>3. blocks' = TableAfter(blocks, e)
      OBVIOUS
    <3> HIDE DEF e
    <3>4. newtotal = Sizes(blocks')
      BY <2>1, <2>2, <3>1, <3>2, <3>3, SizesAfter
    <3> QED BY <2>3, <3>4
  <2> DEFINE S == {OptimalSize(n) : n \in 0 .. k}
             y == OptimalSize(i)
  <2>6. S \in SUBSET Nat /\ IsFiniteSet(S) /\ S # {}
    <3>1. \A n \in 1 .. k : trace[n].size \in Nat
      BY <1>2, <1>3
    <3> HIDE DEF k
    <3> QED BY <1>2, <3>1, OptimalNumbers
  <2>7. y \in Nat
    <3>1. {OptimalSize(n) : n \in 0 .. i} \subseteq Nat
      BY <1>2, <1>3, OptimalNumbers
    <3> QED BY <1>2, <3>1
  <2>8. {OptimalSize(n) : n \in 0 .. i} = S \cup {y}
    <3>1. 0 .. i = (0 .. k) \cup {i}
      BY <1>2
    <3> QED BY <3>1
  <2>9. max_total_size = Max(S)
    BY <2>1
  <2>10. y <= brk' /\ brk' \in Nat
    BY <2>3 DEF Fitting
  <2> HIDE DEF S, y, k
  <2>11. Max(S \cup {y}) = IF y > Max(S) THEN y ELSE Max(S)
    BY <2>6, <2>7, MaxAdd
  <2>12. max_total_size' = Max(S \cup {y})
    BY <2>4, <2>5, <2>9, <2>11 DEF HighWater, y
  <2>13. max_total_size' <= brk'
    BY <2>1, <2>9, <2>10, <2>11, <2>12
  <2> QED BY <2>4, <2>5, <2>8, <2>12, <2>13 DEF y
<1>10. (phase = "util" => /\ total_size = OptimalSize(i - 1)
                          /\ max_total_size = Max({OptimalSize(n) : n \in 0 .. i - 1})
                          /\ max_total_size <= brk)'
  BY <1>4, <1>9, OptimalSame
<1> QED
  BY <1>8, <1>10 DEF UtilInv

\* The heap never shrinks while mm_malloc runs.
LEMMA SearchGrows ==
  ASSUME NoScraps, EvalInv, Search
  PROVE  error = "none" /\ brk \in Int /\ brk' \in Int /\ brk' >= brk
<1>1. MallocStep /\ call.at = "fit"
  BY DEF Search, MallocRuns, MallocStep, FindNext, Found, NotFound
<1>2. error = "none"
  BY <1>1, IdleFacts DEF EvalInv, HeapInv
<1>3. PICK B : HeapState(B)
  BY <1>2 DEF EvalInv, HeapInv
<1>4. Heap(mem, brk, B) /\ SearchState(mem, B)
  BY <1>3 DEF HeapState, Good
<1>5. brk \in Int
  BY <1>4, EndFacts
<1>6. call.asize \in Nat /\ call.asize % 16 = 0 /\ call.asize >= 16
  BY <1>1, <1>4 DEF SearchState
<1> DEFINE size == Max({call.asize, CHUNKSIZE})
<1>7. size \in Int /\ size >= 16
  BY <1>6, ChunkFacts
<1>8. brk' = brk \/ brk' = brk + size
  BY <1>1 DEF MallocStep, FindNext, Found, NotFound
<1> HIDE DEF size
<1> QED
  BY <1>2, <1>5, <1>7, <1>8

LEMMA UtilBegins ==
  ASSUME EvalInv, NEW function \in {"util", "speed"}, Replay(function),
         function = "util" => total_size' = 0 /\ max_total_size' = 0
  PROVE  UtilInv'
<1>1. /\ ~Checking' /\ i' - 1 = 0 /\ trace' = trace /\ phase' = function /\ brk' = InitialBrk
  BY DEF Replay, Restarted, mm_init, Checking
<1>2. LiveAfter(0) = {}
  BY DEF LiveAfter
<1>3. OptimalSize(0) = 0
  <2> DEFINE f == [n \in {} |-> trace[n].size]
  <2>1. OptimalSize(0) = Total(f, {})
    BY <1>2, OptimalIsTotal, FS_EmptySet
  <2>2. Total(f, {}) = 0
    <3> HIDE DEF f
    <3> QED BY FS_EmptySet, TotalFacts
  <2> QED BY <2>1, <2>2
<1>4. Max({OptimalSize(n) : n \in 0 .. 0}) = 0
  <2> DEFINE S == {OptimalSize(n) : n \in 0 .. 0}
  <2>1. S = {0}
    <3>1. 0 .. 0 = {0}
      OBVIOUS
    <3> QED BY <1>3, <3>1
  <2>2. IsFiniteSet(S) /\ S \in SUBSET Nat /\ S # {}
    <3>1. IsFiniteSet({0})
      BY FS_Singleton
    <3> HIDE DEF S
    <3> QED BY <2>1, <3>1
  <2> HIDE DEF S
  <2>3. Max(S) \in S
    BY <2>2, MaxFacts
  <2> QED BY <2>1, <2>3 DEF S
<1>5. InitialBrk >= 0
  BY HeapAssumption DEF InitialBrk, ALIGNMENT
<1>6. SizedAs(blocks, i - 1)'
  BY <1>1, <1>2, OptimalSame DEF SizedAs
<1>7. (phase = "util" => /\ total_size = OptimalSize(i - 1)
                         /\ max_total_size = Max({OptimalSize(n) : n \in 0 .. i - 1})
                         /\ max_total_size <= brk)'
  BY <1>1, <1>3, <1>4, <1>5, OptimalSame
<1> QED
  BY <1>6, <1>7 DEF UtilInv

\* Steps that count nothing.
LEMMA NothingCounted ==
  ASSUME UtilInv, UNCHANGED <<blocks, mainVars>>,
         phase = "util" => /\ brk \in Int /\ brk' \in Int /\ brk' >= brk
                           /\ max_total_size \in Int
  PROVE  UtilInv'
<1>1. /\ UNCHANGED <<blocks, trace, phase, i, total_size, max_total_size>>
  BY DEF mainVars, replayVars
<1>2. SizedAs(blocks, i - 1)' <=> SizedAs(blocks, i - 1)
  BY <1>1, OptimalSame DEF SizedAs
<1>4. phase = "util" /\ max_total_size <= brk => max_total_size <= brk'
  OBVIOUS
<1>5. (phase = "util" => /\ total_size = OptimalSize(i - 1)
                         /\ max_total_size = Max({OptimalSize(n) : n \in 0 .. i - 1})
                         /\ max_total_size <= brk)'
  BY <1>1, <1>4, OptimalSame DEF UtilInv
<1>6. Checking' <=> Checking
  BY <1>1 DEF Checking
<1> QED
  BY <1>2, <1>5, <1>6 DEF UtilInv

LEMMA HighWaterNat ==
  ASSUME EvalInv, AgreeInv, UtilInv, phase = "util"
  PROVE  total_size \in Nat /\ max_total_size \in Nat
<1> DEFINE k == i - 1
           S == {OptimalSize(n) : n \in 0 .. k}
<1>1. /\ trace \in Seq(TraceEntries) /\ i \in 1 .. Len(trace) + 1 /\ Len(trace) \in Nat
  BY DEF EvalInv, Records, ReplayedSoFar, AgreeInv, Checking
<1>2. k \in Nat /\ \A n \in 1 .. k : n \in 1 .. Len(trace)
  BY <1>1
<1>3. \A n \in 1 .. k : trace[n].size \in Nat
  <2>1. \A n \in 1 .. k : trace[n] \in TraceEntries
    BY <1>1, <1>2
  <2> QED BY <2>1, Inputs DEF TraceEntries
<1>4. max_total_size = Max(S) /\ total_size \in S
  BY <1>2 DEF UtilInv
<1>5. S \in SUBSET Nat /\ IsFiniteSet(S) /\ S # {}
  <2> HIDE DEF k
  <2> QED BY <1>2, <1>3, OptimalNumbers
<1> HIDE DEF S
<1> QED
  BY <1>4, <1>5, MaxFacts

LEMMA UtilStep ==
  ASSUME NoScraps, EvalInv, AgreeInv, UtilInv, Fitting, (EvalInv /\ AgreeInv /\ Fitting)',
         [EvalNext]_allVars
  PROVE  UtilInv'
<1>1. CASE CheckedRequest \/ CheckedReturn \/ CheckedFailure \/ NextFile
  <2>1. phase' = "valid"
    BY <1>1 DEF CheckedRequest, CheckedReturn, CheckedFailure, NextFile, Recorded, mainVars,
       Checking
  <2> QED BY <2>1 DEF UtilInv, Checking
<1>2. ASSUME NEW x \in Ids, CheckedFree(x) PROVE UtilInv'
  <2>1. phase' = "valid"
    BY <1>2 DEF CheckedFree, Recorded, Checking
  <2> QED BY <2>1 DEF UtilInv, Checking
<1>3. CASE Search
  <2>1. UNCHANGED <<blocks, mainVars>>
    BY <1>3 DEF Search, MallocRuns, clientVars
  <2>2. brk \in Int /\ brk' \in Int /\ brk' >= brk
    BY <1>3, SearchGrows
  <2> QED BY <2>1, <2>2, HighWaterNat, NothingCounted
<1>4. CASE Accepted \/ Utilized \/ NextLap
  <2>1. PICK function \in {"util", "speed"} :
            /\ Replay(function)
            /\ function = "util" => total_size' = 0 /\ max_total_size' = 0
    BY <1>4 DEF Accepted, Utilized, NextLap
  <2> QED BY <2>1, UtilBegins
<1>5. CASE ReplayRequest \/ UNCHANGED allVars
  <2>1. UNCHANGED <<blocks, mainVars>> /\ brk' = brk
    BY <1>5 DEF ReplayRequest, Request, mm_malloc, clientVars, allVars, vars, heapVars
  <2>2. phase = "util" => brk \in Int
    BY DEF Fitting, AgreeInv, Checking
  <2> QED BY <2>1, <2>2, HighWaterNat, NothingCounted
<1>6. CASE ReplayReturn
  <2>1. /\ Replaying /\ Serving /\ call' = Idle /\ brk' = brk /\ error = "none" /\ call.at = "done"
        /\ ~Checking /\ ranges' = ranges
    BY <1>6 DEF ReplayReturn, Done, Serving, Replaying, Checking
  <2>2. call.bp = trace[i].bp /\ op.size = trace[i].size
    BY <2>1 DEF AgreeInv, ReplayAgrees
  <2>3. /\ op.type = trace[i].type /\ op.index = trace[i].index
        /\ op.type \in {"ALLOC", "REALLOC"}
    BY <2>1 DEF EvalInv, ReplayedSoFar, Records
  <2>4. Remembered /\ error' = error
    <3>1. Remembered \/ (GivenUp /\ phase' = phase /\ error' # "none")
      BY <1>6 DEF ReplayReturn, GivenUp, mainVars
    <3>2. ~(phase' = phase /\ error' # "none")
      BY <2>1 DEF AgreeInv, Checking
    <3> QED BY <3>1, <3>2 DEF Remembered
  <2>5. blocks' = TableAfter(blocks, trace[i])
    <3>1. trace[i].type # "FREE"
      BY <2>3
    <3> QED BY <2>2, <2>3, <2>4, <3>1, WithBlockIsAfter DEF Remembered
  <2>6. PICK newtotal :
            /\ Counted(newtotal)
            /\ \/ op.type = "ALLOC" /\ newtotal = Grown(op.size, 0)
               \/ op.type = "REALLOC" /\ newtotal = Grown(op.size, blocks[op.index].size)
    BY <2>4 DEF Remembered
  <2>7. /\ trace[i].type = "ALLOC" => trace[i].index \notin DOMAIN blocks
        /\ trace[i].type = "REALLOC" => trace[i].index \in DOMAIN blocks
    BY <2>1, NextIsLegal
  <2>8. newtotal = total_size
                + ((IF trace[i].type = "FREE" THEN 0 ELSE trace[i].size)
                   - (IF trace[i].index \in DOMAIN blocks THEN blocks[trace[i].index].size ELSE 0))
    BY <2>2, <2>3, <2>6, <2>7 DEF Grown
  <2> QED BY <2>1, <2>4, <2>5, <2>6, <2>8, CountedRight
<1>7. CASE ReplayFree
  <2>1. Replaying /\ trace[i].type = "FREE" /\ mm_free(trace[i].index)
        /\ Counted(total_size - blocks[trace[i].index].size)
    BY <1>7 DEF ReplayFree
  <2>2. /\ error = "none" /\ error' = error /\ brk' = brk
        /\ trace[i].index \in DOMAIN blocks
    BY <2>1 DEF mm_free, Ready
  <2>3. blocks' = TableAfter(blocks, trace[i])
    BY <2>1 DEF mm_free, TableAfter
  <2> DEFINE newtotal == total_size - blocks[trace[i].index].size
  <2>4. phase = "util" => newtotal = total_size + (0 - blocks[trace[i].index].size)
    <3>1. blocks[trace[i].index].size \in Nat
      BY <2>2 DEF Fitting, Table
    <3> QED BY <3>1, HighWaterNat
  <2>5. phase = "util" => newtotal = total_size
                + ((IF trace[i].type = "FREE" THEN 0 ELSE trace[i].size)
                   - (IF trace[i].index \in DOMAIN blocks THEN blocks[trace[i].index].size ELSE 0))
    BY <2>1, <2>2, <2>4
  <2>6. Counted(newtotal)
    BY <2>1
  <2> HIDE DEF newtotal
  <2> QED BY <2>1, <2>2, <2>3, <2>5, <2>6, CountedRight
<1> QED
  BY <1>1, <1>2, <1>3, <1>4, <1>5, <1>6, <1>7 DEF EvalNext

\* In the end what is live is what eval_mm_valid has seen live.
LEMMA RangesAreSizes ==
  ASSUME EvalInv, Fitting, error = "none", ranges = PayloadsOf(blocks, DOMAIN blocks)
  PROVE  MapThenSumSet(LAMBDA r : r.hi - r.lo + 1, ranges) = Sizes(blocks)
<1> DEFINE S == DOMAIN blocks
           h == [x \in S |-> Payload(blocks[x].lo, blocks[x].size)]
           f == [x \in S |-> blocks[x].size]
           g == [r \in ranges |-> r.hi - r.lo + 1]
<1>1. ranges = {h[x] : x \in S} /\ IsFiniteSet(S)
  BY DEF PayloadsOf, Fitting, Table
<1>2. IsFiniteSet(ranges)
  <2>1. IsFiniteSet({h[x] : x \in S})
    <3> HIDE DEF S, h
    <3> QED BY <1>1, FiniteImage
  <2> QED BY <1>1, <2>1
<1>3. \A x \in S : /\ blocks[x].lo \in Int /\ blocks[x].size \in Nat
                   /\ h[x].lo = blocks[x].lo /\ h[x].hi = blocks[x].lo + blocks[x].size - 1
  BY TableFacts DEF Payload
<1>4. \A x, y \in S : h[x] = h[y] => x = y
  BY <1>3, TableFacts
<1>5. \A x \in S : f[x] = g[h[x]] /\ f[x] \in Nat
  <2> SUFFICES ASSUME NEW x \in S PROVE f[x] = g[h[x]] /\ f[x] \in Nat
    OBVIOUS
  <2>1. h[x] \in ranges
    BY <1>1
  <2>2. g[h[x]] = h[x].hi - h[x].lo + 1
    BY <2>1
  <2>3. f[x] = blocks[x].size
    OBVIOUS
  <2> HIDE DEF h, g, f
  <2> QED BY <1>3, <2>2, <2>3
<1>6. MapThenSumSet(LAMBDA r : r.hi - r.lo + 1, ranges) = Total(g, ranges)
  BY <1>2, RangesTotal
<1>7. Sizes(blocks) = Total(f, S)
  BY DEF Sizes
<1> HIDE DEF S, h, f, g
<1>8. Total(f, S) = Total(g, {h[x] : x \in S})
  BY <1>1, <1>4, <1>5, TotalMapped
<1> QED
  BY <1>1, <1>6, <1>7, <1>8

LEMMA UtilMeans ==
  ASSUME EvalInv, AgreeInv, Fitting, UtilInv
  PROVE  UtilizationRight
<1> SUFFICES ASSUME phase = "util", call.at = "idle", i > Len(trace)
             PROVE  total_size = MapThenSumSet(LAMBDA r : r.hi - r.lo + 1, ranges)
  BY DEF UtilizationRight, UtilInv
<1>1. /\ trace \in Seq(TraceEntries) /\ i \in 1 .. Len(trace) + 1 /\ Len(trace) \in Nat
      /\ error = "none" /\ DOMAIN blocks = Live(trace, i - 1) /\ ~Checking
  BY DEF EvalInv, Records, ReplayedSoFar, AgreeInv, Checking
<1>2. i - 1 = Len(trace) /\ i - 1 \in Nat
  BY <1>1
<1>3. ranges = PayloadsOf(blocks, DOMAIN blocks)
  BY <1>1, <1>2 DEF AgreeInv, ReplayAgrees
<1>4. \A n \in 1 .. i - 1 : trace[n].index \in Ids
  <2>1. \A n \in 1 .. i - 1 : trace[n] \in TraceEntries
    BY <1>1, <1>2
  <2> QED BY <2>1 DEF TraceEntries
<1>5. total_size = Sizes(blocks)
  <2> DEFINE k == i - 1
  <2>1. k \in Nat /\ Table(blocks) /\ DOMAIN blocks = Live(trace, k) /\ SizedAs(blocks, k)
        /\ total_size = OptimalSize(k) /\ \A n \in 1 .. k : trace[n].index \in Ids
    BY <1>1, <1>2, <1>4 DEF UtilInv, Fitting
  <2> HIDE DEF k
  <2> QED BY <2>1, OptimalIsSizes
<1> QED
  BY <1>1, <1>3, <1>5, RangesAreSizes

-----------------------------------------------------------------------------
(* Types.                                                                  *)

AFunction(m) == m = [a \in DOMAIN m |-> m[a]]

LEMMA MemoryOps ==
  ASSUME NEW m
  PROVE  /\ \A bp, asize : AFunction(place(m, bp, asize))
         /\ \A bp : AFunction(Freed(m, bp))
         /\ \A top, size : AFunction(Extended(m, top, size).mem)
         /\ AFunction(Initialised(m))
         /\ \A p, n, w : AFunction(Overlay(m, p, n, w))
<1>1. \A v, bp, size, alloc : AFunction(Tag(v, bp, size, alloc))
  BY DEF AFunction, Tag
<1>2. \A v, bp : AFunction(Epilogue(v, bp))
  BY DEF AFunction, Epilogue
<1>3. \A v, bp : AFunction(v) => AFunction(coalesce(v, bp).mem)
  BY <1>1 DEF coalesce
<1>4. \A v, bp, asize : AFunction(place(v, bp, asize))
  BY <1>1 DEF place
<1>5. \A v, bp : AFunction(Freed(v, bp))
  BY <1>1, <1>3 DEF Freed
<1>6. \A v, top, size : AFunction(Extended(v, top, size).mem)
  BY <1>2, <1>3 DEF Extended
<1>7. AFunction(Initialised(m))
  BY <1>6 DEF Initialised
<1>8. \A p, n, w : AFunction(Overlay(m, p, n, w))
  BY DEF AFunction, Overlay
<1> QED
  BY <1>4, <1>5, <1>6, <1>7, <1>8

\* What a step may do to the state of MDriver.
Effects ==
    /\ AFunction(mem) => AFunction(mem')
    /\ error' # "none" => brk' = brk
    /\ call' = Idle \/ call' = call \/ call'.at # "idle"
    /\ \/ blocks' = blocks \/ blocks' = <<>>
       \/ \E D \in SUBSET DOMAIN blocks : blocks' = Restrict(blocks, D)
       \/ Serving /\ call.bp # NULL /\ blocks' = WithBlock(call.bp)
    /\ \/ ranges' \subseteq ranges
       \/ /\ Serving /\ call.bp # NULL
          /\ ranges' \subseteq ranges \cup {Payload(call.bp, op.size)}
    /\ \/ op' = op \/ op' = NoOp
       \/ \E type \in {"ALLOC", "REALLOC"}, x \in Ids, size \in Requests :
             op' = [type |-> type, index |-> x, size |-> size]
    /\ error' = error \/ error' \in Errors

LEMMA RequestEffects ==
  ASSUME NEW type \in {"ALLOC", "REALLOC"}, NEW x \in Ids, NEW size \in Requests,
         Request(type, x, size)
  PROVE  Effects
<1>1. call'.at = "fit" /\ UNCHANGED <<mem, brk, blocks, ranges, error>>
  BY DEF Request, mm_malloc, clientVars
<1>2. op' = [type |-> type, index |-> x, size |-> size]
  BY DEF Request
<1> QED
  BY <1>1, <1>2 DEF Effects

LEMMA SearchEffects ==
  ASSUME EvalInv, Search
  PROVE  Effects
<1>1. UNCHANGED <<blocks, ranges, op, error>> /\ MallocStep
  BY DEF Search, MallocRuns, clientVars
<1>2. AFunction(mem) => AFunction(mem')
  BY <1>1, MemoryOps DEF MallocStep, FindNext, Found, NotFound
<1>3. error = "none" /\ call.at = "fit"
  BY <1>1, IdleFacts DEF EvalInv, HeapInv, MallocStep, FindNext, Found, NotFound
<1>4. call'.at # "idle"
  <2>1. call \in [at : {"idle", "fit", "done"}, asize : Nat, bp : Int]
    BY <1>3 DEF EvalInv, HeapInv, HeapState, SearchState
  <2> QED BY <1>1, <1>3, <2>1 DEF MallocStep, FindNext, Found, NotFound, Returns
<1> QED
  BY <1>1, <1>2, <1>3, <1>4 DEF Effects

LEMMA ReturnEffects ==
  ASSUME AllocReturns \/ ReallocReturns \/ AllocFails \/ ReallocFails
  PROVE  Effects
<1>1. /\ call' = Idle /\ op' = NoOp /\ brk' = brk
      /\ error' = error \/ error' \in Errors
  BY DEF AllocReturns, ReallocReturns, AllocFails, ReallocFails, Done, Remember, Report, Errors
<1>2. AFunction(mem) => AFunction(mem')
  BY MemoryOps DEF AllocReturns, ReallocReturns, AllocFails, ReallocFails, Remember, memset,
     Reallocated
<1>3. \/ blocks' = blocks
      \/ Serving /\ call.bp # NULL /\ blocks' = WithBlock(call.bp)
  BY DEF AllocReturns, ReallocReturns, AllocFails, ReallocFails, Remember, Report
<1>4. \/ ranges' \subseteq ranges
      \/ /\ Serving /\ call.bp # NULL
         /\ ranges' \subseteq ranges \cup {Payload(call.bp, op.size)}
  BY DEF AllocReturns, ReallocReturns, AllocFails, ReallocFails, add_range, remove_range
<1> QED
  BY <1>1, <1>2, <1>3, <1>4 DEF Effects

LEMMA FreeEffects ==
  ASSUME NEW x, mm_free(x), ranges' \subseteq ranges
  PROVE  Effects
<1>1. blocks' = Restrict(blocks, DOMAIN blocks \ {x}) /\ DOMAIN blocks \ {x} \in SUBSET DOMAIN blocks
  BY DEF mm_free
<1>2. UNCHANGED <<brk, call, op, error>> /\ AFunction(mem')
  BY MemoryOps DEF mm_free
<1> QED
  BY <1>1, <1>2 DEF Effects

LEMMA RestartEffects ==
  ASSUME mm_init, blocks' = <<>>, ranges' \subseteq ranges, op' = op \/ op' = NoOp,
         error' = error \/ error' = "none", error' = "none"
  PROVE  Effects
<1>1. AFunction(mem') /\ call' = Idle
  BY MemoryOps DEF mm_init
<1> QED
  BY <1>1 DEF Effects, Errors

LEMMA RememberedEffects ==
  ASSUME ReplayReturn
  PROVE  Effects
<1>1. Serving /\ call' = Idle /\ op' = NoOp /\ UNCHANGED <<brk, ranges>>
  BY DEF ReplayReturn, Done
<1>2. CASE call.bp # NULL /\ Remembered
  <2>1. blocks' = WithBlock(call.bp) /\ error' = error
    BY <1>2 DEF Remembered
  <2>2. AFunction(mem) => AFunction(mem')
    BY <1>2, MemoryOps DEF Remembered, Reallocated
  <2> QED BY <1>1, <1>2, <2>1, <2>2 DEF Effects
<1>3. CASE GivenUp
  BY <1>1, <1>3 DEF GivenUp, Effects, Errors
<1> QED
  BY <1>2, <1>3 DEF ReplayReturn

LEMMA StepEffects ==
  ASSUME EvalInv, (~Checking => error = "none"), [EvalNext]_allVars
  PROVE  Effects
<1>1. CASE CheckedRequest
  BY <1>1, RequestEffects DEF CheckedRequest, Alloc, Realloc
<1>2. CASE CheckedReturn \/ CheckedFailure
  BY <1>2, ReturnEffects DEF CheckedReturn, CheckedFailure
<1>3. ASSUME NEW x \in Ids, CheckedFree(x) PROVE Effects
  <2>1. mm_free(x) /\ ranges' \subseteq ranges
    BY <1>3 DEF CheckedFree, FreeBlock, remove_range
  <2> QED BY <2>1, FreeEffects
<1>4. CASE Search
  BY <1>4, SearchEffects
<1>5. CASE Accepted \/ Utilized \/ NextLap
  <2>1. mm_init /\ blocks' = <<>> /\ ranges' = ranges /\ op' = op /\ error' = error /\ error = "none"
    BY <1>5 DEF Accepted, Utilized, NextLap, Replay, Restarted, AllReplayed, Ready
  <2> QED BY <2>1, RestartEffects
<1>6. CASE NextFile
  <2>1. mm_init /\ blocks' = <<>> /\ ranges' = {} /\ op' = NoOp /\ error' = "none"
    BY <1>6 DEF NextFile, NewTrace
  <2> QED BY <2>1, RestartEffects
<1>7. CASE ReplayRequest
  <2>1. Replaying /\ error = "none" /\ trace[i].type # "FREE"
        /\ Request(trace[i].type, trace[i].index, trace[i].size)
    BY <1>7 DEF ReplayRequest, Request, Ready
  <2>2. trace[i] \in TraceEntries
    BY <2>1, NextIsLegal
  <2>3. trace[i].type \in {"ALLOC", "REALLOC"} /\ trace[i].index \in Ids /\ trace[i].size \in Requests
    BY <2>1, <2>2 DEF TraceEntries
  <2> QED BY <2>1, <2>3, RequestEffects
<1>8. CASE ReplayReturn
  BY <1>8, RememberedEffects
<1>9. CASE ReplayFree
  <2>1. mm_free(trace[i].index) /\ ranges' \subseteq ranges
    BY <1>9 DEF ReplayFree
  <2> QED BY <2>1, FreeEffects
<1>10. CASE UNCHANGED allVars
  BY <1>10 DEF allVars, vars, heapVars, clientVars, Effects
<1> QED
  BY <1>1, <1>2, <1>3, <1>4, <1>5, <1>6, <1>7, <1>8, <1>9, <1>10 DEF EvalNext

\* What a step may do to the rest of the state.
MainEffects ==
    /\ phase' = phase \/ phase' \in {"valid", "util", "speed"}
    /\ \/ trace' = trace \/ trace' = <<>>
       \/ Len(trace) < MaxOps /\ \E e : trace' = Append(trace, e)
    /\ i' = i \/ i' = 1 \/ ~Checking'
    /\ lap' = lap \/ lap' \in {0, 1} \/ (lap < Repeats /\ lap' = lap + 1)
    /\ \/ UNCHANGED <<total_size, max_total_size>>
       \/ total_size' = 0 /\ max_total_size' = 0
       \/ phase' = "util"

LEMMA StepFollowed ==
  ASSUME followed \in BOOLEAN, [EvalNext]_allVars
  PROVE  followed' \in BOOLEAN
<1>1. \/ followed' = followed \/ followed' = FALSE
      \/ followed' = (followed /\ Len(trace) < MaxOps)
  BY DEF EvalNext, CheckedRequest, CheckedReturn, CheckedFailure, CheckedFree, Search, Accepted,
     Utilized, NextLap, NextFile, Replay, ReplayRequest, ReplayReturn, Remembered, GivenUp,
     ReplayFree, Counted, Recorded, allVars, mainVars
<1> QED
  BY <1>1

LEMMA StepMainEffects ==
  ASSUME [EvalNext]_allVars
  PROVE  MainEffects
<1>1. CASE UNCHANGED mainVars
  <2>1. UNCHANGED <<phase, trace, i, lap, total_size, max_total_size>>
    BY <1>1 DEF mainVars, replayVars
  <2> QED BY <2>1 DEF MainEffects
<1>2. ASSUME NEW entry, Recorded(entry) PROVE MainEffects
  <2>1. UNCHANGED <<phase, i, lap, total_size, max_total_size>>
    BY <1>2 DEF Recorded, replayVars
  <2>2. \/ Len(trace) < MaxOps /\ trace' = Append(trace, entry)
        \/ trace' = <<>>
    <3>1. CASE followed'
      <4>1. Len(trace) < MaxOps
        BY <1>2, <3>1 DEF Recorded
      <4> QED BY <1>2, <3>1, <4>1 DEF Recorded
    <3>2. CASE ~followed'
      BY <1>2, <3>2 DEF Recorded
    <3> QED BY <3>1, <3>2
  <2> QED BY <2>1, <2>2 DEF MainEffects
<1>3. CASE Accepted \/ Utilized \/ NextLap \/ NextFile
  BY <1>3 DEF Accepted, Utilized, NextLap, NextFile, Replay, MainEffects
<1>4. ASSUME NEW newtotal, Counted(newtotal) PROVE MainEffects
  BY <1>4 DEF Counted, MainEffects, Checking
<1>5. CASE CheckedReturn
  BY <1>2, <1>5 DEF CheckedReturn
<1>6. CASE \E x \in Ids : CheckedFree(x)
  BY <1>2, <1>6 DEF CheckedFree
<1>7. CASE ReplayReturn
  <2>1. Remembered \/ GivenUp
    BY <1>7 DEF ReplayReturn
  <2> QED BY <1>1, <1>4, <2>1 DEF Remembered, GivenUp
<1>8. CASE ReplayFree
  BY <1>4, <1>8 DEF ReplayFree
<1>9. CASE CheckedRequest \/ CheckedFailure \/ Search \/ ReplayRequest \/ UNCHANGED allVars
  BY <1>1, <1>9 DEF CheckedRequest, CheckedFailure, Search, ReplayRequest, allVars
<1> QED
  BY <1>3, <1>5, <1>6, <1>7, <1>8, <1>9 DEF EvalNext

\* What the invariants say of types.
TypeFacts ==
    /\ Numbers(mem)
    /\ error = "none" => brk \in Addresses /\ (call.at # "idle" => call \in Call)
    /\ error # "none" => call = Idle
    /\ trace \in Seq(TraceEntries)
    /\ DOMAIN blocks \subseteq Ids
    /\ call.at # "idle" => op.index \in Ids /\ op.size \in Requests
    /\ ~Checking => error = "none" /\ i \in 1 .. Len(trace) + 1
    /\ phase = "util" => total_size \in Nat /\ max_total_size \in Nat

LEMMA SixteensAreEights == \A n \in Nat : n % 16 = 0 => n % 8 = 0
<1> SUFFICES ASSUME NEW n \in Nat, n % 16 = 0 PROVE n % 8 = 0
  OBVIOUS
<1>1. n = 16 * (n \div 16)
  BY Z3T(20)
<1>2. n = 8 * (2 * (n \div 16)) /\ 2 * (n \div 16) \in Nat
  BY <1>1, Z3T(20)
<1>3. \A k \in Nat : (8 * k) % 8 = 0
  BY Z3T(20)
<1> QED
  BY <1>2, <1>3

LEMMA TypesKnown ==
  ASSUME NoScraps, EvalInv, ClientInv, AgreeInv, UtilInv
  PROVE  TypeFacts
<1>1. /\ Numbers(mem) /\ (error # "none" => call = Idle)
      /\ trace \in Seq(TraceEntries) /\ DOMAIN blocks \subseteq Ids
      /\ call.at # "idle" => op.index \in Ids /\ op.size \in Requests
      /\ ~Checking => error = "none" /\ i \in 1 .. Len(trace) + 1
  BY DEF ClientInv, EvalInv, HeapInv, Records, AgreeInv, ReplayedSoFar
<1>2. ASSUME error = "none" PROVE brk \in Addresses /\ (call.at # "idle" => call \in Call)
  <2>1. PICK B : HeapState(B)
    BY <1>2 DEF EvalInv, HeapInv
  <2>2. Heap(mem, brk, B) /\ Handed \subseteq B /\ SearchState(mem, B)
    BY <2>1 DEF HeapState, Good, AllocatedIn, Inner
  <2>3. brk \in Addresses
    BY <2>2 DEF Heap
  <2>4. \A bp \in B : bp \in Addresses
    <3> SUFFICES ASSUME NEW bp \in B PROVE bp \in Addresses
      OBVIOUS
    <3>1. bp \in Int /\ bp % 8 = 0 /\ 8 <= bp /\ bp <= brk
      BY <2>2, BlockFacts
    <3>2. brk \in Int /\ brk <= MAX_HEAP /\ MAX_HEAP \in Int
      BY <2>2, EndFacts, HeapAssumption
    <3> QED BY <3>1, <3>2 DEF Addresses, ALIGNMENT
  <2>5. ASSUME call.at # "idle" PROVE call \in Call
    <3>1. /\ call.asize = BlockSize(op.size) /\ op.size \in Requests
      BY <1>1, <1>2, <2>5 DEF ClientInv
    <3>2. call.asize \in Nat /\ call.asize % 8 = 0
      BY <3>1, Inputs, BlockSizeFacts, SixteensAreEights DEF NoScraps
    <3>3. call \in [at : {"idle", "fit", "done"}, asize : Nat, bp : Int]
      BY <2>2 DEF SearchState
    <3>4. call.bp \in B \cup {NULL}
      BY <2>2, <2>5, <3>3 DEF SearchState, Handed
    <3>5. call.bp \in Addresses \cup {NULL}
      BY <2>4, <3>4
    <3> QED BY <3>2, <3>3, <3>5 DEF Call, ALIGNMENT
  <2> QED BY <2>3, <2>5
<1> QED
  BY <1>1, <1>2, HighWaterNat DEF TypeFacts

LEMMA ClientTypes ==
  ASSUME EvalTypeOK, TypeFacts, TypeFacts', Effects
  PROVE  TypeOK'
<1> DEFINE Entries == [lo : Addresses, size : Requests]
<1>1. ASSUME Serving, call.bp # NULL
      PROVE  /\ call.bp \in Addresses /\ op.size \in Requests /\ op.index \in Ids
             /\ Payload(call.bp, op.size) \in [lo : Addresses, hi : Nat]
  <2>1. call \in Call /\ op.size \in Requests /\ op.index \in Ids
    BY <1>1 DEF Serving, TypeFacts
  <2>2. call.bp \in Addresses
    BY <1>1, <2>1 DEF Call
  <2>3. call.bp \in Nat /\ op.size \in Nat /\ op.size # 0
    BY <2>1, <2>2, Inputs, HeapAssumption DEF Addresses
  <2>4. call.bp + op.size - 1 \in Nat
    BY <2>3
  <2> QED BY <2>1, <2>2, <2>4 DEF Payload
<1>2. mem' \in [Words -> Nat]
  <2>1. AFunction(mem)
    BY DEF EvalTypeOK, TypeOK, AFunction
  <2>2. AFunction(mem') /\ Numbers(mem')
    BY <2>1 DEF Effects, TypeFacts
  <2> QED BY <2>2 DEF AFunction, Numbers
<1>3. brk' \in Addresses
  BY DEF EvalTypeOK, TypeOK, TypeFacts, Effects
<1>4. call' \in Call
  <2>1. Idle \in Call
    <3>1. 0 % 8 = 0
      OBVIOUS
    <3> QED BY <3>1 DEF Idle, Call, ALIGNMENT
  <2>2. call \in Call /\ call'.at # "idle" => call' \in Call
    BY IdleFacts DEF EvalTypeOK, TypeOK, TypeFacts
  <2> QED BY <2>1, <2>2 DEF EvalTypeOK, TypeOK, Effects
<1>5. blocks' \in [DOMAIN blocks' -> Entries]
  <2>1. blocks \in [DOMAIN blocks -> Entries]
    BY DEF EvalTypeOK, TypeOK
  <2>2. ASSUME blocks' = <<>> PROVE blocks' \in [DOMAIN blocks' -> Entries]
    BY <2>2, NoBlocks
  <2>3. ASSUME NEW D \in SUBSET DOMAIN blocks, blocks' = Restrict(blocks, D)
        PROVE  blocks' \in [DOMAIN blocks' -> Entries]
    BY <2>1, <2>3 DEF Restrict
  <2>4. ASSUME Serving, call.bp # NULL, blocks' = WithBlock(call.bp)
        PROVE  blocks' \in [DOMAIN blocks' -> Entries]
    <3>1. [lo |-> call.bp, size |-> op.size] \in Entries
      BY <1>1, <2>4
    <3> HIDE DEF Entries
    <3> QED BY <2>1, <2>4, <3>1 DEF WithBlock
  <2> QED BY <2>1, <2>2, <2>3, <2>4 DEF Effects
<1>6. ranges' \subseteq [lo : Addresses, hi : Nat]
  BY <1>1 DEF EvalTypeOK, TypeOK, Effects
<1>7. op' \in Op
  <2>1. NoOp \in Op
    BY DEF NoOp, Op
  <2>2. ASSUME NEW type \in {"ALLOC", "REALLOC"}, NEW x \in Ids, NEW size \in Requests
        PROVE  [type |-> type, index |-> x, size |-> size] \in Op
    BY Inputs DEF Op
  <2> QED BY <2>1, <2>2 DEF EvalTypeOK, TypeOK, Effects
<1>8. error' \in Errors
  BY DEF EvalTypeOK, TypeOK, Effects
<1> QED
  BY <1>2, <1>3, <1>4, <1>5, <1>6, <1>7, <1>8 DEF TypeOK, TypeFacts

LEMMA MainTypes ==
  ASSUME EvalTypeOK, TypeFacts, TypeFacts', MainEffects
  PROVE  /\ (phase \in {"valid", "util", "speed"} /\ Len(trace) <= MaxOps)'
         /\ (i \in 1 .. MaxOps + 1 /\ lap \in 0 .. Repeats)'
         /\ (total_size \in Nat /\ max_total_size \in Nat)'
<1>1. MaxOps \in Nat /\ MaxOps >= 1 /\ Repeats \in Nat /\ Repeats >= 1
  BY EvaluationAssumption
<1>2. (Len(trace) <= MaxOps)' /\ (Len(trace) \in Nat)'
  <2>1. Len(trace) <= MaxOps /\ trace \in Seq(TraceEntries)
    BY DEF EvalTypeOK, TypeFacts
  <2>2. trace' \in Seq(TraceEntries)
    BY DEF TypeFacts
  <2>3. Len(<<>>) = 0
    OBVIOUS
  <2>4. \A e : Len(Append(trace, e)) = Len(trace) + 1
    BY <2>1
  <2> QED BY <1>1, <2>1, <2>2, <2>3, <2>4 DEF MainEffects
<1>3. (i \in 1 .. MaxOps + 1)'
  <2>1. ~Checking' => i' \in 1 .. Len(trace') + 1
    BY DEF TypeFacts
  <2> QED BY <1>1, <1>2, <2>1 DEF MainEffects, EvalTypeOK
<1>4. (lap \in 0 .. Repeats)'
  BY <1>1 DEF MainEffects, EvalTypeOK
<1>5. (total_size \in Nat /\ max_total_size \in Nat)'
  BY DEF MainEffects, EvalTypeOK, TypeFacts
<1>6. (phase \in {"valid", "util", "speed"})'
  BY DEF MainEffects, EvalTypeOK
<1> QED
  BY <1>2, <1>3, <1>4, <1>5, <1>6

LEMMA TypeStep ==
  ASSUME EvalInv, AgreeInv, TypeFacts, TypeFacts', EvalTypeOK, [EvalNext]_allVars
  PROVE  EvalTypeOK'
<1>1. TypeOK'
  <2>1. Effects
    BY StepEffects DEF TypeFacts
  <2> QED BY <2>1, ClientTypes
<1>2. MainEffects
  BY StepMainEffects
<1>3. (\A k \in DOMAIN trace :
          /\ trace[k].type \in {"ALLOC", "REALLOC", "FREE"}
          /\ trace[k].index \in Ids /\ trace[k].size \in Requests)'
  <2> SUFFICES ASSUME NEW k \in DOMAIN trace'
               PROVE  /\ trace'[k].type \in {"ALLOC", "REALLOC", "FREE"}
                      /\ trace'[k].index \in Ids /\ trace'[k].size \in Requests
    OBVIOUS
  <2>1. trace' \in Seq(TraceEntries)
    BY DEF TypeFacts
  <2>2. trace'[k] \in TraceEntries
    BY <2>1
  <2> QED BY <2>2 DEF TraceEntries
<1> QED
  <2>1. followed' \in BOOLEAN
    BY StepFollowed DEF EvalTypeOK
  <2> QED BY <1>1, <1>2, <1>3, <2>1, MainTypes DEF EvalTypeOK

LEMMA TypesBegin ==
  ASSUME EvalInit, TypeFacts
  PROVE  EvalTypeOK
<1>1. Init /\ blocks = <<>> /\ trace = <<>> /\ Len(trace) = 0 /\ DOMAIN trace = {}
  BY DEF EvalInit, Init
<1>2. TypeOK
  <2>1. mem \in [Words -> Nat]
    <3>1. AFunction(mem)
      BY <1>1, MemoryOps DEF Init
    <3> QED BY <3>1 DEF AFunction, TypeFacts, Numbers
  <2>2. brk \in Addresses
    BY <1>1 DEF Init, TypeFacts
  <2>3. call \in Call
    <3>1. 0 % 8 = 0
      OBVIOUS
    <3> QED BY <1>1, <3>1 DEF Init, Idle, Call, ALIGNMENT
  <2>4. blocks \in [DOMAIN blocks -> [lo : Addresses, size : Requests]] /\ DOMAIN blocks \subseteq Ids
    BY <1>1, NoBlocks
  <2> QED BY <1>1, <2>1, <2>2, <2>3, <2>4 DEF Init, TypeOK, NoOp, Op, Errors
<1>3. /\ i \in 1 .. MaxOps + 1 /\ lap \in 0 .. Repeats
      /\ Len(trace) <= MaxOps
  BY <1>1, EvaluationAssumption DEF EvalInit
<1> QED
  BY <1>1, <1>2, <1>3 DEF EvalInit, EvalTypeOK

-----------------------------------------------------------------------------
(* The theorems.                                                           *)

\* The invariant of the heap together with the records, for every size of the
\* memory, every set of indices, every length of a trace and every number of
\* laps (mdriver.c:568-795).
THEOREM EvaluationInvariant ==
  ASSUME NoScraps
  PROVE  EvalSpec => []EvalInv
<1>1. EvalInit => EvalInv
  <2> SUFFICES ASSUME EvalInit PROVE EvalInv
    OBVIOUS
  <2>1. /\ Init /\ phase = "valid" /\ trace = <<>> /\ blocks = <<>> /\ call = Idle
    BY DEF EvalInit, Init
  <2>2. Legal(trace) /\ trace \in Seq(TraceEntries) /\ Len(trace) = 0 /\ DOMAIN blocks = {}
    BY <2>1 DEF Legal
  <2>3. HeapInv
    BY <2>1, InitHeapInv
  <2>4. Records
    BY <2>1, <2>2, IdleFacts DEF Records
  <2>5. CheckedSoFar /\ ReplayedSoFar
    BY <2>1, <2>2, LiveNone DEF CheckedSoFar, ReplayedSoFar, Checking
  <2> QED BY <2>3, <2>4, <2>5 DEF EvalInv
<1>2. ASSUME EvalInv, [EvalNext]_allVars PROVE EvalInv'
  <2>1. CASE CheckedRequest
    BY <1>2, <2>1, CheckedRequestStep
  <2>2. CASE CheckedReturn
    BY <1>2, <2>2, CheckedReturnStep
  <2>3. CASE CheckedFailure
    BY <1>2, <2>3, CheckedFailureStep
  <2>4. ASSUME NEW index \in Ids, CheckedFree(index) PROVE EvalInv'
    BY <1>2, <2>4, CheckedFreeStep
  <2>5. CASE Search
    BY <1>2, <2>5, SearchKeeps
  <2>6. CASE Accepted \/ Utilized \/ NextLap
    <3>1. \E function \in {"util", "speed"} : Replay(function)
      BY <2>6 DEF Accepted, Utilized, NextLap
    <3> QED BY <1>2, <3>1, ReplayBegins
  <2>7. CASE NextFile
    BY <1>2, <2>7, NextFileStep
  <2>8. CASE ReplayRequest
    BY <1>2, <2>8, ReplayRequestStep
  <2>9. CASE ReplayReturn
    BY <1>2, <2>9, ReplayReturnStep
  <2>10. CASE ReplayFree
    BY <1>2, <2>10, ReplayFreeStep
  <2>11. CASE UNCHANGED allVars
    BY <1>2, <2>11 DEF allVars, vars, heapVars, clientVars, mainVars, replayVars, EvalInv,
       HeapInv, HeapState, Sensible, SearchState, Owned, Handed, Records, CheckedSoFar,
       ReplayedSoFar, Checking
  <2> QED
    BY <1>2, <2>1, <2>2, <2>3, <2>4, <2>5, <2>6, <2>7, <2>8, <2>9, <2>10, <2>11 DEF EvalNext
<1> QED
  BY <1>1, <1>2, PTL DEF EvalSpec

\* Also in the replays and from trace to trace the tags tile the heap, and no
\* two neighbours are both free (note/malloc.md:30-36).
THEOREM HeapConsistentThroughout ==
  ASSUME NoScraps
  PROVE  EvalSpec => []HeapConsistent
<1>1. EvalInv => HeapConsistent
  BY InvariantMeans DEF EvalInv
<1> QED
  BY <1>1, EvaluationInvariant, PTL

\* Also there every allocated block has exactly one owner.
THEOREM NoBlockLostThroughout ==
  ASSUME NoScraps
  PROVE  EvalSpec => []NoBlockLost
<1>1. EvalInv => NoBlockLost
  BY InvariantMeans DEF EvalInv
<1> QED
  BY <1>1, EvaluationInvariant, PTL

\* Also there mm_malloc returns NULL only if no free block is large enough.
THEOREM FailsOnlyWhenFullThroughout ==
  ASSUME NoScraps
  PROVE  EvalSpec => []FailsOnlyWhenFull
<1>1. EvalInv => FailsOnlyWhenFull
  BY InvariantMeans DEF EvalInv
<1> QED
  BY <1>1, EvaluationInvariant, PTL

\* The client, the record and the replays.
LEMMA AgreeAlways ==
  ASSUME NoScraps
  PROVE  EvalSpec => [](EvalInv /\ ClientInv /\ AgreeInv)
<1>1. EvalInit => ClientInv /\ AgreeInv
  <2> SUFFICES ASSUME EvalInit PROVE AgreeInv
    BY ClientBegins
  <2> DEFINE tabs == [k \in {0} |-> blocks]
             tops == [k \in {0} |-> brk]
  <2>1. /\ Checking /\ trace = <<>> /\ blocks = <<>> /\ brk = InitialBrk /\ call.at = "idle"
    BY IdleFacts DEF EvalInit, Init, Checking
  <2>2. Len(trace) = 0 /\ tabs[0] = blocks /\ tops[0] = brk /\ 1 .. 0 = {}
    BY <2>1
  <2> HIDE DEF tabs, tops
  <2>3. RecordAgrees(tabs, tops)
    BY <2>1, <2>2 DEF RecordAgrees, History
  <2> QED BY <2>1, <2>3 DEF AgreeInv
<1>2. ASSUME EvalInv, ClientInv, AgreeInv, [EvalNext]_allVars
      PROVE  ClientInv' /\ AgreeInv'
  BY <1>2, ClientStep, AgreeStep
<1> QED
  BY <1>1, <1>2, EvaluationInvariant, PTL DEF EvalSpec

\* For the client the heap with its tags, splits and joins is the allocator
\* that mm.h promises, in eval_mm_valid as well as in the replays: aligned
\* memory inside the heap that no live block uses.  eval_mm_valid finds in
\* every live block what it has written there; what mm_realloc loses it
\* notices before it goes on (mm.h, mdriver.c:568-795).
THEOREM EvaluationImplementsAllocator ==
  ASSUME NoScraps
  PROVE  EvalSpec => ImplementsAllocator
<1>1. EvalInit => ClientInv /\ Promise!AllocInit
  <2>1. ASSUME EvalInit PROVE blocks = [k \in {} |-> 0]
    BY <2>1, NoBlocks DEF EvalInit, Init
  <2> QED BY <2>1, ClientBegins, HonouredAlways DEF Promise!AllocInit
<1>2. ASSUME EvalInv, ClientInv, [EvalNext]_allVars
      PROVE  ClientInv' /\ [Promise!AllocNext]_(Promise!allocVars)
  BY <1>2, ClientStep DEF Promise!allocVars
<1> QED
  BY <1>1, <1>2, EvaluationInvariant, PTL DEF EvalSpec, ImplementsAllocator, Promise!AllocSpec

\* eval_mm_util and eval_mm_speed start on a heap that is full of what the trace
\* and its check have left, and do not fill their blocks; yet mm.c gives every
\* request the address it gave in eval_mm_valid, so a valid trace never makes
\* mdriver exit there (mdriver.c:703-795).  Whatever the lengths of the traces
\* and the number of laps.
THEOREM ReplaysAlwaysAgree ==
  ASSUME NoScraps
  PROVE  EvalSpec => []ReplaysAgree
<1>1. AgreeInv => ReplaysAgree
  BY DEF AgreeInv, ReplayAgrees, ReplaysAgree, Checking
<1> QED
  BY <1>1, AgreeAlways, PTL

\* The table of blocks and what eval_mm_util has counted.
LEMMA UtilAlways ==
  ASSUME NoScraps
  PROVE  EvalSpec => [](Fitting /\ UtilInv)
<1>1. EvalInit => UtilInv
  BY DEF EvalInit, UtilInv, Checking
<1>2. EvalInv /\ ClientInv /\ AgreeInv => Fitting
  BY BlocksFit
<1>3. ASSUME EvalInv, AgreeInv, UtilInv, Fitting, (EvalInv /\ AgreeInv /\ Fitting)',
             [EvalNext]_allVars
      PROVE  UtilInv'
  BY <1>3, UtilStep
<1> QED
  BY <1>1, <1>2, <1>3, AgreeAlways, PTL DEF EvalSpec

\* What eval_mm_util reports: total_size, kept by adding and subtracting over
\* any order of requests, is what the live requests ask for together,
\* max_total_size the most they ever asked for, which the heap has room for;
\* and the trace ends with what eval_mm_valid saw live (mdriver.c:689-757).
THEOREM UtilizationIsRight ==
  ASSUME NoScraps
  PROVE  EvalSpec => []UtilizationRight
<1>1. EvalInv /\ AgreeInv /\ Fitting /\ UtilInv => UtilizationRight
  BY UtilMeans
<1> QED
  BY <1>1, AgreeAlways, UtilAlways, PTL

\* Types, among them: mm_malloc searches and returns only addresses of payloads
\* inside the memory, payloads end inside it, and the totals of eval_mm_util
\* never go below 0.
THEOREM EvaluationTypes ==
  ASSUME NoScraps
  PROVE  EvalSpec => []EvalTypeOK
<1>1. EvalInv /\ ClientInv /\ AgreeInv /\ UtilInv => TypeFacts
  BY TypesKnown
<1>2. EvalInit /\ TypeFacts => EvalTypeOK
  BY TypesBegin
<1>3. ASSUME EvalInv, AgreeInv, TypeFacts, TypeFacts', EvalTypeOK, [EvalNext]_allVars
      PROVE  EvalTypeOK'
  BY <1>3, TypeStep
<1> QED
  BY <1>1, <1>2, <1>3, AgreeAlways, UtilAlways, PTL DEF EvalSpec
=============================================================================
