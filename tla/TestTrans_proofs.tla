-------------------------- MODULE TestTrans_proofs --------------------------
(***************************************************************************)
(* Proofs about the transpose functions, for matrices of every size, and   *)
(* about their grader, whatever csim-ref counts.  The invariant makes no   *)
(* use of which functions are correct, Valid is a set of jobs there; which *)
(* jobs it has, and so what the driver can print, follows at the end.      *)
(***************************************************************************)
EXTENDS TestTrans, SetFacts

-----------------------------------------------------------------------------
(* The transpose functions.                                                *)

LEMMA RoundUpFacts ==
  ASSUME NEW k \in Nat
  PROVE  /\ RoundUp(k) \in Nat /\ k <= RoundUp(k)
         /\ k % BLOCK = 0 => RoundUp(k) = k
         /\ k % BLOCK # 0 => k < RoundUp(k)
BY DEF RoundUp, BLOCK

\* B[j][i] is written by the loops that reach <<i, j>>, and by no other as long
\* as i stays below the length of a row of B.
LEMMA OneWriter ==
  ASSUME NEW N \in Nat \ {0}, NEW width \in Nat, NEW i \in 0 .. N - 1, NEW j \in 0 .. width - 1
  PROVE  Writers(N, N, width, AddressB(N, i, j)) = {<<i, j>>}
<1> DEFINE a == j * N + i
           W == {w \in {<<a - x * N, x>> : x \in 0 .. width - 1} : w[1] \in 0 .. N - 1}
<1>1. j \in Nat /\ j * N \in Nat /\ a \in Nat /\ a - j * N = i
  OBVIOUS
<1>2. <<i, j>> \in W
  BY <1>1
<1>3. ASSUME NEW x \in 0 .. width - 1, a - x * N \in 0 .. N - 1
      PROVE  x = j
  <2>1. x \in Nat /\ x * N \in Nat
    OBVIOUS
  <2>2. a \div N = j
    BY <1>1, DivMod
  <2> HIDE DEF a
  <2>3. a = x * N + (a - x * N)
    BY <1>1, <2>1
  <2>4. (x * N + (a - x * N)) \div N = x
    BY <1>3, <2>1, DivMod
  <2> QED BY <2>2, <2>3, <2>4
<1>4. W = {<<i, j>>}
  <2> SUFFICES ASSUME NEW w \in W PROVE w = <<i, j>>
    BY <1>2
  <2>1. PICK x \in 0 .. width - 1 : w = <<a - x * N, x>>
    OBVIOUS
  <2>2. a - x * N \in 0 .. N - 1
    BY <2>1
  <2> QED BY <1>1, <1>3, <2>1, <2>2
<1> QED
  BY <1>4 DEF Writers, AddressB

\* The simple transpose is right for matrices of every size (trans.c 43-54).
THEOREM TransAlwaysValid ==
  ASSUME NEW M \in Nat \ {0}, NEW N \in Nat \ {0}
  PROVE  TransIsValid(M, N)
<1> SUFFICES ASSUME NEW i \in 0 .. N - 1, NEW j \in 0 .. M - 1
             PROVE  trans(M, N, AddressB(N, i, j)) = AtA(M, N, i, j)
  BY DEF TransIsValid
<1>1. Writers(N, N, M, AddressB(N, i, j)) = {<<i, j>>}
  BY OneWriter
<1>2. (CHOOSE w \in {<<i, j>>} : TRUE) = <<i, j>>
  OBVIOUS
<1> QED
  BY <1>1, <1>2 DEF trans

LEMMA SubmitAlone ==
  ASSUME NEW M, NEW N, NEW i, NEW j,
         Writers(N, RoundUp(N), RoundUp(M), AddressB(N, i, j)) = {<<i, j>>},
         SubmitTime(M, i, j) \in Int
  PROVE  transpose_submit(M, N, AddressB(N, i, j)) = AtA(M, N, i, j)
<1> DEFINE time(w) == SubmitTime(M, w[1], w[2])
           last == CHOOSE w \in {<<i, j>>} : \A v \in {<<i, j>>} : time(v) <= time(w)
<1>1. last = <<i, j>>
  OBVIOUS
<1> QED
  BY <1>1 DEF transpose_submit

LEMMA SubmitTimeFacts ==
  ASSUME NEW M \in Nat, NEW i \in Nat, NEW j \in Nat
  PROVE  SubmitTime(M, i, j) \in Nat
<1> DEFINE x == i \div BLOCK
           y == RoundUp(M) \div BLOCK
           z == j \div BLOCK
<1>1. x \in Nat /\ y \in Nat /\ z \in Nat /\ i % BLOCK \in Nat /\ j % BLOCK \in Nat
  BY RoundUpFacts DEF BLOCK
<1> HIDE DEF x, y, z
<1>2. x * y \in Nat
  BY <1>1
<1>3. SubmitTime(M, i, j) = (x * y + z) * BLOCK * BLOCK + ((i % BLOCK) * BLOCK + (j % BLOCK))
  BY DEF SubmitTime, x, y, z
<1> QED
  BY <1>1, <1>2, <1>3 DEF BLOCK

\* transpose_submit is right exactly for the matrices whose rows of B are whole
\* blocks, and for those of one column.  Otherwise it writes past the end of
\* the first row of B, on the second, after that is written (trans.c 26-31).
THEOREM SubmitValidExactly ==
  ASSUME NEW M \in Nat \ {0}, NEW N \in Nat \ {0}
  PROVE  SubmitIsValid(M, N) <=> N % BLOCK = 0 \/ M = 1
<1>1. RoundUp(M) \in Nat /\ M <= RoundUp(M) /\ RoundUp(N) \in Nat /\ N <= RoundUp(N)
  BY RoundUpFacts
<1>2. ASSUME N % BLOCK = 0 PROVE SubmitIsValid(M, N)
  <2> SUFFICES ASSUME NEW i \in 0 .. N - 1, NEW j \in 0 .. M - 1
               PROVE  transpose_submit(M, N, AddressB(N, i, j)) = AtA(M, N, i, j)
    BY DEF SubmitIsValid
  <2>1. RoundUp(N) = N /\ j \in 0 .. RoundUp(M) - 1 /\ i \in Nat /\ j \in Nat
    BY <1>1, <1>2, RoundUpFacts
  <2>2. Writers(N, RoundUp(N), RoundUp(M), AddressB(N, i, j)) = {<<i, j>>}
    BY <1>1, <2>1, OneWriter
  <2>3. SubmitTime(M, i, j) \in Int
    BY <2>1, SubmitTimeFacts
  <2> QED BY <2>2, <2>3, SubmitAlone
<1>3. ASSUME M = 1 PROVE SubmitIsValid(M, N)
  <2> SUFFICES ASSUME NEW i \in 0 .. N - 1
               PROVE  transpose_submit(M, N, AddressB(N, i, 0)) = AtA(M, N, i, 0)
    BY <1>3 DEF SubmitIsValid
  <2> DEFINE all == {<<i - x * N, x>> : x \in 0 .. RoundUp(M) - 1}
             W == {w \in all : w[1] \in 0 .. RoundUp(N) - 1}
  <2>1. ASSUME NEW x \in 0 .. RoundUp(M) - 1, i - x * N >= 0 PROVE x = 0
    <3>1. x # 0 => 1 * N <= x * N
      BY Products
    <3>2. x * N \in Nat
      OBVIOUS
    <3> QED BY <2>1, <3>1, <3>2
  <2>2. <<i, 0>> \in W
    <3>1. i - 0 * N = i /\ 0 \in 0 .. RoundUp(M) - 1 /\ i \in 0 .. RoundUp(N) - 1
      BY <1>1
    <3> QED BY <3>1
  <2>3. W = {<<i, 0>>}
    <3> SUFFICES ASSUME NEW w \in W PROVE w = <<i, 0>>
      BY <2>2
    <3>1. PICK x \in 0 .. RoundUp(M) - 1 : w = <<i - x * N, x>>
      OBVIOUS
    <3>2. i - x * N >= 0
      BY <3>1
    <3> QED BY <2>1, <3>1, <3>2
  <2>4. AddressB(N, i, 0) = i
    BY DEF AddressB
  <2>5. Writers(N, RoundUp(N), RoundUp(M), AddressB(N, i, 0)) = {<<i, 0>>}
    BY <2>3, <2>4 DEF Writers
  <2> QED BY <2>5, SubmitAlone, SubmitTimeFacts
<1>4. ASSUME N % BLOCK # 0, M # 1 PROVE ~SubmitIsValid(M, N)
  <2> DEFINE all == {<<N - x * N, x>> : x \in 0 .. RoundUp(M) - 1}
             W == {w \in all : w[1] \in 0 .. RoundUp(N) - 1}
             writers == Writers(N, RoundUp(N), RoundUp(M), N)
             time(w) == SubmitTime(M, w[1], w[2])
             last == CHOOSE w \in writers : \A v \in writers : time(v) <= time(w)
  <2>1. 0 \in 0 .. N - 1 /\ 1 \in 0 .. M - 1 /\ AddressB(N, 0, 1) = N
    BY <1>4 DEF AddressB
  <2>2. N < RoundUp(N)
    BY <1>4, RoundUpFacts
  <2>3. <<N, 0>> \in W
    <3>1. N - 0 * N = N /\ 0 \in 0 .. RoundUp(M) - 1 /\ N \in 0 .. RoundUp(N) - 1
      BY <1>1, <2>2
    <3> QED BY <3>1
  <2>4. W \subseteq {<<0, 1>>, <<N, 0>>}
    <3> SUFFICES ASSUME NEW w \in W PROVE w \in {<<0, 1>>, <<N, 0>>}
      OBVIOUS
    <3>1. PICK x \in 0 .. RoundUp(M) - 1 : w = <<N - x * N, x>>
      OBVIOUS
    <3>2. N - x * N >= 0
      BY <3>1
    <3>3. x \in {0, 1}
      <4>1. 2 <= x => 2 * N <= x * N
        BY Products
      <4>2. x * N \in Nat
        OBVIOUS
      <4> QED BY <3>2, <4>1, <4>2
    <3>4. N - 0 * N = N /\ N - 1 * N = 0
      OBVIOUS
    <3> QED BY <3>1, <3>3, <3>4
  <2>5. SubmitTime(M, 0, 1) < SubmitTime(M, N, 0)
    <3> DEFINE x == N \div BLOCK
               y == RoundUp(M) \div BLOCK
    <3>1. x \in Nat /\ y \in Nat /\ N % BLOCK \in 1 .. BLOCK - 1
      BY <1>1, <1>4 DEF BLOCK
    <3>2. SubmitTime(M, 0, 1) = (0 * y + 0) * 8 * 8 + (0 * 8 + 1)
      <4>1. 0 \div 8 = 0 /\ 1 \div 8 = 0 /\ 0 % 8 = 0 /\ 1 % 8 = 1
        OBVIOUS
      <4> QED BY <4>1 DEF SubmitTime, BLOCK
    <3>3. SubmitTime(M, N, 0) = (x * y + 0) * 8 * 8 + ((N % BLOCK) * 8 + 0)
      <4>1. 0 \div 8 = 0 /\ 0 % 8 = 0
        OBVIOUS
      <4> QED BY <4>1 DEF SubmitTime, BLOCK
    <3> HIDE DEF x, y
    <3>4. x * y \in Nat /\ 0 * y = 0
      BY <3>1
    <3> QED BY <3>1, <3>2, <3>3, <3>4 DEF BLOCK
  <2>6. SubmitTime(M, 0, 1) \in Nat /\ SubmitTime(M, N, 0) \in Nat
    BY SubmitTimeFacts
  <2> HIDE DEF W
  <2>7. writers = W
    BY DEF writers, Writers, W
  <2>8. transpose_submit(M, N, N) = AtA(M, N, last[1], last[2])
    BY DEF transpose_submit
  <2> HIDE DEF writers
  <2>9. \A v \in W : time(v) <= time(<<N, 0>>)
    BY <2>4, <2>5, <2>6
  <2>10. ~(time(<<N, 0>>) <= time(<<0, 1>>)) /\ <<0, 1>> # <<N, 0>>
    BY <2>5, <2>6
  <2>11. last \in W /\ \A v \in W : time(v) <= time(last)
    BY <2>3, <2>9, <2>7
  <2>12. last = <<N, 0>>
    BY <2>3, <2>4, <2>10, <2>11
  <2> HIDE DEF last
  <2>13. AtA(M, N, last[1], last[2]) = Zero
    <3>1. ~(N * M + 0 < N * M)
      <4>1. N * M \in Nat
        OBVIOUS
      <4> QED BY <4>1
    <3> QED BY <2>12, <3>1 DEF AtA
  <2>14. AtA(M, N, 0, 1) = 1
    <3>1. 0 * M + 1 = 1 /\ 1 < N * M
      <4>1. 1 * M <= N * M /\ N * M \in Nat
        BY Products
      <4> QED BY <1>4, <4>1
    <3> QED BY <3>1 DEF AtA
  <2>15. 1 # Zero
    BY DEF Zero
  <2> QED BY <2>1, <2>8, <2>13, <2>14, <2>15 DEF SubmitIsValid
<1> QED
  BY <1>2, <1>3, <1>4

-----------------------------------------------------------------------------
(* The grader.                                                             *)

Submission == 1     \* the place of transpose_submit in func_list

LEMMA Constants ==
  /\ Runs = {1, 2, 3} /\ Funcs = {1, 2}
  /\ \A k \in Funcs : IsSubmission(k) <=> k = Submission
  /\ Len(Sizes) = 3 /\ Len(func_list) = 2
  /\ Valid \subseteq Jobs
  /\ INVALID.count \in Nat
<1>1. Runs = {1, 2, 3} /\ Len(Sizes) = 3
  BY DEF Runs, Sizes
<1>2. Funcs = {1, 2} /\ Len(func_list) = 2
  BY DEF Funcs, func_list
<1>3. \A k \in Funcs : IsSubmission(k) <=> k = Submission
  <2>1. func_list[1] = SUBMIT_DESCRIPTION
    BY DEF func_list, SUBMIT_DESCRIPTION
  <2>2. func_list[2] # SUBMIT_DESCRIPTION
    BY DEF func_list, SUBMIT_DESCRIPTION
  <2> QED
    BY <1>2, <2>1, <2>2 DEF IsSubmission, Submission
<1>4. Valid \subseteq Jobs
  BY DEF Valid
<1>5. INVALID.count \in Nat
  BY DEF INVALID
<1> QED
  BY <1>1, <1>2, <1>3, <1>4, <1>5

-----------------------------------------------------------------------------
(* The invariant.                                                          *)

Owners  == {<<>>} \cup Jobs
Reports == [of : Owners, torn : BOOLEAN, count : Nat]

Types ==
    /\ run \in 1 .. 4 /\ f \in 1 .. 3
    /\ pc \in {"loop", "tracing", "filter", "simulating", "collect", "done"}
    /\ pc # "done" => run \in Runs
    /\ pc \notin {"loop", "done"} => f \in Funcs
    /\ results \in [funcid : {-1} \cup Funcs, correct : {0, 1}, misses : Reports]
    /\ trace \in Traces /\ parts \in [Funcs -> Traces] /\ csim \in Reports
    /\ orphans \subseteq [program : {"tracegen", "csim-ref"}, of : Owners, torn : BOOLEAN]
    /\ lines \in [Runs -> [correct : {0, 1}, misses : Reports, timeout : BOOLEAN]]

\* The function of the loop has been validated and is being measured.
Measuring == pc \in {"filter", "simulating", "collect"}

\* The submission is recognised when its turn comes and called correct once it
\* has been validated; no line is printed ahead of its run.
Verdicts ==
    /\ pc # "done" =>
          /\ results.funcid = IF f = 1 /\ pc = "loop" THEN -1 ELSE Submission
          /\ results.correct = 1 <=> /\ f > 1 \/ Measuring
                                     /\ <<run, Submission>> \in Valid
    /\ Measuring => Job \in Valid
    /\ \A d \in Runs : d >= run => lines[d] = NoLine
    /\ VerdictEarned

\* Whose trace the files are: a program left behind by an earlier run can tear
\* trace.tmp, but it does not change whose trace it is.
Measurements ==
    /\ pc \in {"tracing", "filter"} => trace.of = Job
    /\ pc = "simulating" => parts[f].of = Job
    /\ \A o \in orphans : o.program = "csim-ref" => o.of \in Valid
    /\ MeasuredIsValid

\* As long as no run has timed out nothing interferes.
Undisturbed ==
    /\ (\A e \in 1 .. run - 1 : ~lines[e].timeout) =>
          /\ orphans = {}
          /\ pc \in {"tracing", "filter"} => ~trace.torn
          /\ pc = "simulating" => ~parts[f].torn
          /\ pc = "collect" => csim.of = Job /\ ~csim.torn
          /\ f > 1 /\ <<run, Submission>> \in Valid =>
                results.misses.of = <<run, Submission>> /\ ~results.misses.torn
    /\ OwnMisses

GraderInv == Types /\ Verdicts /\ Measurements /\ Undisturbed

LEMMA InitInv == Init => GraderInv
<1> SUFFICES ASSUME Init PROVE GraderInv
  OBVIOUS
<1>1. Types
  BY Constants DEF Init, Types, Traces, Owners, Reports, NoTrace, NoReport, NoLine,
                   Fresh, INVALID
<1>2. Verdicts
  BY Constants DEF Init, Verdicts, VerdictEarned, Measuring, Fresh, NoLine
<1>3. Measurements
  BY DEF Init, Measurements, MeasuredIsValid, NoReport
<1>4. Undisturbed
  BY Constants DEF Init, Undisturbed, OwnMisses, NoLine
<1> QED
  BY <1>1, <1>2, <1>3, <1>4 DEF GraderInv

-----------------------------------------------------------------------------
(* The shapes of the data.                                                 *)

\* A line that has been printed ends its run.
LEMMA PrintedTypes ==
  ASSUME Types, pc # "done",
         NEW line \in [correct : {0, 1}, misses : Reports, timeout : BOOLEAN],
         Printed(line), UNCHANGED files, orphans' \subseteq orphans \cup Orphaned
  PROVE  Types'
<1>1. /\ run \in Runs /\ run' = run + 1 /\ f' = 1
      /\ pc' = IF run + 1 \in Runs THEN "loop" ELSE "done"
      /\ results' = Fresh /\ lines' = [lines EXCEPT ![run] = line]
  BY DEF Types, Printed
<1>2. Fresh \in [funcid : {-1} \cup Funcs, correct : {0, 1}, misses : Reports]
  BY Constants DEF Fresh, INVALID, Reports, Owners
<1>3. lines' \in [Runs -> [correct : {0, 1}, misses : Reports, timeout : BOOLEAN]]
  BY <1>1 DEF Types
<1>4. orphans' \subseteq [program : {"tracegen", "csim-ref"}, of : Owners, torn : BOOLEAN]
  <2>1. ASSUME pc = "tracing" PROVE Job \in Owners
    BY <2>1 DEF Types, Job, Owners, Jobs
  <2>2. ASSUME pc = "simulating"
        PROVE  parts[f].of \in Owners /\ parts[f].torn \in BOOLEAN
    BY <2>2 DEF Types, Traces, Owners
  <2>3. Orphaned \subseteq [program : {"tracegen", "csim-ref"}, of : Owners, torn : BOOLEAN]
    <3>1. CASE pc = "tracing"
      BY <2>1, <3>1 DEF Orphaned
    <3>2. CASE pc = "simulating"
      BY <2>2, <3>2 DEF Orphaned
    <3>3. CASE pc \notin {"tracing", "simulating"}
      BY <3>3 DEF Orphaned
    <3> QED BY <3>1, <3>2, <3>3
  <2> QED
    BY <2>3 DEF Types
<1>5. pc' # "done" => run' \in Runs
  BY <1>1
<1>6. run' \in 1 .. 4
  BY <1>1, Constants
<1> QED
  BY <1>1, <1>2, <1>3, <1>4, <1>5, <1>6 DEF Types, files

LEMMA TypesStep ==
  ASSUME Types, [Next]_vars
  PROVE  Types'
<1>1. CASE Trace
  <2>1. Job \in Owners
    BY <1>1 DEF Trace, Types, Job, Owners, Jobs
  <2>2. trace' \in Traces
    BY <1>1, <2>1 DEF Trace, Traces, Owners
  <2>3. results' \in [funcid : {-1} \cup Funcs, correct : {0, 1}, misses : Reports]
    BY <1>1 DEF Trace, Types
  <2> QED
    BY <1>1, <2>2, <2>3 DEF Trace, Types
<1>2. CASE Traced
  <2>1. results' \in [funcid : {-1} \cup Funcs, correct : {0, 1}, misses : Reports]
    BY <1>2 DEF Traced, Correct, Types
  <2> QED
    BY <1>2, <2>1, Constants DEF Traced, Loop, Types, files
<1>3. CASE Filter
  BY <1>3 DEF Filter, Types
<1>4. CASE Simulated
  <2>1. f \in Funcs /\ parts[f] \in Traces
    BY <1>4 DEF Simulated, Types
  <2>2. \A count \in Misses : Report(parts[f], count) \in Reports
    BY <2>1, TestTransAssumption DEF Report, Reports, Traces, Owners
  <2> QED
    BY <1>4, <2>2 DEF Simulated, Types
<1>5. CASE Collect
  <2>1. results' \in [funcid : {-1} \cup Funcs, correct : {0, 1}, misses : Reports]
    BY <1>5 DEF Collect, Types
  <2> QED
    BY <1>5, <2>1, Constants DEF Collect, Loop, Types, files
<1>6. CASE Emit
  <2> DEFINE line == IF results.funcid = -1 THEN NoLine
                     ELSE [correct |-> results.correct, misses |-> results.misses,
                           timeout |-> FALSE]
  <2>1. line \in [correct : {0, 1}, misses : Reports, timeout : BOOLEAN]
    BY DEF Types, NoLine, NoReport, Reports, Owners
  <2>2. Printed(line) /\ UNCHANGED files /\ orphans' = orphans /\ pc # "done"
    BY <1>6 DEF Emit
  <2> QED
    BY <2>1, <2>2, PrintedTypes
<1>7. CASE Alarm
  <2>1. [NoLine EXCEPT !.timeout = TRUE]
           \in [correct : {0, 1}, misses : Reports, timeout : BOOLEAN]
    BY DEF NoLine, NoReport, Reports, Owners
  <2>2. Printed([NoLine EXCEPT !.timeout = TRUE]) /\ UNCHANGED files
        /\ orphans' = orphans \cup Orphaned /\ pc # "done"
    BY <1>7 DEF Alarm
  <2> QED
    BY <2>1, <2>2, PrintedTypes
<1>8. CASE StrayWrite
  <2>1. trace' \in Traces
    BY <1>8 DEF StrayWrite, Types, Traces
  <2> QED
    BY <1>8, <2>1 DEF StrayWrite, Types
<1>9. CASE StrayEnd
  <2>1. PICK o \in orphans :
           /\ orphans' = orphans \ {o}
           /\ UNCHANGED csim \/ \E count \in Misses : csim' = Report(o, count)
    BY <1>9 DEF StrayEnd
  <2>2. o.of \in Owners /\ o.torn \in BOOLEAN
    BY DEF Types
  <2>3. csim' \in Reports
    BY <2>1, <2>2, TestTransAssumption DEF Report, Reports, Types
  <2> QED
    BY <1>9, <2>1, <2>3 DEF StrayEnd, Types
<1>10. CASE UNCHANGED vars
  BY <1>10 DEF vars, files, Types
<1> QED
  BY <1>1, <1>2, <1>3, <1>4, <1>5, <1>6, <1>7, <1>8, <1>9, <1>10 DEF Next, TestTrans

-----------------------------------------------------------------------------
(* The verdict.                                                            *)

\* The run ends with a line whose verdict is right.
LEMMA PrintedVerdict ==
  ASSUME Types, Verdicts, pc # "done", NEW line, Printed(line),
         (line.correct = 1) <=> ~line.timeout /\ <<run, Submission>> \in Valid
  PROVE  Verdicts'
<1>1. /\ run \in Runs /\ run' = run + 1 /\ f' = 1
      /\ pc' = IF run + 1 \in Runs THEN "loop" ELSE "done"
      /\ results' = Fresh /\ lines' = [lines EXCEPT ![run] = line]
  BY DEF Types, Printed
<1>2. lines'[run] = line /\ \A d \in Runs : d # run => lines'[d] = lines[d]
  BY <1>1 DEF Types
<1>3. pc' \in {"loop", "done"} /\ results'.funcid = -1 /\ results'.correct = 0
  BY <1>1 DEF Fresh
<1>4. \A d \in Runs : d >= run' => lines'[d] = NoLine
  BY <1>1, <1>2, Constants DEF Verdicts
<1>5. \A d \in 1 .. run' - 1 : d = run \/ d \in 1 .. run - 1
  BY <1>1, Constants
<1>6. Submission \in Funcs /\ IsSubmission(Submission)
  BY Constants DEF Submission
<1>7. VerdictEarned'
  <2> SUFFICES ASSUME NEW d \in 1 .. run' - 1
               PROVE  (lines'[d].correct = 1) <=>
                         /\ ~lines'[d].timeout
                         /\ \E k \in Funcs : IsSubmission(k) /\ <<d, k>> \in Valid
    BY DEF VerdictEarned
  <2>1. (\E k \in Funcs : IsSubmission(k) /\ <<d, k>> \in Valid)
           <=> <<d, Submission>> \in Valid
    BY <1>6, Constants
  <2>2. CASE d = run
    BY <1>2, <2>1, <2>2
  <2>3. CASE d \in 1 .. run - 1
    BY <1>1, <1>2, <2>3, Constants DEF Verdicts, VerdictEarned
  <2> QED BY <1>5, <2>2, <2>3
<1> QED
  BY <1>1, <1>3, <1>4, <1>7 DEF Verdicts, Measuring

\* The verdicts already given do not change during a run.
LEMMA RunKeepsVerdicts ==
  ASSUME Types, Verdicts, UNCHANGED <<run, lines>>
  PROVE  VerdictEarned' /\ \A d \in Runs : d >= run' => lines'[d] = NoLine
BY DEF Verdicts, VerdictEarned

LEMMA VerdictsStep ==
  ASSUME Types, Verdicts, [Next]_vars
  PROVE  Verdicts'
<1> USE DEF Measuring
<1>1. CASE Trace
  <2>1. /\ pc = "loop" /\ f \in Funcs /\ pc' = "tracing"
        /\ UNCHANGED <<run, f, lines>>
        /\ results' = IF IsSubmission(f) THEN [results EXCEPT !.funcid = f] ELSE results
    BY <1>1 DEF Trace
  <2>2. results'.correct = results.correct
        /\ results'.funcid = IF f = Submission THEN f ELSE results.funcid
    BY <2>1, Constants DEF Types
  <2>3. results'.funcid = Submission
    BY <2>1, <2>2, Constants DEF Verdicts, Submission
  <2> QED
    BY <2>1, <2>2, <2>3, RunKeepsVerdicts DEF Verdicts
<1>2. CASE Traced
  <2>1. pc = "tracing" /\ f \in Funcs /\ UNCHANGED <<run, lines>>
    BY <1>2 DEF Traced, Types
  <2>2. results.funcid = Submission
    BY <2>1 DEF Verdicts
  <2>3. CASE Job \in Valid /\ Correct /\ pc' = "filter" /\ UNCHANGED f
    <3>1. results'.funcid = results.funcid
          /\ results'.correct = IF f = Submission THEN 1 ELSE results.correct
      BY <2>2, <2>3 DEF Correct, Types
    <3>2. Job' \in Valid
      BY <2>1, <2>3 DEF Job
    <3>3. f # Submission => f > 1
      BY <2>1, Constants DEF Submission
    <3>4. results'.correct = 1 <=> <<run, Submission>> \in Valid
      BY <2>1, <2>3, <3>1, <3>3 DEF Verdicts, Job
    <3> QED
      BY <2>1, <2>2, <2>3, <3>1, <3>2, <3>4, RunKeepsVerdicts DEF Verdicts
  <2>4. CASE Job \notin Valid /\ Loop /\ UNCHANGED results
    <3>1. pc' = "loop" /\ f' = f + 1 /\ f' > 1 /\ f' # 1
      BY <2>1, <2>4, Constants DEF Loop
    <3>2. results.correct = 1 <=> <<run, Submission>> \in Valid
      <4>1. CASE f = Submission
        BY <2>1, <2>4, <4>1 DEF Verdicts, Job, Submission
      <4>2. CASE f # Submission
        BY <2>1, <4>2, Constants DEF Verdicts, Submission
      <4> QED BY <4>1, <4>2
    <3> QED
      BY <2>1, <2>2, <2>4, <3>1, <3>2, RunKeepsVerdicts DEF Verdicts
  <2> QED
    BY <1>2, <2>3, <2>4 DEF Traced
<1>3. CASE Filter
  BY <1>3, RunKeepsVerdicts DEF Filter, Verdicts, Job
<1>4. CASE Simulated
  BY <1>4, RunKeepsVerdicts DEF Simulated, Verdicts, Job
<1>5. CASE Collect
  <2>1. /\ pc = "collect" /\ f \in Funcs /\ UNCHANGED <<run, lines>>
        /\ pc' = "loop" /\ f' = f + 1
    BY <1>5 DEF Collect, Loop, Types
  <2>2. results'.funcid = results.funcid /\ results'.correct = results.correct
    BY <1>5 DEF Collect, Types
  <2>3. f' > 1 /\ f' # 1
    BY <2>1, Constants
  <2> QED
    BY <2>1, <2>2, <2>3, RunKeepsVerdicts DEF Verdicts
<1>6. CASE Emit
  <2> DEFINE line == IF results.funcid = -1 THEN NoLine
                     ELSE [correct |-> results.correct, misses |-> results.misses,
                           timeout |-> FALSE]
  <2>1. pc = "loop" /\ f \notin Funcs /\ Printed(line)
    BY <1>6 DEF Emit
  <2>2. f > 1 /\ f # 1
    BY <2>1, Constants DEF Types
  <2>3. results.funcid # -1
    BY <2>1, <2>2 DEF Verdicts, Submission
  <2>4. (line.correct = 1) <=> ~line.timeout /\ <<run, Submission>> \in Valid
    BY <2>1, <2>2, <2>3 DEF Verdicts
  <2> HIDE DEF line
  <2> QED
    BY <2>1, <2>4, PrintedVerdict
<1>7. CASE Alarm
  <2> DEFINE line == [NoLine EXCEPT !.timeout = TRUE]
  <2>1. pc # "done" /\ Printed(line)
    BY <1>7 DEF Alarm
  <2>2. line.correct = 0 /\ line.timeout
    BY DEF NoLine
  <2> HIDE DEF line
  <2> QED
    BY <2>1, <2>2, PrintedVerdict
<1>8. CASE StrayWrite
  BY <1>8, RunKeepsVerdicts DEF StrayWrite, Verdicts, Job
<1>9. CASE StrayEnd
  BY <1>9, RunKeepsVerdicts DEF StrayEnd, Verdicts, Job
<1>10. CASE UNCHANGED vars
  BY <1>10, RunKeepsVerdicts DEF vars, Verdicts, Job
<1> QED
  BY <1>1, <1>2, <1>3, <1>4, <1>5, <1>6, <1>7, <1>8, <1>9, <1>10 DEF Next, TestTrans

-----------------------------------------------------------------------------
(* Whose measurements they are.                                            *)

\* The end of a run leaves the files alone; a csim-ref that outlives it is
\* measuring the trace of a valid job.
LEMMA PrintedMeasurements ==
  ASSUME Types, Verdicts, Measurements, pc # "done", NEW line, Printed(line),
         UNCHANGED files, orphans' \subseteq orphans \cup Orphaned
  PROVE  Measurements'
<1>1. pc' \in {"loop", "done"} /\ csim' = csim
  BY DEF Printed, files
<1>2. \A o \in Orphaned : o.program = "csim-ref" => o.of \in Valid
  <2>1. CASE pc = "tracing"
    BY <2>1 DEF Orphaned
  <2>2. CASE pc = "simulating"
    <3>1. parts[f].of \in Valid
      BY <2>2 DEF Verdicts, Measurements, Measuring
    <3> QED BY <2>2, <3>1 DEF Orphaned
  <2>3. CASE pc \notin {"tracing", "simulating"}
    BY <2>3 DEF Orphaned
  <2> QED BY <2>1, <2>2, <2>3
<1> QED
  BY <1>1, <1>2 DEF Measurements, MeasuredIsValid

LEMMA MeasurementsStep ==
  ASSUME Types, Verdicts, Measurements, [Next]_vars
  PROVE  Measurements'
<1>1. CASE Trace
  BY <1>1 DEF Trace, Measurements, MeasuredIsValid, Job
<1>2. CASE Traced
  <2>1. /\ pc = "tracing" /\ pc' \in {"filter", "loop"}
        /\ pc' = "filter" => f' = f
        /\ UNCHANGED <<run, trace, csim, orphans>>
    BY <1>2 DEF Traced, Loop, files
  <2> QED
    BY <2>1 DEF Measurements, MeasuredIsValid, Job
<1>3. CASE Filter
  <2>1. /\ pc = "filter" /\ pc' = "simulating" /\ f \in Funcs
        /\ parts' = [parts EXCEPT ![f] = trace]
        /\ UNCHANGED <<run, f, csim, orphans>>
    BY <1>3 DEF Filter, Types
  <2>2. parts'[f] = trace
    BY <2>1 DEF Types
  <2> QED
    BY <2>1, <2>2 DEF Measurements, MeasuredIsValid, Job
<1>4. CASE Simulated
  <2>1. pc = "simulating" /\ pc' = "collect" /\ csim'.of = parts[f].of
        /\ orphans' = orphans
    BY <1>4 DEF Simulated, Report
  <2>2. parts[f].of \in Valid
    BY <2>1 DEF Measurements, Verdicts, Measuring
  <2> QED
    BY <2>1, <2>2 DEF Measurements, MeasuredIsValid
<1>5. CASE Collect
  BY <1>5 DEF Collect, Loop, files, Measurements, MeasuredIsValid
<1>6. CASE Emit
  BY <1>6, PrintedMeasurements DEF Emit
<1>7. CASE Alarm
  BY <1>7, PrintedMeasurements DEF Alarm
<1>8. CASE StrayWrite
  <2>1. trace'.of = trace.of
    BY <1>8 DEF StrayWrite, Types, Traces
  <2> QED
    BY <1>8, <2>1 DEF StrayWrite, Measurements, MeasuredIsValid, Job
<1>9. CASE StrayEnd
  <2>1. PICK o \in orphans :
           /\ orphans' = orphans \ {o}
           /\ \/ UNCHANGED csim
              \/ o.program = "csim-ref" /\ \E count \in Misses : csim' = Report(o, count)
    BY <1>9 DEF StrayEnd
  <2>2. csim' = csim \/ csim'.of \in Valid
    BY <2>1 DEF Report, Measurements
  <2>3. UNCHANGED <<run, pc, f, trace, parts>>
    BY <1>9 DEF StrayEnd
  <2> QED
    BY <2>1, <2>2, <2>3 DEF Measurements, MeasuredIsValid, Job
<1>10. CASE UNCHANGED vars
  BY <1>10 DEF vars, files, Measurements, MeasuredIsValid, Job
<1> QED
  BY <1>1, <1>2, <1>3, <1>4, <1>5, <1>6, <1>7, <1>8, <1>9, <1>10 DEF Next, TestTrans

-----------------------------------------------------------------------------
(* The measurements of a driver none of whose runs times out.              *)

Calm == \A e \in 1 .. run - 1 : ~lines[e].timeout

\* A line that was printed before remains, with the runs before it.
LEMMA PrintedOwnMisses ==
  ASSUME Types, Verdicts, Undisturbed, pc # "done", NEW line, Printed(line),
         line.correct = 1 /\ Calm =>
            line.misses.of = <<run, Submission>> /\ ~line.misses.torn
  PROVE  OwnMisses'
<1>1. run \in Runs /\ lines' = [lines EXCEPT ![run] = line]
  BY DEF Types, Printed
<1>2. lines'[run] = line /\ \A d \in Runs : d # run => lines'[d] = lines[d]
  BY <1>1 DEF Types
<1>3. Submission \in Funcs /\ IsSubmission(Submission)
  BY Constants DEF Submission
<1> SUFFICES ASSUME NEW d \in Runs, lines'[d].correct = 1,
                    \A e \in 1 .. d - 1 : ~lines'[e].timeout
             PROVE  /\ ~lines'[d].misses.torn
                    /\ \E k \in Funcs : IsSubmission(k) /\ lines'[d].misses.of = <<d, k>>
  BY DEF OwnMisses
<1>4. CASE d = run
  <2>1. \A e \in 1 .. run - 1 : e \in Runs /\ e # run
    BY <1>1, Constants
  <2>2. Calm
    BY <1>2, <1>4, <2>1 DEF Calm
  <2> QED BY <1>2, <1>3, <1>4, <2>2
<1>5. CASE d # run
  <2>1. lines[d].correct = 1
    BY <1>2, <1>5
  <2>2. d < run
    BY <1>1, <2>1, Constants DEF Verdicts, NoLine
  <2>3. \A e \in 1 .. d - 1 : e \in Runs /\ e # run
    BY <1>1, <2>2, Constants
  <2>4. \A e \in 1 .. d - 1 : ~lines[e].timeout
    BY <1>2, <2>3
  <2> QED BY <1>2, <1>5, <2>1, <2>4 DEF Undisturbed, OwnMisses
<1> QED
  BY <1>4, <1>5

LEMMA UndisturbedStep ==
  ASSUME Types, Verdicts, Measurements, Undisturbed, [Next]_vars
  PROVE  Undisturbed'
<1>1. CASE Trace
  <2>1. /\ pc = "loop" /\ f \in Funcs /\ pc' = "tracing" /\ ~trace'.torn
        /\ UNCHANGED <<run, f, lines, orphans>>
        /\ results' = IF IsSubmission(f) THEN [results EXCEPT !.funcid = f] ELSE results
    BY <1>1 DEF Trace
  <2>2. results'.misses = results.misses
    BY <2>1 DEF Types
  <2> QED
    BY <2>1, <2>2 DEF Undisturbed, OwnMisses
<1>2. CASE Traced
  <2>1. /\ pc = "tracing" /\ f \in Funcs
        /\ UNCHANGED <<run, lines, orphans, trace>>
    BY <1>2 DEF Traced, Types, files
  <2>2. results'.misses = results.misses
    BY <1>2 DEF Traced, Correct, Types
  <2>3. CASE pc' = "filter" /\ UNCHANGED f
    BY <2>1, <2>2, <2>3 DEF Undisturbed, OwnMisses
  <2>4. CASE Job \notin Valid /\ Loop
    <3>1. pc' = "loop" /\ f' > 1
      BY <2>1, <2>4, Constants DEF Loop
    <3>2. <<run, Submission>> \in Valid => f > 1
      BY <2>1, <2>4, Constants DEF Job, Submission
    <3> QED
      BY <2>1, <2>2, <3>1, <3>2 DEF Undisturbed, OwnMisses
  <2> QED
    BY <1>2, <2>3, <2>4 DEF Traced
<1>3. CASE Filter
  <2>1. /\ pc = "filter" /\ pc' = "simulating" /\ f \in Funcs
        /\ parts' = [parts EXCEPT ![f] = trace]
        /\ UNCHANGED <<run, f, results, orphans, lines>>
    BY <1>3 DEF Filter, Types
  <2>2. parts'[f] = trace
    BY <2>1 DEF Types
  <2> QED
    BY <2>1, <2>2 DEF Undisturbed, OwnMisses
<1>4. CASE Simulated
  <2>1. /\ pc = "simulating" /\ pc' = "collect"
        /\ csim'.of = parts[f].of /\ csim'.torn = parts[f].torn
        /\ UNCHANGED <<run, f, results, orphans, lines>>
    BY <1>4 DEF Simulated, Report
  <2>2. parts[f].of = Job
    BY <2>1 DEF Measurements
  <2> QED
    BY <2>1, <2>2 DEF Undisturbed, OwnMisses, Job
<1>5. CASE Collect
  <2>1. /\ pc = "collect" /\ f \in Funcs /\ pc' = "loop" /\ f' = f + 1
        /\ UNCHANGED <<run, orphans, lines>>
        /\ results' = IF results.funcid = f THEN [results EXCEPT !.misses = csim] ELSE results
    BY <1>5 DEF Collect, Loop, Types
  <2>2. results.funcid = Submission
    BY <2>1 DEF Verdicts
  <2>3. CASE f = Submission
    <3>1. results'.misses = csim
      BY <2>1, <2>2, <2>3 DEF Types
    <3> QED
      BY <2>1, <2>3, <3>1 DEF Undisturbed, OwnMisses, Job
  <2>4. CASE f # Submission
    <3>1. results' = results /\ f > 1
      BY <2>1, <2>2, <2>4, Constants DEF Submission
    <3> QED
      BY <2>1, <3>1 DEF Undisturbed, OwnMisses
  <2> QED BY <2>3, <2>4
<1>6. CASE Emit
  <2> DEFINE line == IF results.funcid = -1 THEN NoLine
                     ELSE [correct |-> results.correct, misses |-> results.misses,
                           timeout |-> FALSE]
  <2>1. pc = "loop" /\ f \notin Funcs /\ Printed(line) /\ orphans' = orphans
    BY <1>6 DEF Emit
  <2>2. f > 1 /\ f # 1
    BY <2>1, Constants DEF Types
  <2>3. results.funcid # -1
    BY <2>1, <2>2 DEF Verdicts, Submission
  <2>4. line.correct = 1 /\ Calm =>
           line.misses.of = <<run, Submission>> /\ ~line.misses.torn
    BY <2>1, <2>2, <2>3 DEF Undisturbed, Calm, Verdicts, Measuring
  <2> HIDE DEF line
  <2>5. OwnMisses'
    BY <2>1, <2>4, PrintedOwnMisses
  <2>6. pc' \in {"loop", "done"} /\ f' = 1 /\ run' = run + 1
        /\ lines' = [lines EXCEPT ![run] = line] /\ run \in Runs
    BY <2>1 DEF Printed, Types
  <2>7. (\A e \in 1 .. run' - 1 : ~lines'[e].timeout) => Calm
    <3>1. \A e \in 1 .. run - 1 : e \in 1 .. run' - 1 /\ e # run /\ e \in Runs
      BY <2>6, Constants
    <3>2. \A e \in 1 .. run - 1 : lines'[e] = lines[e]
      BY <2>6, <3>1 DEF Types
    <3> QED BY <3>1, <3>2 DEF Calm
  <2> QED
    BY <2>1, <2>5, <2>6, <2>7 DEF Undisturbed, Calm
<1>7. CASE Alarm
  <2> DEFINE line == [NoLine EXCEPT !.timeout = TRUE]
  <2>1. pc # "done" /\ Printed(line)
    BY <1>7 DEF Alarm
  <2>2. line.correct = 0 /\ line.timeout
    BY DEF NoLine
  <2> HIDE DEF line
  <2>3. OwnMisses'
    BY <2>1, <2>2, PrintedOwnMisses
  <2>4. run \in Runs /\ run' = run + 1 /\ lines' = [lines EXCEPT ![run] = line]
    BY <2>1 DEF Printed, Types
  <2>5. run \in 1 .. run' - 1 /\ lines'[run].timeout
    BY <2>2, <2>4, Constants DEF Types
  <2> QED
    BY <2>3, <2>5 DEF Undisturbed
<1>8. CASE StrayWrite
  <2>1. orphans # {} /\ UNCHANGED <<run, pc, f, results, parts, csim, orphans, lines>>
    BY <1>8 DEF StrayWrite, Tracers
  <2> QED
    BY <2>1 DEF Undisturbed, OwnMisses
<1>9. CASE StrayEnd
  <2>1. orphans # {} /\ UNCHANGED <<run, lines>>
    BY <1>9 DEF StrayEnd
  <2> QED
    BY <2>1 DEF Undisturbed, OwnMisses
<1>10. CASE UNCHANGED vars
  BY <1>10 DEF vars, files, Undisturbed, OwnMisses, Job
<1> QED
  BY <1>1, <1>2, <1>3, <1>4, <1>5, <1>6, <1>7, <1>8, <1>9, <1>10 DEF Next, TestTrans

-----------------------------------------------------------------------------
(* The theorems.                                                           *)

\* The invariant above, for three runs of test-trans, whatever the functions
\* do and csim-ref counts (test-trans.c:47-161, 188-193, 198-261).
THEOREM GraderInvariant == Spec => []GraderInv
<1>1. GraderInv /\ [Next]_vars => GraderInv'
  BY TypesStep, VerdictsStep, MeasurementsStep, UndisturbedStep DEF GraderInv
<1> QED
  BY <1>1, InitInv, PTL DEF Spec

\* More misses never score more, and no number of misses scores less than
\* nothing or more than the full score, whatever the limits are (driver.py:20-28).
THEOREM ScoreFalls ==
  ASSUME NEW lower \in Nat, NEW upper \in Nat, lower < upper, NEW full \in Nat,
         NEW few \in Nat, NEW many \in Nat, few <= many
  PROVE  /\ computeMissScore(many, lower, upper, full) <= computeMissScore(few, lower, upper, full)
         /\ computeMissScore(few, lower, upper, full) \in 0 .. 10 * full
<1> DEFINE d == upper - lower
           g == 20 * full
           part(miss) == (g * (upper - miss) + d) \div (2 * d)
           score(miss) == computeMissScore(miss, lower, upper, full)
<1>1. d \in Nat \ {0} /\ 2 * d \in Nat \ {0} /\ g \in Nat /\ 10 * full \in Nat
  OBVIOUS
<1>2. \A miss : score(miss) = IF miss <= lower THEN 10 * full
                              ELSE IF miss >= upper THEN 0 ELSE part(miss)
  BY DEF computeMissScore
<1>3. ASSUME NEW x \in Nat, NEW y \in Nat, x <= y PROVE x \div (2 * d) <= y \div (2 * d)
  <2> DEFINE k == 2 * d
             p == x \div k
             q == y \div k
  <2>1. p \in Nat /\ p * k <= x /\ q \in Nat /\ y < q * k + k
    <3>1. \A z \in Nat, w \in Nat \ {0} : /\ z \div w \in Nat /\ (z \div w) * w <= z
                                          /\ z < (z \div w) * w + w
      OBVIOUS
    <3> HIDE DEF k
    <3> QED BY <1>1, <3>1 DEF k
  <2>2. k \in Nat
    BY <1>1
  <2> HIDE DEF p, q, k
  <2>3. q < p => q * k + k <= p * k
    BY <2>1, <2>2, Products
  <2>4. q * k \in Nat /\ p * k \in Nat
    BY <2>1, <2>2
  <2>5. p <= q
    BY <1>3, <2>1, <2>2, <2>3, <2>4
  <2> QED BY <2>5 DEF p, q, k
<1>4. ASSUME NEW miss \in Nat, lower < miss, miss < upper
      PROVE  /\ g * (upper - miss) + d \in Nat /\ g * (upper - miss) \in Nat
             /\ part(miss) \in 0 .. 10 * full
  <2>1. upper - miss \in Nat /\ upper - miss <= d
    BY <1>4
  <2> DEFINE k == 2 * d
             h == g * (upper - miss)
  <2>2. h \in Nat /\ h <= g * d
    <3>1. (upper - miss) * g <= d * g
      BY <1>1, <2>1, Products
    <3>2. (upper - miss) * g = g * (upper - miss) /\ d * g = g * d /\ g * (upper - miss) \in Nat
      BY <1>1, <2>1
    <3> QED BY <3>1, <3>2
  <2>3. g * d = (10 * full) * k
    BY <1>1
  <2>4. d \in 0 .. k - 1 /\ k \in Nat \ {0}
    BY <1>1
  <2> HIDE DEF d, g, k, h
  <2>5. ((10 * full) * k + d) \div k = 10 * full /\ (10 * full) * k + d \in Nat
    BY <1>1, <2>4, DivMod
  <2>6. h + d <= (10 * full) * k + d /\ h + d \in Nat /\ (10 * full) * k \in Nat
    BY <1>1, <2>2, <2>3, <2>4
  <2>7. (h + d) \div k <= 10 * full
    BY <1>3, <2>5, <2>6 DEF k
  <2>8. (h + d) \div k \in Nat
    BY <2>4, <2>6
  <2>9. part(miss) = (h + d) \div k
    BY DEF h, k
  <2> QED BY <1>1, <2>2, <2>6, <2>7, <2>8, <2>9 DEF h
<1>5. ASSUME NEW miss \in Nat PROVE score(miss) \in 0 .. 10 * full
  <2> DEFINE z == 10 * full
  <2>1. lower < miss /\ miss < upper => part(miss) \in 0 .. z
    BY <1>4, <1>5
  <2>2. /\ score(miss) = IF miss <= lower THEN z ELSE IF miss >= upper THEN 0 ELSE part(miss)
        /\ z \in Nat
    BY <1>1, <1>2
  <2> HIDE DEF score, part, z
  <2>3. score(miss) \in 0 .. z
    BY <1>5, <2>1, <2>2
  <2> QED BY <2>3 DEF z
<1>6. CASE lower < few /\ many < upper
  <2>1. few < upper /\ lower < many
    BY <1>6
  <2>2. (upper - many) * g <= (upper - few) * g
    <3>1. upper - many \in Nat /\ upper - few \in Nat /\ upper - many <= upper - few
      BY <1>6
    <3> QED BY <1>1, <3>1, Products
  <2> DEFINE x == g * (upper - many)
             y == g * (upper - few)
  <2>3. x <= y /\ x \in Nat /\ y \in Nat /\ x + d \in Nat /\ y + d \in Nat
    <3>1. (upper - many) * g = x /\ (upper - few) * g = y
      BY <1>1
    <3>2. x \in Nat /\ y \in Nat /\ x + d \in Nat /\ y + d \in Nat
      BY <1>4, <1>6, <2>1
    <3> QED BY <2>2, <3>1, <3>2
  <2> HIDE DEF x, y, d
  <2>4. x + d <= y + d
    BY <1>1, <2>3
  <2>5. part(many) <= part(few)
    BY <1>3, <2>3, <2>4 DEF x, y
  <2>6. ~(few <= lower) /\ ~(few >= upper) /\ ~(many <= lower) /\ ~(many >= upper)
    BY <1>6, <2>1
  <2> QED BY <1>2, <1>5, <2>5, <2>6
<1>7. CASE few <= lower
  <2>1. score(few) = 10 * full /\ score(many) \in 0 .. 10 * full
    BY <1>2, <1>5, <1>7
  <2> HIDE DEF score
  <2>2. score(many) <= score(few)
    BY <1>1, <2>1
  <2> QED BY <1>5, <2>2 DEF score
<1>8. CASE many >= upper
  <2>1. score(many) = 0 /\ score(few) \in 0 .. 10 * full
    BY <1>2, <1>5, <1>8
  <2> HIDE DEF score
  <2>2. score(many) <= score(few)
    BY <1>1, <2>1
  <2> QED BY <1>5, <2>2 DEF score
<1> QED
  BY <1>6, <1>7, <1>8

\* The score of a run is between nothing and the full score.
LEMMA ScoreInRange ==
  ASSUME Types, NEW d \in Runs
  PROVE  Score(d) \in 0 .. 10 * Sizes[d].full
<1> DEFINE miss == lines[d].misses.count
           score == computeMissScore(miss, Sizes[d].lower, Sizes[d].upper, Sizes[d].full)
<1>1. miss \in Nat /\ lines[d].correct \in {0, 1}
  BY DEF Types, Reports
<1>2. /\ Sizes[d].lower \in Nat /\ Sizes[d].upper \in Nat /\ Sizes[d].full \in Nat
      /\ Sizes[d].lower < Sizes[d].upper
  BY Constants DEF Sizes
<1> HIDE DEF miss
<1>3. score \in 0 .. 10 * Sizes[d].full
  <2> DEFINE lower == Sizes[d].lower
             upper == Sizes[d].upper
             full == Sizes[d].full
  <2>1. lower \in Nat /\ upper \in Nat /\ lower < upper /\ full \in Nat /\ miss \in Nat
        /\ miss <= miss
    BY <1>1, <1>2
  <2> HIDE DEF lower, upper, full
  <2>2. computeMissScore(miss, lower, upper, full) \in 0 .. 10 * full
    BY <2>1, ScoreFalls
  <2> QED BY <2>2 DEF lower, upper, full
<1> HIDE DEF score
<1>4. Score(d) = lines[d].correct * score
  BY DEF Score, score, miss
<1>5. Score(d) = 0 \/ Score(d) = score
  BY <1>1, <1>2, <1>3, <1>4
<1> QED
  BY <1>2, <1>3, <1>5

\* The grader's state keeps its shape, and no score is outside of its range
\* (driver.py:20-28, test-trans.c:37-42).
THEOREM GraderTypeCorrect == Spec => []TypeOK
<1>1. Types => TypeOK
  <2> SUFFICES ASSUME Types PROVE TypeOK
    OBVIOUS
  <2>1. \A d \in Runs : Score(d) \in 0 .. 10 * Sizes[d].full
    BY ScoreInRange
  <2> QED
    BY <2>1, Constants DEF Types, TypeOK
<1> QED
  BY <1>1, GraderInvariant, PTL DEF GraderInv

\* A run that was not cut off calls the submission correct exactly if it is,
\* and one that was cut off never does.
THEOREM VerdictsEarned == Spec => []VerdictEarned
<1>1. GraderInv => VerdictEarned
  BY DEF GraderInv, Verdicts
<1> QED
  BY <1>1, GraderInvariant, PTL

\* Until a run times out, what is printed was counted on the submission's own
\* trace, complete and of the right size.
THEOREM MissesAreOwn == Spec => []OwnMisses
<1>1. GraderInv => OwnMisses
  BY DEF GraderInv, Undisturbed
<1> QED
  BY <1>1, GraderInvariant, PTL

\* Whichever programs of earlier runs are still there, nothing is measured
\* that was not validated for the same size.
THEOREM OnlyValidMeasured == Spec => []MeasuredIsValid
<1>1. GraderInv => MeasuredIsValid
  BY DEF GraderInv, Measurements
<1> QED
  BY <1>1, GraderInvariant, PTL

-----------------------------------------------------------------------------
(* What the driver prints.                                                 *)

\* Of the three sizes, validate turns down the submission on the last alone.
LEMMA ValidJobs == Valid = Jobs \ {<<3, Submission>>}
<1>1. /\ Sizes[1].M = 32 /\ Sizes[1].N = 32 /\ Sizes[2].M = 64 /\ Sizes[2].N = 64
      /\ Sizes[3].M = 61 /\ Sizes[3].N = 67
  BY DEF Sizes
<1>2. \A d \in Runs : Sizes[d].M \in Nat \ {0} /\ Sizes[d].N \in Nat \ {0}
  BY <1>1, Constants
<1>3. \A d \in Runs : SubmitIsValid(Sizes[d].M, Sizes[d].N) <=> d # 3
  <2>1. \A d \in Runs : SubmitIsValid(Sizes[d].M, Sizes[d].N)
                          <=> Sizes[d].N % BLOCK = 0 \/ Sizes[d].M = 1
    BY <1>2, SubmitValidExactly
  <2>2. 32 % 8 = 0 /\ 64 % 8 = 0 /\ 67 % 8 # 0
    OBVIOUS
  <2> QED BY <1>1, <2>1, <2>2, Constants DEF BLOCK
<1>4. \A d \in Runs : TransIsValid(Sizes[d].M, Sizes[d].N)
  BY <1>2, TransAlwaysValid
<1>5. \A d \in Runs, k \in Funcs : <<d, k>> \in Valid <=> (k = Submission => d # 3)
  <2> SUFFICES ASSUME NEW d \in Runs, NEW k \in Funcs
               PROVE  <<d, k>> \in Valid <=> (k = Submission => d # 3)
    OBVIOUS
  <2>1. <<d, k>> \in Valid <=> IF IsSubmission(k) THEN SubmitIsValid(Sizes[d].M, Sizes[d].N)
                               ELSE TransIsValid(Sizes[d].M, Sizes[d].N)
    BY DEF Valid, Jobs
  <2> QED BY <1>3, <1>4, <2>1, Constants
<1>6. Valid \subseteq Jobs /\ \A job \in Jobs : \E d \in Runs, k \in Funcs : job = <<d, k>>
  BY DEF Valid, Jobs
<1>7. \A d, k : <<d, k>> = <<3, Submission>> <=> d = 3 /\ k = Submission
  OBVIOUS
<1> QED
  BY <1>5, <1>6, <1>7

\* The lines of the first two sizes call the submission correct unless the run
\* was cut off; the last size earns nothing in any case.
LastIsLost ==
    /\ \A d \in 1 .. run - 1 : lines[d].correct = 1 <=> ~lines[d].timeout /\ d # 3
    /\ Score(3) = 0

\* The points for the last size are lost: transpose_submit writes over the ends
\* of the rows of a matrix of 61x67 (trans.c:26-31, driver.py:96).
THEOREM LastSizeIsLost == Spec => []LastIsLost
<1>1. GraderInv => LastIsLost
  <2> SUFFICES ASSUME GraderInv PROVE LastIsLost
    OBVIOUS
  <2>1. Types /\ VerdictEarned /\ \A d \in Runs : d >= run => lines[d] = NoLine
    BY DEF GraderInv, Verdicts
  <2>2. ASSUME NEW d \in 1 .. run - 1
        PROVE  lines[d].correct = 1 <=> ~lines[d].timeout /\ d # 3
    <3>1. d \in Runs
      BY <2>1, Constants DEF Types
    <3>2. (\E k \in Funcs : IsSubmission(k) /\ <<d, k>> \in Valid) <=> <<d, Submission>> \in Valid
      BY Constants DEF Submission
    <3>3. <<d, Submission>> \in Valid <=> d # 3
      <4>1. <<d, Submission>> \in Jobs
        BY <3>1, Constants DEF Jobs, Submission
      <4> QED BY <4>1, ValidJobs
    <3> QED BY <2>1, <3>2, <3>3 DEF VerdictEarned
  <2>3. lines[3].correct = 0
    <3>1. CASE 3 < run
      <4>1. 3 \in 1 .. run - 1 /\ 3 \in Runs
        BY <2>1, <3>1, Constants DEF Types
      <4>2. lines[3].correct \in {0, 1}
        BY <2>1, <4>1 DEF Types
      <4> QED BY <2>2, <4>1, <4>2
    <3>2. CASE ~(3 < run)
      <4>1. 3 >= run /\ 3 \in Runs
        BY <2>1, <3>2, Constants DEF Types
      <4> QED BY <2>1, <4>1 DEF NoLine
    <3> QED BY <3>1, <3>2
  <2>4. Score(3) = 0
    <3> DEFINE miss == lines[3].misses.count
               score == computeMissScore(miss, Sizes[3].lower, Sizes[3].upper, Sizes[3].full)
    <3>1. miss \in Nat
      BY <2>1, Constants DEF Types, Reports
    <3>2. Sizes[3].lower = 2000 /\ Sizes[3].upper = 3000 /\ Sizes[3].full = 10
      BY DEF Sizes
    <3> HIDE DEF miss
    <3>3. score \in Int
      BY <3>1, <3>2 DEF computeMissScore
    <3> HIDE DEF score
    <3>4. Score(3) = lines[3].correct * score
      BY DEF Score, score, miss
    <3> QED BY <2>3, <3>3, <3>4
  <2> QED BY <2>2, <2>4 DEF LastIsLost
<1> QED
  BY <1>1, GraderInvariant, PTL

=============================================================================
