------------------------------ MODULE TestTrans ------------------------------
(***************************************************************************)
(* The grader of the transpose functions (cachelab-handout): driver.py     *)
(* runs test-trans for three sizes of matrices; test-trans has every       *)
(* registered function validated and traced by tracegen, measured by       *)
(* csim-ref, and prints a line with the result of the submission.          *)
(*                                                                         *)
(* The programs pass each other files, trace.tmp, trace.f<n> and           *)
(* .csim_results, that stay there from one run to the next.  SIGALRM ends  *)
(* test-trans but not the program that it waits for in system().           *)
(***************************************************************************)
EXTENDS Transpose, Sequences

CONSTANT Misses      \* what csim-ref may count

ASSUME TestTransAssumption == Misses \subseteq Nat

\* driver.py: M, N, the two limits of computeMissScore and the full score.
Sizes == << [M |-> 32, N |-> 32, lower |-> 300,  upper |-> 600,  full |-> 8],
            [M |-> 64, N |-> 64, lower |-> 1300, upper |-> 2000, full |-> 8],
            [M |-> 61, N |-> 67, lower |-> 2000, upper |-> 3000, full |-> 10] >>

\* registerFunctions
func_list == << "Transpose submission", "Simple row-wise scan transpose" >>
SUBMIT_DESCRIPTION == "Transpose submission"

Runs  == DOMAIN Sizes
Funcs == DOMAIN func_list

\* What a program is run for: a size and a function.
Jobs == {<<d, k>> : d \in Runs, k \in Funcs}

IsSubmission(k) == func_list[k] = SUBMIT_DESCRIPTION

\* validate: the jobs with a correct result.
Valid == {job \in Jobs :
    LET M == Sizes[job[1]].M
        N == Sizes[job[1]].N
    IN  IF IsSubmission(job[2])
        THEN SubmitIsValid(M, N)
        ELSE TransIsValid(M, N)}

NoTrace  == [of |-> <<>>, torn |-> FALSE]
NoReport == [of |-> <<>>, torn |-> FALSE, count |-> 0]
INVALID  == [of |-> <<>>, torn |-> FALSE, count |-> 2 ^ 30 - 1 + 2 ^ 30]   \* INT_MAX
NoLine   == [correct |-> 0, misses |-> NoReport, timeout |-> FALSE]

VARIABLES endless,       \* jobs in which a function of trans.c, as edited, never returns
          run, pc, f,    \* driver, point in test-trans, eval_perf's i
          results,       \* of test-trans
          trace, parts,  \* trace.tmp and trace.f<n>: of which job, and whether two wrote it
          csim,          \* .csim_results
          orphans,       \* programs that have outlived their test-trans
          lines          \* the line test-trans printed in each run

files == <<trace, parts, csim>>
vars  == <<endless, run, pc, f, results, files, orphans, lines>>

Job == <<run, f>>

Fresh == [funcid |-> -1, correct |-> 0, misses |-> INVALID]

-----------------------------------------------------------------------------
(* eval_perf                                                               *)

Loop == pc' = "loop" /\ f' = f + 1

\* system(valgrind ./tracegen): the shell empties trace.tmp.
Trace ==
    /\ pc = "loop" /\ f \in Funcs
    /\ results' = IF IsSubmission(f) THEN [results EXCEPT !.funcid = f] ELSE results
    /\ trace' = [of |-> Job, torn |-> FALSE]
    /\ pc' = "tracing"
    /\ UNCHANGED <<endless, run, f, parts, csim, orphans, lines>>

\* Mutant: any function that validates makes the submission correct.
Correct_Any == results' = [results EXCEPT !.correct = 1]

Correct == results' = IF results.funcid = f THEN [results EXCEPT !.correct = 1] ELSE results

\* Mutant: the loop goes on with a function that is wrong.
Traced_Always ==
    /\ pc = "tracing" /\ Job \notin endless
    /\ pc' = "filter" /\ UNCHANGED f
    /\ IF Job \in Valid THEN Correct ELSE UNCHANGED results
    /\ UNCHANGED <<endless, run, files, orphans, lines>>

Traced ==
    /\ pc = "tracing" /\ Job \notin endless
    /\ \/ Job \in Valid /\ Correct /\ pc' = "filter" /\ UNCHANGED f
       \/ Job \notin Valid /\ Loop /\ UNCHANGED results
    /\ UNCHANGED <<endless, run, files, orphans, lines>>

\* The accesses between the markers go to trace.f<n>, then csim-ref is run.
Filter ==
    /\ pc = "filter"
    /\ parts' = [parts EXCEPT ![f] = trace]
    /\ pc' = "simulating"
    /\ UNCHANGED <<endless, run, f, results, trace, csim, orphans, lines>>

Report(part, count) == [of |-> part.of, torn |-> part.torn, count |-> count]

Simulated ==
    /\ pc = "simulating"
    /\ \E count \in Misses : csim' = Report(parts[f], count)
    /\ pc' = "collect"
    /\ UNCHANGED <<endless, run, f, results, trace, parts, orphans, lines>>

\* Mutant: the misses of the last function are those of the submission.
Collect_Any ==
    /\ pc = "collect"
    /\ results' = [results EXCEPT !.misses = csim]
    /\ Loop
    /\ UNCHANGED <<endless, run, files, orphans, lines>>

Collect ==
    /\ pc = "collect"
    /\ results' = IF results.funcid = f THEN [results EXCEPT !.misses = csim] ELSE results
    /\ Loop
    /\ UNCHANGED <<endless, run, files, orphans, lines>>

\* test-trans ends, and driver.py starts it for the next size.
Printed(line) ==
    /\ lines' = [lines EXCEPT ![run] = line]
    /\ run' = run + 1
    /\ pc' = IF run + 1 \in Runs THEN "loop" ELSE "done"
    /\ f' = 1 /\ results' = Fresh

Emit ==
    /\ pc = "loop" /\ f \notin Funcs
    /\ Printed(IF results.funcid = -1 THEN NoLine
               ELSE [correct |-> results.correct, misses |-> results.misses,
                     timeout |-> FALSE])
    /\ UNCHANGED <<endless, files, orphans>>

TestTrans == Trace \/ Traced \/ Filter \/ Simulated \/ Collect \/ Emit

-----------------------------------------------------------------------------
(* sigalrm_handler                                                         *)

\* The program in system() runs on without test-trans.
Orphaned == CASE pc = "tracing"    -> {[program |-> "tracegen", of |-> Job, torn |-> FALSE]}
              [] pc = "simulating" -> {[program |-> "csim-ref", of |-> parts[f].of,
                                        torn |-> parts[f].torn]}
              [] OTHER             -> {}

\* Mutant: no alarm is delivered while tracegen runs.
Alarm_NotTracing ==
    /\ pc \notin {"tracing", "done"}
    /\ orphans' = orphans \cup Orphaned
    /\ Printed([NoLine EXCEPT !.timeout = TRUE])
    /\ UNCHANGED <<endless, files>>

Alarm == /\ pc # "done"
         /\ orphans' = orphans \cup Orphaned
         /\ Printed([NoLine EXCEPT !.timeout = TRUE])
         /\ UNCHANGED <<endless, files>>

Tracers == {o \in orphans : o.program = "tracegen"}

\* A tracegen that was left behind writes its part of trace.tmp.
StrayWrite == /\ Tracers # {} /\ trace' = [trace EXCEPT !.torn = TRUE]
              /\ UNCHANGED <<endless, run, pc, f, results, parts, csim, orphans, lines>>

StrayEnd == \E o \in orphans :
    /\ orphans' = orphans \ {o}
    /\ \/ o.program = "tracegen" /\ o.of \notin endless /\ UNCHANGED csim
       \/ o.program = "csim-ref" /\ \E count \in Misses : csim' = Report(o, count)
    /\ UNCHANGED <<endless, run, pc, f, results, trace, parts, lines>>

-----------------------------------------------------------------------------
Init == /\ endless \in {{}} \cup {{job} : job \in Jobs}
        /\ run = 1 /\ pc = "loop" /\ f = 1 /\ results = Fresh
        /\ trace = NoTrace /\ parts = [k \in Funcs |-> NoTrace] /\ csim = NoReport
        /\ orphans = {}
        /\ lines = [d \in Runs |-> NoLine]

Next == TestTrans \/ Alarm \/ StrayWrite \/ StrayEnd

Spec == Init /\ [][Next]_vars

\* The programs run on, and alarm(120) is over some day.
FairSpec == Spec /\ WF_vars(TestTrans) /\ WF_vars(Alarm)

-----------------------------------------------------------------------------
(* driver.py                                                               *)

\* Mutant: the lower limit is not looked at.
computeMissScore_NoLower(miss, lower, upper, full) ==
    IF miss >= upper THEN 0
    ELSE (20 * full * (upper - miss) + (upper - lower)) \div (2 * (upper - lower))

\* computeMissScore, in tenths of a point.
computeMissScore(miss, lower, upper, full) ==
    IF miss <= lower THEN 10 * full
    ELSE IF miss >= upper THEN 0
    ELSE (20 * full * (upper - miss) + (upper - lower)) \div (2 * (upper - lower))

Score(d) == lines[d].correct * computeMissScore(lines[d].misses.count, Sizes[d].lower,
                                               Sizes[d].upper, Sizes[d].full)

-----------------------------------------------------------------------------
(* Properties.                                                             *)

Traces == [of : {<<>>} \cup Jobs, torn : BOOLEAN]

TypeOK ==
    /\ run \in 1 .. Len(Sizes) + 1 /\ f \in 1 .. Len(func_list) + 1
    /\ pc \in {"loop", "tracing", "filter", "simulating", "collect", "done"}
    /\ results.funcid \in {-1} \cup Funcs /\ results.correct \in {0, 1}
    /\ trace \in Traces /\ parts \in [Funcs -> Traces]
    /\ \A d \in Runs : Score(d) \in 0 .. 10 * Sizes[d].full

\* A run that was not cut off calls the submission correct exactly if it
\* transposes a matrix of that size, whatever the other function does and
\* whichever programs of earlier runs are still there; a run that was cut off
\* never does.
VerdictEarned ==
    \A d \in 1 .. run - 1 :
        (lines[d].correct = 1) <=> /\ ~lines[d].timeout
                                 /\ \E k \in Funcs : IsSubmission(k) /\ <<d, k>> \in Valid

\* As long as no run has timed out, the misses printed for a correct
\* submission were counted on its own trace, of this size, and no other.
OwnMisses ==
    \A d \in Runs : lines[d].correct = 1 /\ (\A e \in 1 .. d - 1 : ~lines[e].timeout) =>
        /\ ~lines[d].misses.torn
        /\ \E k \in Funcs : IsSubmission(k) /\ lines[d].misses.of = <<d, k>>

\* Nothing is measured that was not validated for the same size first.
MeasuredIsValid == csim.of # <<>> => csim.of \in Valid

\* driver.py gets to its summary even if a function does not return.
DriverEnds == <>(pc = "done")

=============================================================================
