-------------------------------- MODULE Fcyc --------------------------------
(***************************************************************************)
(* The K-best sampling of the malloc lab (malloclab-handout/fcyc.c): a     *)
(* function is timed until the kbest smallest times agree within epsilon,  *)
(* or maxsamples times have been taken; the smallest time is the result.   *)
(*                                                                         *)
(* A step is a measurement, an iteration of add_sample's insertion sort,   *)
(* or the test at the end of fcyc's loop.  What is measured is any number  *)
(* here; Fsecs measures with the counter of clock.c.                       *)
(***************************************************************************)
EXTENDS Integers, FiniteSetsExt

CONSTANTS kbest, maxsamples,   \* set_fcyc_k, set_fcyc_maxsamples
          epsilon              \* set_fcyc_epsilon, in percent

ASSUME FcycAssumption == /\ kbest \in Nat \ {0} /\ maxsamples \in Nat \ {0}
                         /\ epsilon \in Nat

VARIABLES values, samplecount,
          samples,   \* all times, as kept under KEEP_SAMPLES
          pos,       \* where add_sample is in its sort
          pc, result

vars == <<values, samplecount, samples, pos, pc, result>>

Positions == 0 .. kbest - 1

\* How many of values have been filled.
Kept == IF samplecount < kbest THEN samplecount ELSE kbest

-----------------------------------------------------------------------------
\* values comes from calloc.
init_sampler == /\ values' = [i \in Positions |-> 0]
                /\ samplecount' = 0
                /\ samples' = [n \in {} |-> 0]

has_converged == /\ samplecount >= kbest
                 /\ (100 + epsilon) * values[0] >= 100 * values[kbest - 1]

Fill(i, val) == pos' = i /\ values' = [values EXCEPT ![i] = val]

\* Mutant: a time is compared with the best one kept, not with the worst.
Place_Best(val) ==
    \/ samplecount < kbest /\ Fill(samplecount, val)
    \/ samplecount >= kbest /\ val < values[0] /\ Fill(kbest - 1, val)
    \/ samplecount >= kbest /\ val >= values[0] /\ pos' = 0 /\ UNCHANGED values

\* add_sample up to its sort: a time is kept if there is room or if it is
\* smaller than the greatest one kept.
Place(val) ==
    \/ samplecount < kbest /\ Fill(samplecount, val)
    \/ samplecount >= kbest /\ val < values[kbest - 1] /\ Fill(kbest - 1, val)
    \/ samplecount >= kbest /\ val >= values[kbest - 1] /\ pos' = 0 /\ UNCHANGED values

\* Mutant: samplecount stays.
Measure_Uncounted(val) ==
    /\ pc = "measure"
    /\ Place(val)
    /\ samples' = [n \in 0 .. samplecount |-> IF n = samplecount THEN val ELSE samples[n]]
    /\ pc' = "sort"
    /\ UNCHANGED <<samplecount, result>>

Measure(val) ==
    /\ pc = "measure"
    /\ Place(val)
    /\ samples' = [n \in 0 .. samplecount |-> IF n = samplecount THEN val ELSE samples[n]]
    /\ samplecount' = samplecount + 1
    /\ pc' = "sort"
    /\ UNCHANGED result

Unsorted == pos > 0 /\ values[pos - 1] > values[pos]

Swap ==
    /\ pc = "sort" /\ Unsorted
    /\ values' = [values EXCEPT ![pos - 1] = values[pos], ![pos] = values[pos - 1]]
    /\ pos' = pos - 1
    /\ UNCHANGED <<samplecount, samples, pc, result>>

Enough == has_converged \/ samplecount >= maxsamples

Repeat ==
    /\ pc = "sort" /\ ~Unsorted /\ ~Enough
    /\ pc' = "measure"
    /\ UNCHANGED <<values, samplecount, samples, pos, result>>

Return ==
    /\ pc = "sort" /\ ~Unsorted /\ Enough
    /\ pc' = "done" /\ result' = values[0]
    /\ UNCHANGED <<values, samplecount, samples, pos>>

\* The next call of fcyc.
Again == /\ pc = "done" /\ pc' = "measure"
         /\ init_sampler
         /\ pos' = 0
         /\ UNCHANGED result

-----------------------------------------------------------------------------
Init == /\ values = [i \in Positions |-> 0] /\ samplecount = 0 /\ samples = [n \in {} |-> 0]
        /\ pos = 0 /\ pc = "measure" /\ result = 0

Run == (\E val \in Int : Measure(val)) \/ Swap \/ Repeat \/ Return

Next == Run \/ Again

Spec == Init /\ [][Next]_vars

-----------------------------------------------------------------------------
(* Properties.                                                             *)

Taken == 0 .. samplecount - 1

TypeOK ==
    /\ values \in [Positions -> Int]
    /\ samplecount \in 0 .. maxsamples
    /\ DOMAIN samples = Taken /\ \A n \in Taken : samples[n] \in Int
    /\ pos \in Positions
    /\ pc \in {"measure", "sort", "done"}
    /\ result \in Int

\* Between two measurements values holds the kbest smallest times, in order:
\* for each time v it has as many entries up to v as there were such times, and
\* no more than kbest.
HoldsBest ==
    pc # "sort" \/ ~Unsorted =>
        /\ \A i, k \in 0 .. Kept - 1 : i <= k => values[i] <= values[k]
        /\ \A v \in {samples[n] : n \in Taken} :
              Cardinality({i \in 0 .. Kept - 1 : values[i] <= v})
                = Min({kbest, Cardinality({n \in Taken : samples[n] <= v})})

\* fcyc returns the smallest time it has measured.
ReturnsLeast ==
    pc = "done" => /\ \E n \in Taken : samples[n] = result
                   /\ \A n \in Taken : result <= samples[n]

=============================================================================
