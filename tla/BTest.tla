-------------------------------- MODULE BTest --------------------------------
(***************************************************************************)
(* The checker of the data lab (datalab-handout/btest.c): every puzzle of  *)
(* the table test_set (decl.c) is called with generated arguments and      *)
(* compared with its reference, until it errs, has passed, or SIGALRM ends *)
(* it with a jump back into test_function.                                 *)
(*                                                                         *)
(* The solved puzzles are those of Floats.  Of the others no code is       *)
(* there yet: each may be right everywhere, or go wrong or loop for ever   *)
(* at one argument.                                                        *)
(***************************************************************************)
EXTENDS Floats, Sequences, SequencesExt

CONSTANTS test_set,     \* the table of decl.c
          TEST_RANGE,
          Randoms,      \* what random_val returns
          Spots,        \* where a puzzle that is not solved may go wrong
          Given         \* bound: values of the options -1, -2 and -3

MAX_TEST_VALS == 13 * TEST_RANGE

Record(name, args, min, max, rating) ==
    [name |-> name, args |-> args, min |-> min, max |-> max, rating |-> rating]

TestRecs == [name : STRING, args : 0 .. 3, min : TMin .. TMax, max : TMin .. TMax, rating : Nat]

\* A puzzle on floats has the range 1 to 1.
OnFloats(test) == test.min = 1 /\ test.max = 1

Solved == {"floatScale2", "floatFloat2Int"}

ASSUME BTestAssumption == /\ TEST_RANGE \in Nat /\ TEST_RANGE >= 4
                          /\ Randoms \subseteq TMin .. TMax
                          /\ Spots \subseteq TMin .. TMax
                          /\ Given \subseteq Bits

\* decl.c: no range is empty, and none is of the one size that counts as small
\* but does not fit in the array of values; the solved puzzles are on floats.
ASSUME TestSetAssumption ==
    /\ test_set \in Seq(TestRecs)
    /\ \A k \in DOMAIN test_set :
          /\ test_set[k].min <= test_set[k].max
          /\ test_set[k].max - test_set[k].min # MAX_TEST_VALS
          /\ test_set[k].name \in Solved => OnFloats(test_set[k]) /\ test_set[k].args = 1

Tests == DOMAIN test_set

VARIABLES test_fname, argval, timed,   \* options -f, -1 to -3, and -T above 0
          flaw,                        \* where an unsolved puzzle goes wrong
          i, pc,                       \* loop of run_tests, point in test_function
          test_vals, n,                \* arguments, and the next combination
          verdict, points, max_points,
          envbuf, armed, blocked       \* frame to jump to, alarm, mask of SIGALRM

input == <<test_fname, argval, timed, flaw>>
loop  == <<i, pc, test_vals, n>>
score == <<verdict, points, max_points>>
clock == <<envbuf, armed, blocked>>
vars  == <<input, loop, score, clock>>

t == test_set[i]

-----------------------------------------------------------------------------
(* gen_vals                                                                *)

smallest_norm == Ones
one           == Bias * Ones
largest_norm  == (MaxExp - 1) * Ones
inf           == MaxExp * Ones
nan           == inf + Ones \div 2

Signed(us) == us \o [k \in DOMAIN us |-> SignBit + us[k]]

FloatBlock(k) ==
    Signed(<<k>>) \o Signed(<<smallest_norm + k, smallest_norm - k>>)
    \o Signed(<<one + k, one - k>>) \o Signed(<<largest_norm - k>>)

FloatVals(range) ==
    FlattenSeq([k \in 1 .. range |-> FloatBlock(k - 1)]) \o Signed(<<inf>>) \o Signed(<<nan>>)

Within(k, min, max) == IF k \in min .. max THEN <<k>> ELSE <<>>

\* Mutant: the upper end is left out.
IntBlock_Below(min, max, k, random) ==
    <<min + k, max - k - 1>> \o Within(k, min, max) \o Within(-k, min, max) \o <<random>>

IntBlock(min, max, k, random) ==
    <<min + k, max - k>> \o Within(k, min, max) \o Within(-k, min, max) \o <<random>>

\* Mutant: a range that is all of int counts as small.
IntVals_Zero(min, max, range, random) ==
    IF max - MAX_TEST_VALS <= 0
    THEN [k \in 1 .. max - min + 1 |-> min + k - 1]
    ELSE FlattenSeq([k \in 1 .. range |-> IntBlock(min, max, k - 1, random[k])])

\* random[k] is the random number of round k.
IntVals(min, max, range, random) ==
    IF max - MAX_TEST_VALS <= min
    THEN [k \in 1 .. max - min + 1 |-> min + k - 1]
    ELSE FlattenSeq([k \in 1 .. range |-> IntBlock(min, max, k - 1, random[k])])

gen_vals(arg, range, random) ==
    IF arg \in DOMAIN argval
    THEN <<IF OnFloats(t) THEN argval[arg] ELSE AsInt(argval[arg])>>
    ELSE IF OnFloats(t) THEN FloatVals(IF range > Ones THEN Ones ELSE range)
    ELSE IntVals(t.min, t.max, range, random)

-----------------------------------------------------------------------------
(* test_function                                                           *)

\* The k-th root; pow(x, 0.333) stays below a cube root that is exact.
Root(k) == Max({1} \cup {x \in 1 .. TEST_RANGE :
                           IF k = 3 THEN x ^ 3 < TEST_RANGE ELSE x ^ k <= TEST_RANGE})

arg_test_range(args) == IF args = 0 THEN Root(3) ELSE Root(args)

Product(counts) ==
    LET upTo[k \in 0 .. Len(counts)] == IF k = 0 THEN 1 ELSE upTo[k - 1] * counts[k]
    IN  upTo[Len(counts)]
Counts(vals)    == [k \in DOMAIN vals |-> Len(vals[k])]

\* The nested loops visit the combinations in the order of n.
Combination(vals, at) ==
    LET Inner(k) == Product(SubSeq(Counts(vals), k + 1, Len(vals)))
    IN  [k \in DOMAIN vals |-> vals[k][1 + ((at \div Inner(k)) % Len(vals[k]))]]

\* The solution differs from the reference, or does not return.
Errs(test, a) ==
    CASE test.name = "floatScale2"    -> floatScale2(a[1]) # test_floatScale2(a[1])
      [] test.name = "floatFloat2Int" -> floatFloat2Int(a[1]) # test_floatFloat2Int(a[1])
      [] OTHER -> flaw.name = test.name /\ flaw.at = a /\ ~flaw.loops

Loops(test, a) == flaw.name = test.name /\ flaw.at = a /\ flaw.loops

\* test_function returns v to run_tests.
Verdict(v) ==
    /\ verdict' = [verdict EXCEPT ![i] = v]
    /\ points' = points + (IF v = "passed" THEN t.rating ELSE 0)
    /\ max_points' = max_points + t.rating
    /\ i' = i + 1 /\ pc' = "next" /\ test_vals' = <<>> /\ n' = 0

\* run_tests goes to the next puzzle, or past it.
Start == /\ pc = "next" /\ i \in Tests /\ test_fname \in {"", t.name}
         /\ pc' = "gen"
         /\ UNCHANGED <<input, i, test_vals, n, score, clock>>

Skip == /\ pc = "next" /\ i \in Tests /\ test_fname \notin {"", t.name}
        /\ i' = i + 1
        /\ UNCHANGED <<input, pc, test_vals, n, score, clock>>

Finish == /\ pc = "next" /\ i \notin Tests
          /\ pc' = "done"
          /\ UNCHANGED <<input, i, test_vals, n, score, clock>>

\* The arguments, and sigsetjmp.
Generate(random) ==
    /\ pc = "gen"
    /\ test_vals' = [arg \in 1 .. t.args |->
                        gen_vals(arg, arg_test_range(t.args), random[arg])]
    /\ n' = 0
    /\ envbuf' = IF timed THEN i ELSE envbuf
    /\ pc' = "alarm"
    /\ UNCHANGED <<input, i, score, armed, blocked>>

\* Mutant: the alarm is set once, for the first puzzle.
SetAlarm_Once ==
    /\ pc = "alarm"
    /\ armed' = ((timed /\ i = 1) \/ armed)
    /\ pc' = "call"
    /\ UNCHANGED <<input, i, test_vals, n, score, envbuf, blocked>>

SetAlarm == /\ pc = "alarm"
            /\ armed' = (timed \/ armed)
            /\ pc' = "call"
            /\ UNCHANGED <<input, i, test_vals, n, score, envbuf, blocked>>

\* One combination: test_1_arg and its kin, and the loops around them.
CallWith(a, last) ==
    /\ ~Loops(t, a)
    /\ \/ /\ Errs(t, a)
          /\ Verdict("failed")
       \/ /\ ~Errs(t, a) /\ last
          /\ Verdict("passed")
       \/ /\ ~Errs(t, a) /\ ~last
          /\ n' = n + 1
          /\ UNCHANGED <<i, pc, test_vals, score>>
    /\ UNCHANGED <<input, clock>>

Call == /\ pc = "call"
        /\ \E a \in {Combination(test_vals, n)}, total \in {Product(Counts(test_vals))} :
              CallWith(a, n + 1 = total)

-----------------------------------------------------------------------------
(* SIGALRM.  The alarm of a puzzle is not cancelled when the puzzle        *)
(* returns, it is only replaced by that of the next one.                   *)

InFrame == pc \in {"alarm", "call"} /\ envbuf = i

\* Mutant: the jump does not restore the mask (sigsetjmp without it).
Jumped_Masked == armed' = FALSE /\ blocked' = TRUE /\ UNCHANGED envbuf

\* siglongjmp out of the handler.
Jumped == armed' = FALSE /\ blocked' = FALSE /\ UNCHANGED envbuf

TimesOut == /\ armed /\ ~blocked /\ InFrame
            /\ Jumped /\ Verdict("timeout")
            /\ UNCHANGED input

\* The frame has returned.  If the same call has been made again, the jump
\* may find that call's frame in its place; nothing else is known.
TimesOutLate == /\ armed /\ ~blocked /\ ~InFrame /\ pc \notin {"done", "lost"}
                /\ Jumped
                /\ \/ pc = "gen" /\ Verdict("timeout")
                   \/ pc' = "lost" /\ UNCHANGED <<i, test_vals, n, score>>
                /\ UNCHANGED input

-----------------------------------------------------------------------------
Flaws == {[name |-> "", at |-> <<>>, loops |-> FALSE]} \cup
         UNION {[name : {r.name}, at : [1 .. r.args -> Spots], loops : BOOLEAN] :
                r \in {test_set[k] : k \in {x \in Tests : test_set[x].name \notin Solved}}}

Init == /\ test_fname \in {""} \cup {test_set[k].name : k \in Tests}
        /\ argval \in UNION {[given -> Given] : given \in SUBSET (1 .. 3)}
        /\ timed \in BOOLEAN
        /\ flaw \in Flaws
        /\ i = 1 /\ pc = "next" /\ test_vals = <<>> /\ n = 0
        /\ verdict = [k \in Tests |-> "none"] /\ points = 0 /\ max_points = 0
        /\ envbuf = 0 /\ armed = FALSE /\ blocked = FALSE

GenerateAny == pc = "gen" /\ \E random \in [1 .. t.args -> [1 .. arg_test_range(t.args) -> Randoms]] :
                   Generate(random)

Run == Start \/ Skip \/ Finish \/ GenerateAny \/ SetAlarm \/ Call

Next == Run \/ TimesOut \/ TimesOutLate

Spec == Init /\ [][Next]_vars

\* The program runs on; where a puzzle loops there is nothing left but the
\* alarm, which goes off in the end.
FairSpec == Spec /\ WF_vars(Next)

-----------------------------------------------------------------------------
(* Properties.                                                             *)

Verdicts == {"none", "passed", "failed", "timeout"}

\* No array of test values is longer than MAX_TEST_VALS (btest.c:44-47).
TypeOK ==
    /\ i \in 1 .. Len(test_set) + 1
    /\ pc \in {"next", "gen", "alarm", "call", "done", "lost"}
    /\ \A k \in DOMAIN test_vals : Len(test_vals[k]) \in 1 .. MAX_TEST_VALS
    /\ n \in Nat /\ (n = 0 \/ n < Product(Counts(test_vals)))
    /\ verdict \in [Tests -> Verdicts]
    /\ points \in 0 .. max_points
    /\ envbuf \in {0} \cup Tests /\ armed \in BOOLEAN /\ blocked \in BOOLEAN

\* The arguments that gen_vals promises to try, whatever is random
\* (btest.c:135-139 and 204-205).
Near(x, range) == x - range + 1 .. x + range - 1

PromisedInts(test, range) ==
    (Near(test.min, range) \cup Near(0, range) \cup Near(test.max, range))
        \cap (test.min .. test.max)

PromisedFloats(range) ==
    {u \in Bits :
        LET abs == u % SignBit
        IN  \/ \E x \in {0, smallest_norm, one} : abs \in Near(x, range)
            \/ abs \in largest_norm - range + 1 .. largest_norm
            \/ abs \in {inf, nan}}

Promised(test, arg) ==
    IF arg \in DOMAIN argval
    THEN {IF OnFloats(test) THEN argval[arg] ELSE AsInt(argval[arg])}
    ELSE IF OnFloats(test) THEN PromisedFloats(Min({arg_test_range(test.args), Ones}))
    ELSE PromisedInts(test, arg_test_range(test.args))

PromisedArgs(test) ==
    {a \in [1 .. test.args -> UNION {Promised(test, arg) : arg \in 1 .. test.args}] :
        \A arg \in 1 .. test.args : a[arg] \in Promised(test, arg)}

WrongSomewhere(test) ==
    IF test.name \in Solved THEN \E u \in Bits : Errs(test, <<u>>) ELSE Errs(test, flaw.at)

\* A puzzle passes only if it is right at every argument that btest promises
\* to try, and fails only if it is wrong somewhere, whatever alarms go off,
\* early or late.
VerdictsRight ==
    pc = "next" => \A k \in Tests :
        /\ verdict[k] = "passed" =>
              \A a \in PromisedArgs(test_set[k]) :
                  ~Errs(test_set[k], a) /\ ~Loops(test_set[k], a)
        /\ verdict[k] = "failed" => WrongSomewhere(test_set[k])

InRange(test, u) == IF test.name = "floatScale2" THEN HasDouble(u) ELSE HasInteger(u)

\* btest tries few floats.  A solved puzzle that passes on those is right at
\* every float whose result is in range (tests.c:86-98), tried or not; one that
\* fails has been given an argument out of range (-1).
RightInRange ==
    pc = "next" => \A k \in Tests : test_set[k].name \in Solved =>
        /\ verdict[k] = "passed" /\ 1 \notin DOMAIN argval =>
              \A u \in Bits : InRange(test_set[k], u) => ~Errs(test_set[k], <<u>>)
        /\ verdict[k] = "failed" =>
              1 \in DOMAIN argval /\ ~InRange(test_set[k], argval[1])

\* While a puzzle runs, an alarm is set that will end this puzzle and no
\* other, and it can be delivered.
AlarmCovers == pc = "call" /\ timed => armed /\ envbuf = i /\ ~blocked

\* With a time limit every puzzle ends, also one that loops after another
\* has been timed out.
EveryPuzzleEnds == timed /\ pc = "call" ~> pc # "call"

=============================================================================
