# Formal models of csapp-new-labs

The repository holds one person's solutions to the CS:APP labs together with the
programs that drive and grade them. The labs do not call each other; each is a
small system of its own. The only concurrent one is the shell, `shlab-handout/tsh.c`,
and it is the core of this project. The allocator of the malloc lab with its
driver, the cache simulator, the grader of the transpose functions and the checker of
the data lab are the other parts with a state of their own.

All line numbers below refer to `src/`.

## 1. Inventory

| Part | State | Operations | What is hard |
|---|---|---|---|
| **tsh, job list** (`tsh.c` 22-57, 560-712) | `jobs[MAXJOBS]`, `nextjid` | `initjobs`, `addjob`, `deletejob`, writes through `job->state`, lookups | job IDs wrap and are recomputed; lookups stop at the first match; pointers into the table outlive the entry |
| **tsh, main program** (`tsh.c` 97-421) | where it is in `eval`, `do_bgfg`, `waitfg`; their locals | read a line, fork, add the job, wait, `fg`, `bg`, `quit` | every statement can be interrupted by a signal handler except between `sigprocmask` calls |
| **tsh, handlers** (`tsh.c` 427-554, 752-773) | activations on the stack | SIGCHLD: collect children, update the list; SIGINT, SIGTSTP: pass the signal on | signals do not queue; handlers of different signals nest; the handlers write the table the main program reads |
| **children and kernel** (external) | process states, groups, pending signals | fork, setpgid, execve, exit, stop, continue, waitpid | the child runs before or after the parent; a group exists only after setpgid |
| **sdriver.pl, mystop, myint, myspin** | none of their own | send signals to the shell, or stop or kill themselves | signals that come from processes instead of the terminal |
| **malloc lab, allocator** (`mm.c`, `memlib.c`) | the bytes of the heap, `mem_brk` | `mm_init`, `mm_malloc`, `mm_free`, `mm_realloc`, `mem_sbrk`, `mem_reset_brk` | the structure of the heap is encoded in words that neighbour user data |
| **malloc lab, driver** (`mdriver.c`) | block table of the trace, range list; `total_size` and its high water mark | `add_range`, `remove_range`, `eval_mm_valid`, `eval_mm_util`, `eval_mm_speed` | it is the allocator's client and its judge; the replays check nothing and exit where `mm.c` answers `NULL` |
| **malloc lab, K-best sampling** (`fcyc.c`) | the K best samples, `cache_buf`, flags | `add_sample`, `has_converged`, `clear`, `fcyc`, `set_fcyc_*` | order of the samples, convergence |
| **malloc lab, timers** (`clock.c`, `fsecs.c`, `ftimer.c`) | the words `cyc_hi`, `cyc_lo`; `cyc_per_tick`; ticks of the process | `start_counter`, `get_counter`, `callibrate`, the compensated pair | the low word goes round while a function is timed; interrupts fall into measurements |
| **cache lab, simulator** (`csim.c`) | lines with valid bit, tag and stamp; three counters | `updateCache`, ageing of the stamps | LRU is implied by stamps |
| **cache lab, transpose** (`trans.c`) | the two matrices | `transpose_submit`, `trans` | block sizes against matrix sizes: indices past the end of a row |
| **cache lab, transpose grader** (`test-trans.c`, `tracegen.c`, `cachelab.c`, `driver.py`) | `results`; the files `trace.tmp`, `trace.f<n>`, `.csim_results` | `eval_perf`, `validate`, SIGALRM, scores | programs that talk through files which stay; a program may outlive the one that started it |
| **data lab, puzzles** (`bits.c`, `tests.c`) | none | two solved puzzles on encoded floats (`floatScale2`, `floatFloat2Int`), the others return a constant | overflow, shift widths, float encodings |
| **data lab, checker** (`btest.c`, `decl.c`) | the table's verdicts, test values, `envbuf`, the alarm | `gen_vals`, `test_function`, `run_tests`, `timeout_handler` | a jump out of a signal handler into a frame that may have returned; which arguments are tried |
| **data lab, the rest** (`driver.pl`, `Driverlib.pm`, `ishow.c`, `fshow.c`) | none | prints encodings, runs the checkers | |
| **bomb** (`bomb.c`) | none | calls phases that exist only as a binary | no source |

## 2. Modules

| Module | Models | Uses |
|---|---|---|
| `JobMap` | what the job list promises: a bounded map from PIDs to jobs | |
| `JobList` | the array, its scans and the operations on it | refines `JobMap` |
| `SetFacts` | lemmas: least and greatest element of a finite set, induction up to a bound and over a finite set, sums over a finite set, quotients | TLAPS |
| `Shell` | main program, handlers, children, kernel, user | `JobList` |
| `Shell_proofs` | theorems about `JobList` and `Shell` | `Shell`, `SetFacts` |
| `Allocator` | what `mm.h` promises a client: disjoint aligned blocks that keep their contents | |
| `Heap` | `mm.c` on the memory of `memlib.c` | |
| `MDriver` | the allocator together with its client, `eval_mm_valid` of `mdriver.c` | `Heap` |
| `MDriver_proofs` | theorems about the heap with one trace after the other | `MDriver`, `SetFacts` |
| `Evaluation` | `main` of `mdriver.c` over its traces: `eval_mm_valid`, `eval_mm_util`, `eval_mm_speed` | `MDriver`; refines `Allocator` |
| `Evaluation_proofs` | theorems about the heap in the replays, the client's view and what the replays count | `Evaluation`, `MDriver_proofs` |
| `LRUCache` | what a cache simulator should compute | |
| `CSim` | the cache simulator `csim.c` | refines `LRUCache` |
| `CSim_proofs` | theorems about `CSim` | `CSim`, `SetFacts` |
| `Fcyc` | the K-best sampling of `fcyc.c` | |
| `Clock` | the cycle counter and the calibration of `clock.c` | |
| `Fsecs` | `fcyc` with that counter, as `fsecs.c` sets it up | `Fcyc`, `Clock` |
| `Fsecs_proofs` | theorems about `Fcyc`, `Clock` and `Fsecs` | `Fsecs`, `SetFacts` |
| `Transpose` | the transpose functions of `trans.c` on the memory they write | |
| `TestTrans` | `driver.py`, `test-trans.c` and the programs they start | `Transpose` |
| `TestTrans_proofs` | theorems about `Transpose` and `TestTrans` | `TestTrans`, `SetFacts` |
| `Floats` | `floatScale2`, `floatFloat2Int` and their references | |
| `BTest` | the checker `btest.c` on a table of puzzles | `Floats` |
| `BTest_proofs` | theorems about `Floats` and `BTest` | `BTest`, `SetFacts` |
| `MCBTest` | the table of `decl.c`, scaled to short floats, for TLC | `BTest` |

The modules that are model-checked give their constants in the `.cfg`, where every constant is a number or a set that a
configuration can write. The exception is `BTest`: its table of puzzles is a sequence of records, which `MCBTest` defines.

### JobList

`jobs` is the array as a function on slots `0 .. MAXJOBS - 1`; a slot holds `pid`, `jid`
and `state` (`cmdline` is only printed). A lookup returns the first matching slot,
`NULL` if there is none, as the C loops do. `addjob` and `deletejob` are actions with
the early returns as disjuncts: a PID below 1, no free slot, no such job. `nextjid`
is incremented and wrapped in `Insert` (603-605) and recomputed with `maxjid` in
`Remove` (627-628). `setstate` is a write through a `struct job_t *`; it takes a slot and does
not look whether that slot still holds a job, because the C code does not.

`JobMap` has no slots. Its state is a function from listed PIDs to job ID and
state; `MapAdd` needs room for one more, `MapDelete` removes one PID and touches no
other. `JobList` implements it under the mapping `job <- JobOf(jobs)`.

### Shell

The shell is one thread. `pc` is the point its main program has reached and
`cmd` the locals of the command (`pid`, `fg` or `bg`, and `do_bgfg`'s job pointer as a slot
number). `stack` holds the active signal handlers; while it is not empty the
main program does not move. `Signal` (752-763) installs handlers with an empty mask, so a
handler can be interrupted by any *other* signal (`Deliverable`). The points
between actions are the system calls and the reads and writes of the list: two
statements are one action only if nothing can be seen between them.

| Action | Code |
|---|---|
| `EvalJob`, `Fork`, `ForkFails`, `EvalAdd` | `eval` 186-225; `Blocked` is the stretch between the two `sigprocmask` |
| `WaitfgEnter`, `WaitfgLeave` | `waitfg` 410-419; the loop is a wait for its condition |
| `EvalAnnounce` | 234 |
| `EvalBlankLine` | 288-289 and 304 |
| `LookupJob`, `ContinueJob`, `ForegroundJob`, `BackgroundJob` | `do_bgfg` 350-378, 382, 386-387, 391-392 |
| `Quit` | 304-305, 147-150, `sigquit_handler`; sdriver.pl's QUIT, KILL and CLOSE |
| `Deliver` | the kernel starts a handler |
| `SigchldReap`, `SigchldReport`, `SigchldDelete`, `SigchldStop`, `SigchldReturn` | the loop of `sigchld_handler` 443-456, by what waitpid returned |
| `SigintRead`, `SigintKill` | `sigint_handler` 505-510; `return` at 507 has no semicolon, so `kill` is its operand |
| `SigtstpRead`, `SigtstpKill` | `sigtstp_handler` 547-553 |
| `SetPgid`, `Exec`, `Exit`, `StopItself` | the child: 193-198, or the program it runs (mystop.c) |
| `TypeCtrlC`, `TypeCtrlZ` | sdriver.pl 124-137: the signal goes to the shell alone |

The kernel (external): `sigs` is a set, so a signal that is already pending is
not queued again; `child[p]` is a process's state; `report` holds the stops waitpid
has not reported; a process group exists from `setpgid` on; a child between `fork` and
`execve` still has the shell's handlers and its copy of the job list, of which the
only part that matters is who is in the foreground (`inh`). PIDs are not reused.
Which command is typed, when a program ends and which child waitpid returns
first are free choices. A program that has been started is not distinguished
from another; the parse of a line is reduced to the kind of command.

### Heap, MDriver and Evaluation

`mem` is the memory of `memlib.c` as a function from the addresses of 4-byte words,
counted from `mem_start_brk`, to their values. Tags and user data share it, so a tag
in the wrong place destroys data and data in the wrong place are read as a tag. `Tag`
is the pair of `PUT`s for a header and its footer; `Size`, `Allocated`, `NEXT_BLKP` and
`PREV_BLKP` read the words the macros read. `brk` is `mem_brk`. `coalesce`, `place` and
`extend_heap` (`Extended`) are operators from memories to memories, because nothing can come
between their statements. `mm_malloc` is a state machine of its own (`call`): each
iteration of `find_fit` is a step, so that whether its walk ends is a question about
behaviours and not about the length of a recursion.

| Action | Code |
|---|---|
| `Alloc`, `Realloc` | `mdriver.c` 599-607 and the start of `mm_malloc`, `mm_realloc` |
| `FindNext`, `Found`, `NotFound` | `mm.c` 149-159, 202-211 |
| `AllocReturns`, `AllocFails` | `mdriver.c` 606-630: `add_range`, `memset`, block table |
| `ReallocReturns`, `ReallocFails` | `mm.c` 246-257, `mdriver.c` 632-667: copy, free, ranges, comparison of the old data |
| `FreeBlock` | `mdriver.c` 669-675, `mm_free` |
| `NewTrace` | `mdriver.c` 587-595: `mem_reset_brk`, `clear_ranges`, `mm_init`, on a memory full of old tags |

`malloc_error` ends `eval_mm_valid`; the model then waits for the next trace. `crashed` stands
for the `memcpy` to a null pointer and is final, as `app_error` is. Bytes are tracked inside words where a
size is not a multiple of 4 (`Overlay`, `FirstBytes`); `index & 0xFF` fills a word as
`memset` does. Not in the model: `mm_realloc` with size 0 or a null pointer (the driver never calls
it so) and pointers that leave the memory (they occur only once the heap is
inconsistent).

`MDriver` makes up the requests while it serves them. `Evaluation` records them with their answers
(`trace`) and goes on as `main` does with a trace that was found valid.

| Action of `Evaluation` | Code |
|---|---|
| `CheckedRequest`, `CheckedReturn`, `CheckedFailure`, `CheckedFree`, `Search` | the actions of `MDriver` above, with the record |
| `Accepted`, `Utilized`, `NextLap` | the end of one `eval_mm_` function and the start of the next: `mem_reset_brk` and `mm_init` on the memory as it was left; `NextLap` is the loop of `ftimer_gettod` |
| `ReplayRequest`, `ReplayReturn`, `ReplayFree` | the loops of `eval_mm_util` (with `total_size`, `max_total_size`) and `eval_mm_speed`: no range, no `memset`; a `NULL` ends the program (`app_error`), or is copied to in `mm_realloc` |
| `NextFile` | the loop of `main` |

The code keeps the entries of the block table from one function to the next; each is written
before it is read again, so the model starts it empty. libc's `malloc`, to which the driver compares
`mm.c`, is not in the repository.

`Allocator` has no heap. Its state is the blocks a client holds and one bit, whether all of
them still contain what was written. In the mapping (`Honoured`) `intact` is true as well in the replays, which
write nothing to their blocks, and after `eval_mm_valid` has reported that data were lost: losing
data is a violation only if nobody notices. An address that `add_range` refuses breaks the promise in any case.

### CSim

`cache[x][i]` is line `i` of set `x` with its valid bit, tag and stamp. `Once` is a trace line
with `L` or `S`, `Twice` one with `M`, each followed by the ageing of all valid lines
(231-239), which is part of the step because the loop body is. `updateCache` returns
the new set and what it adds to the three counters. A line with `I` changes nothing.

Lines hold stamps, which grow; `LRUCache` has times of last use, which do not. The mapping takes the
number of trace lines minus the stamp.

### Fcyc, Clock and Fsecs

A step of `Fcyc` is a measurement with the first half of `add_sample` (`Measure`), one iteration
of its insertion sort (`Swap`) or the test of the loop of `fcyc` (`Repeat`, `Return`);
`Again` is the next call. `samples` is the record of all times that the code keeps
when `KEEP_SAMPLES` is defined; here it says what `values` should hold. Times are integers instead
of doubles, and may be negative; `epsilon` is a percentage.

`Clock` has the processor's count of cycles (`now`) and the ticks of the process. A reading is two words;
`get_counter` subtracts them word by word with a borrow, as unsigned words do. `Fsecs` puts it where `Fcyc` leaves a
measurement open.

| Action of `Fsecs` | Code |
|---|---|
| `Begin`, `Clear`, `ClearFails` | the top of the loop of `fcyc` (134-151), without and with `clear` (105-124), which exits if `malloc` fails (112-115) |
| `Calibrate`, `Watch` | `start_comp_counter` without an estimate: `callibrate` of `clock.c`, one event of its loop a step |
| `StartCounter`, `StopCounter` | `start_counter`, `get_counter` and the compensated pair; the sample goes to `add_sample` |
| `Sampling`, `NextCall` | the actions of `Fcyc` |
| `SetCacheSize`, `SetFlags` | `set_fcyc_cache_size`, `set_fcyc_clear_cache`, `set_fcyc_compensate` between two calls |
| `Work`, `Tick` | the processor: cycles pass, with or without a timer interrupt |

`elapsed` is the time that has really passed since the counter was started and `truth` what each sample should
be; the program reads neither. Simplified: `times` and the counter are read at one instant, `oldt` is read as soon as the counter
has been started, `cyc_per_tick` is rounded down, only the size of the buffer of `clear` is kept, and the
calls `set_fcyc_k`, `_maxsamples`, `_epsilon` and `_cache_block` set what are constants here. Left out: the counter of the
Alpha, `mhz`, `ovhd`, the interval timer and the conversion to seconds. The repository's configuration times with
`gettimeofday` (`config.h` 68-70), so its build contains this code and does not call it.

### Transpose and TestTrans

`Transpose` gives, for an address of B, what it holds after the function: the value of the *last*
write to it in the order of the loops (`SubmitTime`), because the blocks of `transpose_submit` run
over the ends of rows when a side is no multiple of 8. A value is named by its address in A;
memory behind A is zero and never equal to a random number.

| Action of `TestTrans` | Code |
|---|---|
| `Trace` | `test-trans.c` 63-72: the shell of `system` empties `trace.tmp`, tracegen runs |
| `Traced` | 72-90: the status is `validate`'s, for the real functions at the real sizes |
| `Filter` | 92-135: the part between the markers |
| `Simulated`, `Collect` | 137-158: csim-ref writes `.csim_results`, which is read back |
| `Emit` | 248-259 |
| `Alarm` | `sigalrm_handler` 188-193, between any two steps; tracegen or csim-ref may be left behind |
| `StrayWrite`, `StrayEnd` | a program that was left behind writes its file, and ends |

A file is described by the job (size and function) whose data it holds and by whether a second program wrote
into it. What csim-ref counts is a choice out of `Misses`. `trans.c` is the file a student edits, so in
`endless` a function of it may be one that does not return; the two that are there do. The pipe to `grep` is taken to
close when test-trans ends, that is, the shell of `system` replaces itself by the program.

### Floats and BTest

`Floats` has the encodings with `ExpBits` and `FracBits` bits. As in the code an integer is
as wide as a float. The references are defined by the values of numbers (`Magnitude`), as the hardware's
multiplication and conversion are, and not by bits.

`BTest` calls the puzzles of the table `test_set`, a constant, with every combination of generated values.
`Start`, `Skip` and `Finish` are the loop of `run_tests`; `Generate`, `SetAlarm` and `Call` are
`test_function`, one combination a step; `TimesOut` is SIGALRM while the frame of `envbuf` is live, `TimesOutLate`
when it is not. The ten puzzles that only return a constant stand for code still to be written: `flaw` makes one of
them wrong, or endless, at one argument. `Init` chooses the options: `-f` or not, any of `-1`, `-2` and `-3` with a value of `Given` (with or without `-f`; an
option for an argument that a puzzle does not have is ignored), and a time limit or none. Left out: a fixed rating (`-r`), `-g`, the parse of numbers and what is printed.

## 3. Runs

| Run | Question | Instance | Result |
|---|---|---|---|
| `ShellSignals` | does any interleaving miss a terminated child or leave a stale entry? | 2 slots, 2 PIDs, all commands, self-stopping programs, 1 ctrl-c, 2 ctrl-z | holds |
| `ShellJobs` | is the list a bounded map; does a child lose its job only to a full list; do the states of jobs follow 34-41 and match the processes? | 2 slots, 3 PIDs, `bg`, 2 ctrl-z | holds |
| `ShellLive` | do things come to an end? | 2 slots, 2 PIDs, `fg`, self-stopping programs, 1 ctrl-c, 1 ctrl-z | holds |
| `Evaluation` | does the allocator keep its heap and its promises, trace after trace, and do the replays see what `eval_mm_valid` saw? | 80 bytes, chunks of 32, 2 indices, requests of 8 and 24 bytes; 4 requests replayed, timed twice | holds |
| `CSim` | does `csim` simulate an LRU cache? | 2 sets of 3 lines, blocks of 2 bytes, 6 addresses, traces of 6 lines | holds |
| `Fsecs` | does `fcyc` keep the K best times, return the least real one, and return at all? | K = 3, 4 samples, 20 percent, words of 5 bits, 2 starting points, 1 tick in a measurement, 2 cache sizes | holds |
| `TestTrans` | are verdicts and misses those of the real transpositions, and does the driver end? | the three sizes of `driver.py`, both functions, three counts of misses, at most one endless job | holds |
| `BTest` | does a puzzle pass only if it is right at every promised argument (a solved one at every float in range), and does each one end? | 4 bits of exponent, 1 of fraction; 6 puzzles with 0 to 3 arguments; `TEST_RANGE` 4 | holds |
| `ShellTwoFg` | at most one FG (41) with `fg`? | 2 slots, 2 PIDs | violated |
| `ShellCtrlC` | does ctrl-c end the foreground job? | 1 slot, 1 PID, 1 ctrl-c | violated |
| `MDriverSplit` | is the heap consistent with requests that leave 8 bytes? | as `Evaluation`, requests of 8 and 16 bytes, no replays | violated |
| `MDriverRealloc` | does `mm_realloc` keep the data? | as `Evaluation`, no replays | violated |

Why these bounds are enough to see the interesting cases. *Shell*: two
children are needed for one SIGCHLD standing for two, for a foreground and a
background job, and for a handler that interrupts another between reading
`fgpid` and signalling; three PIDs on two slots make the list full while its jobs
live, and job IDs reach past `MAXJOBS` and wrap. More ctrl-c's add nothing: the first one at a prompt already repeats
itself. `ShellSignals` leaves out nothing; `ShellJobs` leaves out `fg`, ctrl-c and programs that
stop themselves, because with `fg` and such programs some of its properties do not hold (section 5); the list itself and `NoForgottenChild` are proved with them too. `StopsOnlyForeground` is among them:
once `fg` has written FG to a slot that was deleted and used again, or has been run while a child is forked, ctrl-z
may stop a background job. `ShellLive` has the commands and signals
that make the main program wait and the handlers repeat; `bg` waits for nothing.
The shell may stop (`quit`), so deadlock is not checked.

*Evaluation*: 80 bytes hold prologue, epilogue and up to four blocks, so that a block has a
free neighbour on either side, on both or on none, the heap is extended, and it
gets full. Requests of 8 and 24 bytes become blocks of 16 and 32 bytes; every block
is then a multiple of 16 and no split leaves 8 bytes over. That is the precondition
under which `mm.c` works; `MDriverSplit` drops it. Two indices are enough for each
pair of live blocks; the driver reuses them. Indices stay below 128 (section 5). Every trace is checked, of any
length; the first one is also replayed if it has at most four requests, which is enough for two blocks, one that moves or is freed between
them, and a request that meets what the trace before has left.
*CSim*: the addresses fall into two sets, four tags in the first against three lines; six trace
lines fill a set, evict and come back to an evicted tag. A run ends with its trace, so
deadlock is not checked in either of these.
*Fsecs*: one sample more than are kept, so that times are kept, replaced and ignored; the times are 0, 3, 7 and 10 cycles, with an
interrupt before, between or after the program's work. Words of 5 bits and starts at 2 and 62 make the low
word go round in some measurements (62 is 30 in the low word) and not in others. An interrupt is enough for an event of `callibrate` (THRESHOLD is 4).
Alone (7) it is too short to be recorded (RECORDTHRESH is 8), with the work before (10) it is not; so there are calls with and without an estimate,
and samples below 0 where the estimate is too high. The state space is finite, and the system stops only where `clear` finds no memory; deadlock is
therefore not checked, and `Returns` says that every other call ends.
*TestTrans*: no bound but the counts of misses: one below every lower limit, one between the limits of 64x64
and past those of 32x32, and one just under the upper limit of 61x67. Numbers of misses matter to the score alone. One endless job at a time is enough, since a
timeout ends the run it is in.
*BTest*: `TEST_RANGE` is 500000 in the code; 4 gives rounds near both ends and zero that overlap for 6-bit integers and roots of 4, 2 and 1 for one,
two and three arguments. Of the table the puzzles differ by number of arguments and kind; one of each
is used, and two float puzzles. A flaw is at 31, the largest int, in any arguments; an option gives 31 too, so that it meets the flaw, or 29, the bits of a float
whose result is out of range. Every place of an alarm is a behaviour. Both stop at the end.

Every property has a mutant in `PROJECT.json`: a plausible bug in one definition,
written beside it in the module (`Blocked_Never`, `SigchldDelete_One`, ...), with which
TLC finds the property violated.

### Fairness

`Shell`: the processor goes on running the shell's one thread while it has something to do, be it a handler, the
start of a handler for a pending signal, or the main program anywhere but at the prompt, where it waits for input. That is *one*
weak fairness condition: nothing is assumed of which of them is next, so a flood of signals may starve the main program. Each forked
child, a process of its own, gets to `setpgid` and to `execve` or `exit` (one condition per child). Two situations are excepted
by name in the properties. `Storming`: ctrl-c at the prompt makes the shell signal its own group, itself included,
without end (section 5), and then nothing is promised. `Awaited`: `waitfg` is to return for a process that has ended, or that has
stopped unless `fg` wrote FG over the stop. `CtrlZStopsForeground` speaks of a program that runs, since ctrl-z may be lost before.

`Evaluation`: a search of the free list that was begun runs on, there being only one process. `Fsecs`: the program runs on (weak), and the
timer interrupts it again and again (strong: an interrupt is possible only while something is timed, and each time
only until the bound `MaxTicks`); without interrupts `callibrate` would wait for ever. In `TestTrans` and `BTest` the program runs on, and an
alarm that was set goes off in the end if nothing else happens before; a puzzle that loops and a function that does not return
have no step of their own.
`CSim` has no liveness property. Nothing obliges a program to end, a child to stop or the user to type; the
properties are stated accordingly ("a terminated child is collected", not "every child
is collected").

## 4. Proofs

TLAPS checks a theorem for every safety invariant, action property and refinement that a passing run checks.
The theorems hold for every value of the constants that the assumptions in the modules admit:

| Module | For every | Hypotheses beside the assumptions |
|---|---|---|
| `Shell_proofs` | `MAXJOBS`, set of PIDs, number of signals, set of commands | none for `TypeOK`, `NoStaleEntry`, `NoMissedChild`, `ListConsistent`, `NoForgottenChild` and the refinement of `JobMap`; finitely many PIDs, with room for all (`AllListed`); no `fg` (`ForegroundIsAwaited`, `StopsOnlyForeground`); no `fg` and no program that stops itself (`StoppedIsListed`, `LegalTransitions`) |
| `MDriver_proofs`, `Evaluation_proofs` | size of the memory, indices, sequence of traces, number of replays | `NoScraps`: no request leaves a rest of 8 bytes |
| `CSim_proofs` | number of sets (from 2), lines, bytes of a block, addresses, length of the trace | none |
| `Fsecs_proofs` | K, number of samples, width of the words, threshold, duration of programs, interrupts and measurements | none |
| `TestTrans_proofs` | count of misses, set of endless jobs; size of the matrices and limits of the score, for the lemmas about these | none |
| `BTest_proofs` | table of puzzles, `TEST_RANGE` (from 4), width of floats | none |

But for the finiteness of `Pids`, each hypothesis stands for something that does go wrong without it. The run `ShellTwoFg` and section 5 show what `fg` does to the list; `MDriverSplit`
shows a heap with a rest of 8 bytes. `NoScraps` asks that `CHUNKSIZE` and the block of every request are multiples of 16, as they
are in `Evaluation.cfg`; 4096 is one, and requests of 8, 24, 40, ... bytes become such blocks.

### The shell

* **The list.** `ListInv` is `ListTypeOK`, `PidUnique` and `JidIffUsed` together; the last two are `ListConsistent`. It is
  inductive: `MinFacts` and `MaxFacts` bound the two scans that look at numbers, `AddLemma`,
  `DeleteLemma` and `SetstateLemma` treat the three writers. `PidUnique` is what makes
  `getjobpid` mean "the job of this process"; `JidIffUsed` is what makes `maxjid`, which does
  not look at `pid`, ignore deleted jobs. `Refinement` shows that `ListSpec` implements `JobMap`: under `ListInv` a
  listed PID has one slot (`JobOfFacts`), so writing a slot changes the map at one
  PID; `ListFits` turns a free slot into room in the map.
* **Signals and the list.** `ShellInv` strengthens `NoStaleEntry` with three facts that make it
  inductive: no handler is active while signals are blocked (`BlockedAlone`), so
  none runs between `fork` and `addjob`; the process about to be added is a live child
  that is not listed (`NewChild`); and the pids in handler frames are those of
  collected children (`FramePids`). `NoStaleEntry` alone is not inductive, because
  it says nothing of the child between `Fork` and `EvalAdd`. Every step of the shell is a step of `ListSpec`
  or leaves the list alone (`ShellUsesList`); what is proved of the list therefore holds in the
  shell (`ShellListIsMap`).
* **Children.** `ChildInv` is `NoMissedChild` with what the frames of the SIGCHLD handler know: an `ended` child is collected, a `stopped` one stays stopped until the
  main program continues it, which it cannot do while that frame is active. From it follows that a listed child stays listed until it is collected (`StaysListed`): a slot is
  cleared only for a collected child. So a child is without a job only if `addjob` found the list full (`NoForgottenChild`), which does not happen with room for
  all PIDs (`RoomForOne`, `AllListed`).
* **The foreground, without `fg`.** `FgInv`: a slot with FG belongs to the process the main program waits for; a child inherits no foreground job;
  and what the SIGTSTP handler is going to signal is in the foreground until it ends or stops (`TstpFrames`). The last one is the point: the handler reads the PID
  and signals later, and in between the SIGCHLD handler may run.
* **Stopped jobs, without programs that stop themselves.** `StopInv` relates list and processes through what is on its way (`StopPending`):
  reports waitpid has not given and frames that have yet to record one. Both `StoppedIsListed` and `LegalTransitions` follow.

The four invariants are layers: each is inductive given those before it.

### The allocator

* **The heap.** `HeapInv` says that *some* set B of addresses is the set of blocks: it has the prologue, each block's header and footer agree,
  the next one begins where it ends, the last is the epilogue, no two neighbours are free, and the allocated ones are exactly those some
  index owns or `mm_malloc` is about to hand out. `NoBlockLost` and `HeapConsistent` speak of the walk along the headers instead; `WalkFindsBlocks` shows by induction up to
  the number of words (`UpTo`) that the walk visits B. `Retile` takes out or puts in a block; `Coalescing`, `Placing`,
  `Growing` and `Writing` treat what the functions of `mm.c` do to B, and say which payloads keep their contents (`Keeps`).
  For `FailsOnlyWhenFull` the invariant has what the search of the free list has passed (`SearchState`).
* **Replays.** `EvalInv` adds that the recorded trace is legal, each request allocating an index that is not live or using one that is
  (`Live`, `Legal`), and that the block table has the indices live at this point; so the replays request nothing `eval_mm_valid` did not.
* **The client.** `ClientInv`: each live block has the size its request asked for, and while `eval_mm_valid` runs the range list has its payload and the payload holds what was written.
  With `HeapInv`, which has the blocks aligned and disjoint inside the heap,
  `EvaluationImplementsAllocator` follows step by step; `Accepts` is that `add_range` never complains. `mm_realloc`, which takes the old size from the wrong tag, may copy wrong bytes, but never past the new block;
  `eval_mm_valid` then reports lost data, or has rewritten the block (`ClientReallocates`).
* **Replays agree.** A heap is determined by its end and its allocated blocks, the free ones being what is left between them (`SameHeap`), and first fit gives
  one answer on it (`OneAnswer`), whatever bytes the memory holds. `AgreeInv` says that both runs follow one history of tables and ends (`History`),
  whose answers are those of the record.
* **Utilization.** `total_size` is compared with a sum over the live requests; the sum is that of the block table (`UtilInv`), and sums change by one term when one
  entry is added, replaced or removed (`TotalFacts`, by induction over finite sets, `Subsets`). That disjoint blocks in the heap sum up to at most its size is `TotalApart`.

### The others

* **The cache simulator.** `DistinctLines` is not inductive alone: a line that has just
  been used has stamp 0, and it differs from its neighbours only because these were aged
  after their own last use. `Ages` says so (stamps of valid lines are at least 1 between two trace
  lines). `UpdateFacts` reduces hit, miss and eviction to one form, `UsedAt`: one line is
  rewritten, and no other has the tag; `SecondUse` shows that the store of an `M` changes nothing. `CountersMatch` compares a counter with
  a cardinality: a step adds at most one valid line (`CountStep`). In `SimulatesLRU` the line with the greatest stamp is the tag with the least time of last use
  (`UseIsLRU`); a set is full of lines exactly if it has as many tags (`TagCount`).
* **K-best sampling.** `FcycInv` says that the entries are in order but for the one that is
  moving down (`Ordered`), and that entries and measured times cover each other
  (`Covers`). When the sort stops, `SortEnds` gives full order, and the first entry is the least time. `HoldsBest` is about times as often as they were
  measured; `Counted` says it by numbers: for every bound, as many entries up to it as there were times up to it, and at most K.
* **The cycle counter.** `CounterExact`: for two instants less than `Word * Word` apart, the subtraction of two words with a borrow
  is the subtraction of the instants. It rests on three facts about `%` (`ModLow`, `ModNegative`, `DivRem`), by cases
  on whether the low word has gone round. `FsecsInv` adds to `FcycInv` that while the counter runs its words are those of the starting instant
  (`Running`, which no single reading shows) and that `truth` is `samples`. `LeastElapsedReturned` then follows from the
  least sample, and since `Fsecs` takes only steps of `Fcyc` or none (`SamplesAsFcyc`), `HoldsBest` carries over.
* **The grader of the transpositions.** `GraderInv` says whose data the files hold. A program that was left behind may spoil `trace.tmp`, but never changes whose trace it is, and
  every csim-ref still running was started for a valid function (`Measurements`); until the first timeout nothing is spoiled (`Undisturbed`).
* **The transpositions.** An address of B is `j*N + i`, and quotient and remainder are unique (`DivMod`): as long as the loops keep i below N, each address has one writer
  (`OneWriter`). Hence `trans` is always right, and so is `transpose_submit` if N is a multiple of 8, for any M: what it writes beyond M lies behind the matrix.
  Otherwise it writes the start of the second row of B a second time, from `A[N][0]`, after the right value
  (`SubmitValidExactly`; with M = 1 there is no second row). So 61x67 is the only size `validate` turns down, and scores 0 (`LastSizeIsLost`);
  `ScoreFalls` says that the score never grows with the misses.
* **The checker of the data lab.** `GenFacts` shows that the arrays hold everything `gen_vals` promises and never more than `MAX_TEST_VALS`
  (`IntValsFacts`, `FloatValsFacts`; `FlattenFacts` for their concatenation); `EveryCombination` that the loops number every combination of up to three
  arguments, as digits of a number with mixed bases. `VerdictInv` then is that all combinations before the current one were right. `AlarmInv` is short: `envbuf` belongs to the puzzle from `sigsetjmp` on, and SIGALRM
  is never left blocked by the jump.
* **The float puzzles.** Bits are a sign, an exponent and a fraction, and nothing else (`Fields`, `PackedFields`); a finite float is the only one of its sign and magnitude, since greater
  exponents have greater magnitudes (`MagnitudeOrder`, `OneEncoding`), so `Encoded` has one choice (`EncodedIs`). `ScaleErrs` and `ToIntErrs` then say *exactly* where the solutions
  differ from their references: an exponent of 0xFE, or of 158 (E = 31), with a fraction that is not 0. There the result is out of range; so a solved puzzle is right wherever it is in range. That
  it fails only on an argument given with -1 needs that `gen_vals` tries none of these floats (`SamplesTame`: below `largest_norm` the exponent is
  0xFD, and nothing is near 2^31), which `Generated` and `Faulted` carry to the verdict (`RightWhereInRange`).

Two assumptions are particular to `BTest`. `TestSetAssumption`: the ranges in the table are not empty, none has the one size for which `btest.c` 198 is off by one, and the two solved
puzzles take one float, all of which `decl.c` shows. `PowerAssumption` says that 2^0 is 1 and 2^(k+1) twice 2^k, for exponents up to the width and up to `MaxExp`: the prover knows nothing of `^`,
and all laws of powers are derived from it (`PowersUpTo`, `PowerLaws`). TLC evaluates it for the widths of `MCBTest`.

### Only model-checked

The liveness properties (`ZombiesReaped`, `WaitfgReturns`, `CtrlZStopsForeground`, `HandlersReturn`, `MallocReturns`, `Returns`, `DriverEnds`,
`EveryPuzzleEnds`): fairness and ENABLED are outside the proof system's reach. What recursive functions compute is proved by a least counterexample up to a given bound
(`UpTo`), as the library's induction theorems cannot be used here.

## 5. Known limits of the code

Four are shown by runs (`findings` in `PROJECT.json`):

* `fg` writes FG through a pointer that may be stale (386), which breaks "At most
  1 job can be in the FG state" (41).
* ctrl-c never reaches the foreground job (507-510). At the prompt the shell
  signals its own process group, itself included, again and again.
* `place` cuts a block to size also when only 8 bytes are left over (`mm.c` 218-226). They
  belong to no block, and the next header is looked for in the middle of them.
* `mm_realloc` takes the size of the old block from the footer of the block before
  it (`mm.c` 250), and copies too few bytes, or more than the old block holds.

Others were met while modelling. The model has the behaviour unless stated; no property excludes it, and where a property comes near, its
statement says what is left out:

* The SIGCHLD handler writes through a null pointer for a stopped child that found the list
  full and was never listed (454-455).
* A blank line makes `builtin_cmd` compare a null `argv[0]` (288, 304).
* `fg` runs with FG still in a slot that no longer belongs to the job (386), or while a child that has not reached `execve`
  has inherited the list: ctrl-z may then stop a background job, through `fgpid` or through the child's own handler. The theorems about `StopsOnlyForeground`,
  `ForegroundIsAwaited`, `StoppedIsListed` and `LegalTransitions` are therefore stated without `fg`.
* Job IDs can repeat: `nextjid` wraps to 1 whatever IDs are in use (604), so `%1` may
  name the wrong one of two jobs.
* A background program that ends before 234 is announced as job 0.
* ctrl-z before the child's `setpgid` (194) finds no group and is lost; before `execve` the child still has the shell's
  handler, which swallows it. `CtrlZStopsForeground` is about programs that run.
* `fg` writes FG (386) after it has continued the process. If the process stops itself in between and the handler has already recorded ST, the
  entry says FG again, and `waitfg` waits for a process that is stopped. `WaitfgReturns` leaves this case out (`Awaited`).
* `bg` records BG after it has continued the process (382, 392): a stop in between
  is overwritten, and the job is listed as running until it stops or is continued again. `StoppedIsListed` is not stated for programs that stop themselves.
* `mm_realloc` does not test what `mm_malloc` returns before it copies (`mm.c` 248-256): `eval_mm_valid` crashes with it.
  `ReplaysAgree` shows that the replays of an accepted trace never do.
* `add_range` compares only the ends of a payload with the other ranges; a payload that
  contains another one would pass (`mdriver.c` 409). The allocator produces none.
* From index 128 on `eval_mm_valid` reports lost data for every `mm_realloc`: a signed
  `char` is compared with `index & 0xFF` (`mdriver.c` 656).
* `csim` with one set (`s = 0`) shifts by the width of the type (`csim.c` 64); with the
  options missing it uses variables that were never set.
* `transpose_submit` is wrong for every matrix whose number of rows is no multiple of 8, unless it has one column (`trans.c` 26-31,
  `SubmitValidExactly`); 61x67 is one. The grader notices, and the score for this size is 0 (`LastSizeIsLost`).
* After a timeout a tracegen or csim-ref that was left behind may spoil the files of the next run (`test-trans.c`
  188-192). `OwnMisses` is therefore stated for runs before the first timeout.
* The status of csim-ref is not looked at (`test-trans.c` 142). If it fails, the misses of the
  function before are taken. (In the model it does not fail.)
* A tracegen that is killed by a signal has `WEXITSTATUS` 0 if the shell of `system` has replaced itself by
  it (`test-trans.c` 72): a function that crashes would count as valid. (No function of `trans.c` crashes; not in the model.)
* `floatScale2` turns an exponent of 0xFE into 0xFF and keeps the fraction (`bits.c` 285): a NaN where 2*f is infinite.
* `floatFloat2Int` lets E = 31 through (`bits.c` 327): for a float from 2^31 with a fraction it does not
  return 0x80000000, as the header (296-297) says.
* `btest` tries neither: its `largest_norm` 0x7f000000 (`btest.c` 144) is a power of two and not the
  largest float. `VerdictsRight` therefore speaks of the arguments that are promised; `RightInRange` says that the two puzzles are right
  wherever the exact result is in range, so that these two are their only errors (`ScaleErrs`, `ToIntErrs` prove it for every width).
* `init_sampler` does not test what `calloc` returns (`fcyc.c` 54); in the model it does not fail.
* `clear` would loop for ever with a cache block smaller than an `int`: its increment is 0 (`fcyc.c` 109). The constant of the model is the
  default of 32 bytes.
* `btest` does not cancel the alarm of a puzzle that has returned (`btest.c` 347-358). If it goes off while the values of the
  next one are generated, the jump goes to a frame that has returned; the model goes to `lost`, or to a verdict of `timeout`.
* A range of `MAX_TEST_VALS + 1` values would count as small (`btest.c` 198), and overflow the array of test values;
  no puzzle has one, and `TestSetAssumption` says so.

## 6. Plan

Done: shell, job list, allocator with its driver and the replays, cache simulator, K-best sampling with the cycle counter, transpose with its
grader, data lab with its checker. Every safety property that a passing run checks has a theorem. Left, both in the models: csim-ref's failure
in `TestTrans`, and a cache of one set.

Not modelled: the bomb's phases and libc's `malloc` (no source), option parsing, printing, reading of
trace files, the number displays (`ishow.c`, `fshow.c`), `driver.pl` and `Driverlib.pm` (they format or start other programs, and keep no state), and in
`clock.c` and `ftimer.c` what the machine decides: the clock rate, the overhead, the interval timer.
