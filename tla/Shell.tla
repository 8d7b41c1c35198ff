------------------------------- MODULE Shell -------------------------------
(***************************************************************************)
(* tsh (shlab-handout/tsh.c) at work: the read/eval loop, the signal       *)
(* handlers that interrupt it, the child processes it forks, and the part  *)
(* of the kernel between them (pending signals, process groups, waitpid).  *)
(*                                                                         *)
(* The shell is one thread.  Its main program runs while no handler does;  *)
(* a handler interrupts the main program or a handler of another signal    *)
(* (Signal() leaves sa_mask empty) and runs on top of a stack.  A step is  *)
(* the code between two points where an interruption makes a difference:   *)
(* reads and writes of the job list, system calls.                         *)
(***************************************************************************)
EXTENDS JobList, Sequences

CONSTANTS Builtins,   \* which of the built-in commands "fg" and "bg" are typed
          BlankLines, \* whether the user types blank lines
          SelfStop,   \* whether programs stop themselves (mystop.c)
          MaxInt,     \* how many times ctrl-c is typed
          MaxTstp     \* how many times ctrl-z is typed

ASSUME ShellAssumption == /\ Builtins \subseteq {"fg", "bg"}
                          /\ BlankLines \in BOOLEAN
                          /\ SelfStop \in BOOLEAN
                          /\ MaxInt \in Nat
                          /\ MaxTstp \in Nat

VARIABLES
    pc,      \* where the main program is
    cmd,     \* locals of the command being evaluated (eval, do_bgfg, waitfg)
    stack,   \* active signal handlers, the running one first
    sigs,    \* signals pending for the shell; a second one is not queued
    child,   \* child[p]: the state of process p
    inh,     \* inh[p]: fgpid of the job list p inherited when it was forked
    report,  \* stopped children that waitpid has not reported
    ints,    \* ctrl-c's and
    tstps    \* ctrl-z's typed

mainVars   == <<pc, cmd>>
kernelVars == <<child, inh, report>>
typedVars  == <<ints, tstps>>
vars == <<listVars, mainVars, stack, sigs, kernelVars, typedVars>>

-----------------------------------------------------------------------------
(* The main program, a handler's activation, a child.                      *)

Ended == {"exited",      \* quit, end of file, SIGQUIT
          "nullargv",    \* strcmp on the argv[0] of a blank line
          "nulljob"}     \* job->state through the NULL of getjobpid

PCs == {"prompt",                       \* fgets
        "fork", "add",                  \* eval, with signals blocked
        "cont", "write",                \* do_bgfg: kill, job->state
        "wait", "spin",                 \* waitfg: entry, loop
        "announce"}                     \* eval prints a background job
       \cup Ended

\* mode: FG or BG, the kind of job or of built-in;
\* slot: do_bgfg's job pointer, NULL in eval.
Command == [mode : {FG, BG}, pid : Pids \cup {-1, 0}, slot : Slots \cup {NULL}]
NoCommand == [mode |-> FG, pid |-> 0, slot |-> NULL]

Signals == {"INT", "TSTP", "CHLD"}

\* at: next step of the handler; pid: its local of that name.
Frame == [sig : Signals, at : {"entry", "kill", "ended", "stopped"},
          pid : Pids \cup {0}]

ChildStates == {"none",      \* not forked yet
                "forked",    \* in the shell's process group, with its handlers
                "grouped",   \* after setpgid, before execve
                "running", "stopped", "zombie",
                "reaped",
                "storm"}     \* caught in the SIGINTs its handler sends itself

Running == pc \notin Ended

\* Mutant: eval does not block signals.
Blocked_Never == FALSE

\* eval blocks every signal from before fork until after addjob.
Blocked == pc \in {"fork", "add"}

Handling(sig) == \E k \in DOMAIN stack : stack[k].sig = sig

Deliverable(sig) == sig \in sigs /\ ~Blocked /\ ~Handling(sig)

\* A pending signal is delivered before the interrupted code continues.  (The
\* moment a signal becomes pending is the moment the shell's processor sees it:
\* a later one is a later ctrl-c or a later change of state of the child.)
Undisturbed == Running /\ \A sig \in Signals : ~Deliverable(sig)

Main(at) == Undisturbed /\ stack = <<>> /\ pc = at

Handler(sig, at) == /\ Undisturbed /\ stack # <<>>
                    /\ Head(stack).sig = sig /\ Head(stack).at = at

Goto(at, pid) ==
    stack' = <<[sig |-> Head(stack).sig, at |-> at, pid |-> pid]>> \o Tail(stack)

Return == stack' = Tail(stack)

-----------------------------------------------------------------------------
(* Read/eval loop.                                                         *)

DoneEvaluating == pc' = "prompt" /\ cmd' = NoCommand

\* A command that is not built in: parseline, then signals are blocked.
EvalJob(mode) ==
    /\ Main("prompt")
    /\ pc' = "fork"
    /\ cmd' = [NoCommand EXCEPT !.mode = mode]
    /\ UNCHANGED <<listVars, stack, sigs, kernelVars, typedVars>>

\* parseline returns 1 with argv[0] = NULL, which builtin_cmd compares.
EvalBlankLine ==
    /\ Main("prompt") /\ BlankLines
    /\ pc' = "nullargv"
    /\ UNCHANGED <<listVars, cmd, stack, sigs, kernelVars, typedVars>>

Fork ==
    /\ Main("fork")
    /\ \E p \in Pids :
          /\ child[p] = "none"
          /\ child' = [child EXCEPT ![p] = "forked"]
          /\ inh' = [inh EXCEPT ![p] = fgpid(jobs)]
          /\ cmd' = [cmd EXCEPT !.pid = p]
    /\ pc' = "add"
    /\ UNCHANGED <<listVars, stack, sigs, report, typedVars>>

\* fork returns -1, which eval does not test.
ForkFails ==
    /\ Main("fork")
    /\ cmd' = [cmd EXCEPT !.pid = -1]
    /\ pc' = "add"
    /\ UNCHANGED <<listVars, stack, sigs, kernelVars, typedVars>>

\* addjob, then the signals are unblocked.
EvalAdd ==
    /\ Main("add")
    /\ addjob(cmd.pid, cmd.mode)
    /\ pc' = IF cmd.mode = FG THEN "wait" ELSE "announce"
    /\ UNCHANGED <<cmd, stack, sigs, kernelVars, typedVars>>

\* printf of pid2jid(pid) and pid.
EvalAnnounce ==
    /\ Main("announce")
    /\ DoneEvaluating
    /\ UNCHANGED <<listVars, stack, sigs, kernelVars, typedVars>>

WaitfgEnter ==
    /\ Main("wait")
    /\ \/ /\ getjobpid(jobs, cmd.pid) = NULL
          /\ DoneEvaluating
       \/ /\ getjobpid(jobs, cmd.pid) # NULL
          /\ pc' = "spin"
          /\ UNCHANGED cmd
    /\ UNCHANGED <<listVars, stack, sigs, kernelVars, typedVars>>

\* Mutant: the loop is left at once.
WaitfgLeave_AtOnce ==
    /\ Main("spin")
    /\ DoneEvaluating
    /\ UNCHANGED <<listVars, stack, sigs, kernelVars, typedVars>>

\* The loop spins, without effect, as long as its condition holds.
WaitfgLeave ==
    /\ Main("spin")
    /\ fgpid(jobs) # cmd.pid
    /\ DoneEvaluating
    /\ UNCHANGED <<listVars, stack, sigs, kernelVars, typedVars>>

\* fg or bg of a job given by PID or by job ID.  An argument that names no
\* job only prints a message.
LookupJob(name, mode) ==
    /\ Main("prompt") /\ name \in Builtins
    /\ \E i \in {getjobpid(jobs, p) : p \in Pids}
                \cup {getjobjid(jobs, jobs[s].jid) : s \in Slots} :
          /\ i # NULL
          /\ cmd' = [mode |-> mode, pid |-> jobs[i].pid, slot |-> i]
    /\ pc' = "cont"
    /\ UNCHANGED <<listVars, stack, sigs, kernelVars, typedVars>>

\* kill(-pid, SIGCONT).  The kernel forgets an unreported stop and tells the
\* parent that the child was continued.
ContinueJob ==
    /\ Main("cont")
    /\ pc' = "write"
    /\ \/ /\ child[cmd.pid] = "stopped"
          /\ child' = [child EXCEPT ![cmd.pid] = "running"]
          /\ report' = report \ {cmd.pid}
          /\ sigs' = sigs \cup {"CHLD"}
       \/ /\ child[cmd.pid] # "stopped"
          /\ UNCHANGED <<child, report, sigs>>
    /\ UNCHANGED <<listVars, cmd, stack, inh, typedVars>>

\* job->state = FG; waitfg(job->pid).
ForegroundJob ==
    /\ Main("write") /\ cmd.mode = FG
    /\ setstate(cmd.slot, FG)
    /\ cmd' = [cmd EXCEPT !.pid = jobs[cmd.slot].pid]
    /\ pc' = "wait"
    /\ UNCHANGED <<stack, sigs, kernelVars, typedVars>>

\* Mutant: bg does not record the new state.
BackgroundJob_NoState ==
    /\ Main("write") /\ cmd.mode = BG
    /\ DoneEvaluating
    /\ UNCHANGED <<listVars, stack, sigs, kernelVars, typedVars>>

BackgroundJob ==
    /\ Main("write") /\ cmd.mode = BG
    /\ setstate(cmd.slot, BG)
    /\ DoneEvaluating
    /\ UNCHANGED <<stack, sigs, kernelVars, typedVars>>

\* quit or end of file at the prompt; SIGQUIT or SIGKILL anywhere else.
Quit ==
    /\ Running
    /\ pc' = "exited"
    /\ UNCHANGED <<listVars, cmd, stack, sigs, kernelVars, typedVars>>

MainStep == \/ \E mode \in {FG, BG} : EvalJob(mode)
            \/ EvalBlankLine
            \/ Fork \/ ForkFails \/ EvalAdd \/ EvalAnnounce
            \/ WaitfgEnter \/ WaitfgLeave
            \/ LookupJob("fg", FG) \/ LookupJob("bg", BG)
            \/ ContinueJob \/ ForegroundJob \/ BackgroundJob

-----------------------------------------------------------------------------
(* Signal handlers.                                                        *)

Deliver(sig) ==
    /\ Running /\ Deliverable(sig)
    /\ sigs' = sigs \ {sig}
    /\ stack' = <<[sig |-> sig, at |-> "entry", pid |-> 0]>> \o stack
    /\ UNCHANGED <<listVars, mainVars, kernelVars, typedVars>>

Zombies == {p \in Pids : child[p] = "zombie"}

\* waitpid(-1, WNOHANG | WUNTRACED) > 0, for a terminated child
SigchldReap ==
    /\ Handler("CHLD", "entry")
    /\ \E p \in Zombies : /\ child' = [child EXCEPT ![p] = "reaped"]
                          /\ Goto("ended", p)
    /\ UNCHANGED <<listVars, mainVars, sigs, inh, report, typedVars>>

\* ... and for a stopped child.
SigchldReport ==
    /\ Handler("CHLD", "entry")
    /\ \E p \in report : /\ report' = report \ {p}
                         /\ Goto("stopped", p)
    /\ UNCHANGED <<listVars, mainVars, sigs, child, inh, typedVars>>

\* Mutant: "if" instead of "while", one child for each SIGCHLD.
SigchldDelete_One ==
    /\ Handler("CHLD", "ended")
    /\ deletejob(Head(stack).pid)
    /\ Return
    /\ UNCHANGED <<mainVars, sigs, kernelVars, typedVars>>

SigchldDelete ==
    /\ Handler("CHLD", "ended")
    /\ deletejob(Head(stack).pid)
    /\ Goto("entry", 0)
    /\ UNCHANGED <<mainVars, sigs, kernelVars, typedVars>>

SigchldStop ==
    /\ Handler("CHLD", "stopped")
    /\ LET i == getjobpid(jobs, Head(stack).pid)
       IN  \/ /\ i # NULL
              /\ setstate(i, ST)
              /\ Goto("entry", 0)
              /\ UNCHANGED pc
           \/ /\ i = NULL
              /\ pc' = "nulljob"
              /\ UNCHANGED <<listVars, stack>>
    /\ UNCHANGED <<cmd, sigs, kernelVars, typedVars>>

\* Mutant: waitpid without WNOHANG returns only when no child is left.
SigchldReturn_NoHang ==
    /\ Handler("CHLD", "entry")
    /\ \A p \in Pids : child[p] \in {"none", "reaped"}
    /\ Return
    /\ UNCHANGED <<listVars, mainVars, sigs, kernelVars, typedVars>>

SigchldReturn ==
    /\ Handler("CHLD", "entry")
    /\ Zombies = {} /\ report = {}
    /\ Return
    /\ UNCHANGED <<listVars, mainVars, sigs, kernelVars, typedVars>>

\* "return" at line 507 has no semicolon: it returns the kill of line 510,
\* which is done when there is no foreground job and only then.
SigintRead ==
    /\ Handler("INT", "entry")
    /\ \/ fgpid(jobs) = 0 /\ Goto("kill", 0)
       \/ fgpid(jobs) # 0 /\ Return
    /\ UNCHANGED <<listVars, mainVars, sigs, kernelVars, typedVars>>

\* kill(-0, SIGINT) signals the shell's own process group: the shell, and the
\* children that have not left it, whose copy of this handler does the same.
SigintKill ==
    /\ Handler("INT", "kill")
    /\ Return
    /\ sigs' = sigs \cup {"INT"}
    /\ child' = [p \in Pids |-> IF child[p] = "forked" /\ inh[p] = 0
                                THEN "storm" ELSE child[p]]
    /\ UNCHANGED <<listVars, mainVars, inh, report, typedVars>>

\* Mutant: the handler returns whether or not there is a foreground job.
SigtstpRead_Returns ==
    /\ Handler("TSTP", "entry")
    /\ Return
    /\ UNCHANGED <<listVars, mainVars, sigs, kernelVars, typedVars>>

SigtstpRead ==
    /\ Handler("TSTP", "entry")
    /\ \/ fgpid(jobs) = 0 /\ Return
       \/ fgpid(jobs) # 0 /\ Goto("kill", fgpid(jobs))
    /\ UNCHANGED <<listVars, mainVars, sigs, kernelVars, typedVars>>

\* The process that SIGTSTP, sent to group p, stops.  No such group exists
\* before setpgid; between setpgid and execve p handles the signal as the
\* shell does, with the job list it inherited.
Suspended(p) ==
    LET target == IF child[p] = "grouped" THEN inh[p] ELSE p
    IN  {target} \cap {q \in Pids : child[q] = "running"}

Stop(P) ==
    /\ child' = [p \in Pids |-> IF p \in P THEN "stopped" ELSE child[p]]
    /\ report' = report \cup P
    /\ sigs' = IF P = {} THEN sigs ELSE sigs \cup {"CHLD"}

SigtstpKill ==
    /\ Handler("TSTP", "kill")
    /\ Stop(Suspended(Head(stack).pid))
    /\ Return
    /\ UNCHANGED <<listVars, mainVars, inh, typedVars>>

HandlerStep == \/ SigchldReap \/ SigchldReport \/ SigchldDelete
               \/ SigchldStop \/ SigchldReturn
               \/ SigintRead \/ SigintKill
               \/ SigtstpRead \/ SigtstpKill

-----------------------------------------------------------------------------
(* The children and the user (or sdriver.pl, which signals the shell).     *)

Become(p, from, to) == child[p] = from /\ child' = [child EXCEPT ![p] = to]

SetPgid(p) == /\ Running /\ Become(p, "forked", "grouped")
              /\ UNCHANGED <<listVars, mainVars, stack, sigs, inh, report, typedVars>>

Exec(p) == /\ Running /\ Become(p, "grouped", "running")
           /\ UNCHANGED <<listVars, mainVars, stack, sigs, inh, report, typedVars>>

\* The program ends, or execve failed and the child exits.
Exit(p) == /\ Running
           /\ Become(p, "running", "zombie") \/ Become(p, "grouped", "zombie")
           /\ sigs' = sigs \cup {"CHLD"}
           /\ UNCHANGED <<listVars, mainVars, stack, inh, report, typedVars>>

StopItself(p) == /\ Running /\ SelfStop /\ child[p] = "running"
                 /\ Stop({p})
                 /\ UNCHANGED <<listVars, mainVars, stack, inh, typedVars>>

TypeCtrlC == /\ Running /\ ints < MaxInt
             /\ ints' = ints + 1
             /\ sigs' = sigs \cup {"INT"}
             /\ UNCHANGED <<listVars, mainVars, stack, kernelVars, tstps>>

TypeCtrlZ == /\ Running /\ tstps < MaxTstp
             /\ tstps' = tstps + 1
             /\ sigs' = sigs \cup {"TSTP"}
             /\ UNCHANGED <<listVars, mainVars, stack, kernelVars, ints>>

-----------------------------------------------------------------------------
Init == /\ initjobs
        /\ pc = "prompt" /\ cmd = NoCommand
        /\ stack = <<>> /\ sigs = {}
        /\ child = [p \in Pids |-> "none"]
        /\ inh = [p \in Pids |-> 0]
        /\ report = {}
        /\ ints = 0 /\ tstps = 0

Next == \/ MainStep \/ HandlerStep \/ Quit
        \/ \E sig \in Signals : Deliver(sig)
        \/ \E p \in Pids : SetPgid(p) \/ Exec(p) \/ Exit(p) \/ StopItself(p)
        \/ TypeCtrlC \/ TypeCtrlZ

Spec == Init /\ [][Next]_vars

\* The processor runs the shell, with the signals delivered to it, and the
\* children it has forked.  Nothing makes a program end, nor the user type: at
\* the prompt the main program waits for input.
ShellStep == \/ MainStep /\ pc # "prompt"
             \/ HandlerStep
             \/ \E sig \in Signals : Deliver(sig)

Fairness ==
    /\ WF_vars(ShellStep)
    /\ \A p \in Pids :
          WF_vars(SetPgid(p) \/ (child[p] = "grouped" /\ (Exec(p) \/ Exit(p))))

FairSpec == Spec /\ Fairness

-----------------------------------------------------------------------------
(* Safety.                                                                 *)

TypeOK ==
    /\ ListTypeOK
    /\ pc \in PCs /\ cmd \in Command
    /\ stack \in Seq(Frame) /\ sigs \subseteq Signals
    /\ child \in [Pids -> ChildStates]
    /\ inh \in [Pids -> Pids \cup {0}]
    /\ report \subseteq Pids
    /\ ints \in 0 .. MaxInt /\ tstps \in 0 .. MaxTstp

\* The handler has collected p and is about to delete its job.
Deleting(p) == \E k \in DOMAIN stack :
                  stack[k].at = "ended" /\ stack[k].pid = p

\* eval's blocking of signals around fork and addjob (tsh.c:187-225): a job is
\* never added after its process has been collected, so every listed job has a
\* process, or the SIGCHLD handler is about to delete it.
NoStaleEntry ==
    \A p \in Tracked(jobs) : child[p] \notin {"none", "reaped"} \/ Deleting(p)

\* Signals do not queue (tsh.c:433-436), so one SIGCHLD may stand for many
\* children: whenever a child waits to be collected, a SIGCHLD is on its way or
\* its handler has not finished its loop.
NoMissedChild ==
    Running /\ (Zombies # {} \/ report # {})
        => "CHLD" \in sigs \/ Handling("CHLD")

\* A job is in the foreground only while the main program waits for it
\* (tsh.c:41 and 166-167): there is at most one, and none at the prompt.
ForegroundIsAwaited ==
    Running => \A i \in Slots : jobs[i].state = FG =>
                  pc \in {"wait", "spin"} /\ jobs[i].pid = cmd.pid

\* At most 1 job can be in the FG state (tsh.c:41).
AtMostOneFg ==
    \A i, k \in Slots : jobs[i].state = FG /\ jobs[k].state = FG => i = k

\* When everything has been handled and the shell is back at its prompt, a job
\* is listed as stopped (ST) exactly if its process is.
StoppedIsListed ==
    Main("prompt") /\ sigs = {} =>
        \A i \in Slots : jobs[i].pid # 0 =>
            (jobs[i].state = ST <=> child[jobs[i].pid] = "stopped")

-----------------------------------------------------------------------------
(* What a step may never do.                                               *)

\* A child that has not been collected has no job, and eval is not about to add
\* one.
Forgotten(p) == /\ child[p] \notin {"none", "reaped"}
                /\ p \notin Tracked(jobs)
                /\ ~(pc \in {"add", "exited"} /\ cmd.pid = p)

\* No child is forgotten but one that addjob finds no room for (tsh.c:589-615):
\* no job is lost before its process is collected, also when deletejob is called
\* for a child that has no job.
NoForgottenChild ==
    [][\A p \in Pids : ~Forgotten(p) /\ Forgotten(p)' =>
           /\ pc = "add" /\ cmd.pid = p
           /\ \A i \in Slots : jobs[i].pid # 0]_vars

\* The transitions of tsh.c:34-40.
Transitions == {<<FG, ST>>, <<ST, FG>>, <<ST, BG>>, <<BG, FG>>}

\* The state of a listed job changes only as tsh.c:34-40 allows.
LegalTransitions ==
    [][\A i \in Slots :
          /\ jobs[i].pid # 0 /\ jobs'[i].pid = jobs[i].pid
          /\ jobs'[i].state # jobs[i].state
          => <<jobs[i].state, jobs'[i].state>> \in Transitions]_vars

\* ctrl-z stops no process but the foreground job's (trace08.txt).  (Not with
\* fg: a slot that it has wrongly marked lets the main program go on while a
\* foreground job runs, and a child forked then has that job in its own list.)
StopsOnlyForeground ==
    [][SigtstpKill => \A p \in Pids : child'[p] # child[p] =>
           \E i \in Slots : jobs[i].pid = p /\ jobs[i].state = FG]_vars

-----------------------------------------------------------------------------
(* What must eventually happen, as long as the shell runs.                 *)

\* The shell is about to signal its own group (tsh.c:510): it may do so for
\* ever, and then nothing is promised.
Storming == \E k \in DOMAIN stack : stack[k].sig = "INT" /\ stack[k].at = "kill"

\* A terminated child is collected and its job deleted.
ZombiesReaped ==
    \A p \in Pids : child[p] = "zombie" ~>
        \/ child[p] = "reaped" /\ p \notin Tracked(jobs)
        \/ ~Running \/ Storming

\* A process that has ended, or has stopped and the handler has still to learn
\* of it.  A stop that the handler records before do_bgfg writes FG over it is
\* lost, and waitfg waits for the next one.
Awaited == {p \in Pids : \/ child[p] \in {"zombie", "reaped"}
                         \/ child[p] = "stopped" /\ (p \in report \/ cmd.slot = NULL)}

\* waitfg returns once the foreground process has ended or stopped.
WaitfgReturns == (pc = "spin" /\ cmd.pid \in Awaited) ~> (pc # "spin" \/ Storming)

\* A ctrl-z that is pending while the shell waits for a running foreground job
\* stops that job (tsh.c:515-519), unless it ends first.  Before execve it may
\* be lost.
RunsInForeground(p) == /\ pc \in {"wait", "spin"} /\ p = cmd.pid
                       /\ fgpid(jobs) = p /\ child[p] = "running"

CtrlZStopsForeground ==
    ("TSTP" \in sigs /\ \E p \in Pids : RunsInForeground(p))
        ~> (~(\E p \in Pids : RunsInForeground(p)) \/ Storming)

\* ctrl-c is sent along to the foreground job and ends it (tsh.c:463-466).
CtrlCEndsForeground ==
    \A p \in Pids :
        Handling("INT") /\ fgpid(jobs) = p /\ child[p] = "running"
            ~> child[p] \in {"zombie", "reaped"} \/ ~Running

\* Whatever is typed, the shell does not stay in its handlers for ever.
HandlersReturn == []<>(~Running \/ Storming \/ (stack = <<>> /\ ~Deliverable("INT")))
=============================================================================
