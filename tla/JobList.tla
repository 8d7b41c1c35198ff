------------------------------ MODULE JobList ------------------------------
(***************************************************************************)
(* The job list of tsh (shlab-handout/tsh.c): an array of MAXJOBS slots    *)
(* and the counter nextjid from which job IDs are drawn.                   *)
(*                                                                         *)
(* The lookups are operators on a table, as the C helpers take the array   *)
(* as an argument; addjob, deletejob and the state writes done through a   *)
(* job pointer are actions on the variables jobs and nextjid.  The shell   *)
(* (module Shell) drives these actions; here they are driven by every      *)
(* caller that respects what the kernel guarantees about PIDs.             *)
(***************************************************************************)
EXTENDS Integers, FiniteSetsExt

CONSTANTS MAXJOBS,  \* slots in the job list
          Pids      \* the process IDs the kernel may hand out

ASSUME JobListAssumption == /\ MAXJOBS \in Nat \ {0}
                            /\ Pids \subseteq Nat \ {0}

VARIABLES jobs,     \* the array: a job record for every slot
          nextjid   \* next job ID to allocate

listVars == <<jobs, nextjid>>

UNDEF == "UNDEF"
FG    == "FG"
BG    == "BG"
ST    == "ST"
States == {UNDEF, FG, BG, ST}

Slots == 0 .. MAXJOBS - 1

Job == [pid : Pids \cup {0}, jid : Nat, state : States]

\* The contents clearjob gives a slot.  A slot is free when its pid is 0.
Cleared == [pid |-> 0, jid |-> 0, state |-> UNDEF]

-----------------------------------------------------------------------------
(* The linear scans: each returns the first slot that matches, NULL if     *)
(* none does.                                                              *)

NULL == -1

First(S) == IF S = {} THEN NULL ELSE Min(S)

\* Mutant: the scan of addjob stops one slot short of the end.
FreeSlots_ButLast(table) == {i \in Slots : table[i].pid = 0 /\ i < MAXJOBS - 1}

FreeSlots(table) == {i \in Slots : table[i].pid = 0}

getjobpid(table, pid) ==
    IF pid < 1 THEN NULL ELSE First({i \in Slots : table[i].pid = pid})

getjobjid(table, jid) ==
    IF jid < 1 THEN NULL ELSE First({i \in Slots : table[i].jid = jid})

pid2jid(table, pid) ==
    IF getjobpid(table, pid) = NULL THEN 0
    ELSE table[getjobpid(table, pid)].jid

\* Mutant: any listed job passes for the foreground job.
fgpid_AnyJob(table) ==
    LET i == First({s \in Slots : table[s].state # UNDEF})
    IN  IF i = NULL THEN 0 ELSE table[i].pid

fgpid(table) ==
    LET i == First({s \in Slots : table[s].state = FG})
    IN  IF i = NULL THEN 0 ELSE table[i].pid

maxjid(table) == Max({table[i].jid : i \in Slots} \cup {0})

\* The PIDs of the jobs in the list.
Tracked(table) == {table[i].pid : i \in Slots} \ {0}

-----------------------------------------------------------------------------
(* The operations that write the list.                                     *)

initjobs == /\ jobs = [i \in Slots |-> Cleared]
            /\ nextjid = 1

\* Take the first free slot and the next job ID.
Insert(pid, state) ==
    LET i == Min(FreeSlots(jobs))
    IN  /\ jobs' = [jobs EXCEPT ![i] = [pid   |-> pid,
                                        jid   |-> nextjid,
                                        state |-> state]]
        /\ nextjid' = IF nextjid + 1 > MAXJOBS THEN 1 ELSE nextjid + 1

\* A failed fork (pid -1) is not recorded; nor is a job that finds no room.
addjob(pid, state) ==
    \/ /\ pid >= 1 /\ FreeSlots(jobs) # {}
       /\ Insert(pid, state)
    \/ /\ pid < 1 \/ FreeSlots(jobs) = {}
       /\ UNCHANGED listVars

\* Mutant: nextjid restarts at the largest job ID itself.
Remove_SameJid(pid) ==
    LET cleared == [jobs EXCEPT ![getjobpid(jobs, pid)] = Cleared]
    IN  jobs' = cleared /\ nextjid' = maxjid(cleared)

\* Mutant: the slot keeps its job ID.
Remove_KeepJid(pid) ==
    LET cleared == [jobs EXCEPT ![getjobpid(jobs, pid)] =
                       [Cleared EXCEPT !.jid = jobs[getjobpid(jobs, pid)].jid]]
    IN  jobs' = cleared /\ nextjid' = maxjid(cleared) + 1

\* Mutant: the largest job ID is looked up before the slot is cleared.
Remove_MaxFirst(pid) ==
    /\ jobs' = [jobs EXCEPT ![getjobpid(jobs, pid)] = Cleared]
    /\ nextjid' = maxjid(jobs) + 1

Remove(pid) ==
    LET cleared == [jobs EXCEPT ![getjobpid(jobs, pid)] = Cleared]
    IN  /\ jobs' = cleared
        /\ nextjid' = maxjid(cleared) + 1

deletejob(pid) ==
    \/ /\ getjobpid(jobs, pid) # NULL
       /\ Remove(pid)
    \/ /\ getjobpid(jobs, pid) = NULL
       /\ UNCHANGED listVars

\* job->state = s through a pointer looked up earlier; the slot may have
\* been cleared since (do_bgfg keeps its pointer across signal handlers).
setstate(i, s) == /\ jobs' = [jobs EXCEPT ![i].state = s]
                  /\ UNCHANGED nextjid

-----------------------------------------------------------------------------
(* The list under every caller: a new job has a PID that no listed job has *)
(* (the kernel does not reuse the PID of an unreaped child).               *)

Add == \E pid \in Pids \cup {-1}, state \in {FG, BG} :
          pid \notin Tracked(jobs) /\ addjob(pid, state)

Delete == \E pid \in Pids : deletejob(pid)

SetState == \E i \in Slots, s \in {FG, BG, ST} : setstate(i, s)

ListNext == Add \/ Delete \/ SetState

ListSpec == initjobs /\ [][ListNext]_listVars

-----------------------------------------------------------------------------
(* The list as JobMap sees it: the listed jobs by PID.                     *)

JobOf(table) == [p \in Tracked(table) |->
                    LET i == getjobpid(table, p)
                    IN  [jid |-> table[i].jid, state |-> table[i].state]]

Map == INSTANCE JobMap WITH job <- JobOf(jobs)

\* The list behaves as a bounded map from PIDs to jobs.
ImplementsJobMap == Map!MapSpec

-----------------------------------------------------------------------------
(* Properties.                                                             *)

\* Every slot holds a job record and the counter is a positive number
\* (tsh.c:51-57).
ListTypeOK == /\ jobs \in [Slots -> Job]
              /\ nextjid \in Nat \ {0}

\* No PID is in two slots.  getjobpid, deletejob and pid2jid all stop at the
\* first match, so a second entry would survive its process.
PidUnique ==
    \A i, k \in Slots : jobs[i].pid = jobs[k].pid /\ jobs[i].pid # 0 => i = k

\* A slot has a job ID exactly while it is in use: maxjid, which does not
\* look at pid, never counts a dead job, and getjobjid never finds one.
JidIffUsed == \A i \in Slots : jobs[i].jid = 0 <=> jobs[i].pid = 0

\* What every scan of the list relies on (tsh.c:617-682): the first match is
\* the only one, and a slot is free by its PID exactly if it is by its job ID.
ListConsistent == PidUnique /\ JidIffUsed

=============================================================================
