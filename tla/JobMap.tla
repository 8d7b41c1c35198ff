------------------------------- MODULE JobMap -------------------------------
(***************************************************************************)
(* What the job list promises its callers: a partial map from process IDs  *)
(* to jobs, with room for MAXJOBS of them.  No slot, no scan order and no  *)
(* stale entry is visible.  JobList implements this (Shell_proofs).        *)
(***************************************************************************)
EXTENDS Integers

CONSTANTS MAXJOBS, Pids

VARIABLES job,      \* job[p]: job ID and state of the listed process p
          nextjid

mapVars == <<job, nextjid>>

MapInit == /\ job = [p \in {} |-> 0]
           /\ nextjid = 1

\* At most MAXJOBS processes: they can be numbered 1 .. MAXJOBS.
Fits(P) == \E number \in [P -> 1 .. MAXJOBS] :
              \A p, q \in P : number[p] = number[q] => p = q

MapAdd(p, s) ==
    /\ p \notin DOMAIN job
    /\ Fits(DOMAIN job \cup {p})
    /\ job' = [q \in DOMAIN job \cup {p} |->
                  IF q = p THEN [jid |-> nextjid, state |-> s] ELSE job[q]]
    /\ nextjid' = IF nextjid + 1 > MAXJOBS THEN 1 ELSE nextjid + 1

\* A deleted process is gone altogether, and no other job changes.  The next
\* job ID is the one after the largest that is left.
MapDelete(p) ==
    /\ p \in DOMAIN job
    /\ job' = [q \in DOMAIN job \ {p} |-> job[q]]
    /\ nextjid' - 1 \in {job[q].jid : q \in DOMAIN job \ {p}} \cup {0}
    /\ \A q \in DOMAIN job \ {p} : job[q].jid < nextjid'

MapSetState(p, s) ==
    /\ p \in DOMAIN job
    /\ job' = [job EXCEPT ![p].state = s]
    /\ UNCHANGED nextjid

MapNext == \/ \E p \in Pids, s \in {"FG", "BG"} : MapAdd(p, s)
           \/ \E p \in Pids : MapDelete(p)
           \/ \E p \in Pids, s \in {"FG", "BG", "ST"} : MapSetState(p, s)

MapSpec == MapInit /\ [][MapNext]_mapVars
=============================================================================
