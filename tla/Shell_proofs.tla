---------------------------- MODULE Shell_proofs ----------------------------
(***************************************************************************)
(* Proofs about the job list and about the shell, for every size of the    *)
(* list, every set of PIDs and any number of signals.                      *)
(*                                                                         *)
(* The job list comes first.  ListInv is inductive; three lemmas say what  *)
(* addjob, deletejob and a state write do to it and to the set of listed   *)
(* PIDs, so that what follows never looks into the array.                  *)
(*                                                                         *)
(* Then the interleavings of the main program, its handlers and the        *)
(* children.  Four invariants, each inductive relative to those before:    *)
(* ShellInv and ChildInv of every shell, FgInv of one without fg, StopInv  *)
(* of one in which moreover no program stops itself.                       *)
(***************************************************************************)
EXTENDS Shell, SetFacts

-----------------------------------------------------------------------------
(* The scans.                                                              *)

\* A scan of the slots yields a slot that matches, or NULL, which is none.
LEMMA FirstFacts ==
  ASSUME NEW S \in SUBSET Slots
  PROVE  /\ S = {} => First(S) = NULL
         /\ S # {} => First(S) \in S
         /\ NULL \notin Slots
         /\ IsFiniteSet(S)
<1>1. IsFiniteSet(Slots) /\ Slots \subseteq Nat
  BY FS_Interval, JobListAssumption DEF Slots
<1>2. IsFiniteSet(S)
  BY <1>1, FS_Subset
<1>3. S # {} => Min(S) \in S
  BY <1>1, <1>2, MinFacts
<1>4. NULL \notin Slots
  BY <1>1 DEF NULL
<1> QED
  BY <1>2, <1>3, <1>4 DEF First

\* getjobpid yields a slot that holds the PID, and NULL only if none does.
LEMMA GetjobpidFacts ==
  ASSUME NEW table \in [Slots -> Job], NEW pid \in Int
  PROVE  \/ /\ getjobpid(table, pid) = NULL
            /\ pid >= 1 => \A i \in Slots : table[i].pid # pid
         \/ /\ getjobpid(table, pid) \in Slots
            /\ pid >= 1
            /\ table[getjobpid(table, pid)].pid = pid
<1> DEFINE S == {i \in Slots : table[i].pid = pid}
<1>1. S \in SUBSET Slots
  OBVIOUS
<1>2. /\ S = {} => First(S) = NULL
      /\ S # {} => First(S) \in S
  BY <1>1, FirstFacts
<1>3. pid >= 1 => getjobpid(table, pid) = First(S)
  BY DEF getjobpid
<1>4. pid < 1 => getjobpid(table, pid) = NULL
  BY DEF getjobpid
<1> QED
  BY <1>2, <1>3, <1>4

\* maxjid is the largest job ID in the list, or 0.
LEMMA MaxjidFacts ==
  ASSUME NEW table \in [Slots -> Job]
  PROVE  /\ maxjid(table) \in Nat
         /\ maxjid(table) \in {table[i].jid : i \in Slots} \cup {0}
         /\ \A j \in {table[i].jid : i \in Slots} \cup {0} : j <= maxjid(table)
<1> DEFINE J == {table[i].jid : i \in Slots}
           f == [i \in Slots |-> table[i].jid]
<1>1. IsFiniteSet(Slots)
  BY FirstFacts
<1>2. f \in Surjection(Slots, J)
  BY DEF Surjection
<1>3. IsFiniteSet(J \cup {0})
  BY <1>1, <1>2, FS_Surjection, FS_AddElement
<1>4. J \cup {0} \subseteq Nat
  BY DEF Job
<1> QED
  BY <1>3, <1>4, MaxFacts DEF maxjid

-----------------------------------------------------------------------------
(* The operations.                                                         *)

ListInv == ListTypeOK /\ PidUnique /\ JidIffUsed

LEMMA InitListInv == initjobs => ListInv /\ Tracked(jobs) = {}
<1> SUFFICES ASSUME initjobs PROVE ListInv /\ Tracked(jobs) = {}
  OBVIOUS
<1>1. jobs = [i \in Slots |-> Cleared] /\ nextjid = 1
  BY DEF initjobs
<1>2. Cleared \in Job
  BY DEF Cleared, Job, States, UNDEF
<1>3. ListTypeOK
  BY <1>1, <1>2 DEF ListTypeOK
<1> QED
  BY <1>1, <1>3 DEF ListInv, PidUnique, JidIffUsed, Cleared, Tracked

\* addjob of a PID that is not listed lists nothing else.
LEMMA AddLemma ==
  ASSUME ListInv, NEW pid \in Pids \cup {-1}, NEW state \in {FG, BG},
         pid \notin Tracked(jobs), addjob(pid, state)
  PROVE  ListInv' /\ Tracked(jobs') \subseteq Tracked(jobs) \cup ({pid} \cap Pids)
<1>1. CASE pid >= 1 /\ FreeSlots(jobs) # {} /\ Insert(pid, state)
  <2> DEFINE i == Min(FreeSlots(jobs))
             new == [pid |-> pid, jid |-> nextjid, state |-> state]
  <2>1. i \in Slots /\ jobs[i].pid = 0
    <3>1. FreeSlots(jobs) \in SUBSET Slots
      BY DEF FreeSlots
    <3>2. i \in FreeSlots(jobs)
      BY <1>1, <3>1, FirstFacts DEF First
    <3> QED BY <3>2 DEF FreeSlots
  <2>2. pid \in Pids /\ pid \in Nat /\ pid # 0
    BY <1>1, JobListAssumption
  <2>3. new \in Job /\ nextjid \in Nat \ {0}
    BY <2>2 DEF ListInv, ListTypeOK, Job, States
  <2>4. jobs' = [jobs EXCEPT ![i] = new]
    BY <1>1 DEF Insert
  <2>5. ListTypeOK'
    <3>1. nextjid' \in Nat \ {0}
      BY <1>1, <2>3, JobListAssumption DEF Insert
    <3>2. jobs' \in [Slots -> Job]
      BY <2>1, <2>3, <2>4 DEF ListInv, ListTypeOK
    <3> QED BY <3>1, <3>2 DEF ListTypeOK
  <2>6. \A k \in Slots : jobs'[k] = IF k = i THEN new ELSE jobs[k]
    BY <2>1, <2>4 DEF ListInv, ListTypeOK
  <2>7. \A k \in Slots : jobs[k].pid # pid
    BY <2>2 DEF Tracked
  <2>8. PidUnique'
    BY <2>6, <2>7 DEF ListInv, PidUnique
  <2>9. JidIffUsed'
    BY <2>2, <2>3, <2>6 DEF ListInv, JidIffUsed
  <2>10. Tracked(jobs') \subseteq Tracked(jobs) \cup {pid}
    BY <2>6 DEF Tracked
  <2> QED
    BY <2>2, <2>5, <2>8, <2>9, <2>10 DEF ListInv
<1>2. CASE UNCHANGED listVars
  BY <1>2 DEF listVars, ListInv, ListTypeOK, PidUnique, JidIffUsed, Tracked
<1> QED
  BY <1>1, <1>2 DEF addjob

\* deletejob leaves every job but that of the PID.
LEMMA DeleteLemma ==
  ASSUME ListInv, NEW pid \in Pids, deletejob(pid)
  PROVE  ListInv' /\ Tracked(jobs') = Tracked(jobs) \ {pid}
<1> DEFINE i == getjobpid(jobs, pid)
<1>0. pid \in Nat /\ pid >= 1 /\ jobs \in [Slots -> Job]
  BY JobListAssumption DEF ListInv, ListTypeOK
<1>1. CASE i # NULL /\ Remove(pid)
  <2>1. i \in Slots /\ jobs[i].pid = pid
    BY <1>0, <1>1, GetjobpidFacts
  <2>2. jobs' = [jobs EXCEPT ![i] = Cleared] /\ nextjid' = maxjid(jobs') + 1
    BY <1>1 DEF Remove
  <2>3. \A k \in Slots : jobs'[k] = IF k = i THEN Cleared ELSE jobs[k]
    BY <1>0, <2>1, <2>2
  <2>4. jobs' \in [Slots -> Job]
    BY <1>0, <2>2 DEF Cleared, Job, States, UNDEF
  <2>5. ListTypeOK'
    <3>1. maxjid(jobs') \in Nat
      BY <2>4, MaxjidFacts
    <3> QED BY <2>2, <2>4, <3>1 DEF ListTypeOK
  <2>6. PidUnique'
    BY <2>3 DEF ListInv, PidUnique, Cleared
  <2>7. JidIffUsed'
    BY <2>3 DEF ListInv, JidIffUsed, Cleared
  <2>8. \A k \in Slots : k # i => jobs[k].pid # pid
    BY <1>0, <2>1 DEF ListInv, PidUnique
  <2>9. Tracked(jobs') = Tracked(jobs) \ {pid}
    BY <1>0, <2>1, <2>3, <2>8 DEF Tracked, Cleared
  <2> QED
    BY <2>5, <2>6, <2>7, <2>9 DEF ListInv
<1>2. CASE i = NULL /\ UNCHANGED listVars
  <2>1. NULL \notin Slots
    BY FirstFacts
  <2>2. pid \notin Tracked(jobs)
    BY <1>0, <1>2, <2>1, GetjobpidFacts DEF Tracked
  <2> QED
    BY <1>2, <2>2 DEF listVars, ListInv, ListTypeOK, PidUnique, JidIffUsed, Tracked
<1> QED
  BY <1>1, <1>2 DEF deletejob

\* A write of a job's state lists and forgets nothing.
LEMMA SetstateLemma ==
  ASSUME ListInv, NEW i \in Slots, NEW s \in States, setstate(i, s)
  PROVE  ListInv' /\ Tracked(jobs') = Tracked(jobs)
<1>1. jobs \in [Slots -> Job] /\ nextjid \in Nat \ {0}
  BY DEF ListInv, ListTypeOK
<1>2. jobs' = [jobs EXCEPT ![i].state = s] /\ nextjid' = nextjid
  BY DEF setstate
<1>3. jobs' \in [Slots -> Job]
  BY <1>1, <1>2 DEF Job
<1>4. \A k \in Slots : jobs'[k].pid = jobs[k].pid /\ jobs'[k].jid = jobs[k].jid
  BY <1>1, <1>2 DEF Job
<1>5. ListTypeOK'
  BY <1>1, <1>2, <1>3 DEF ListTypeOK
<1>6. PidUnique' /\ JidIffUsed'
  BY <1>4 DEF ListInv, PidUnique, JidIffUsed
<1>7. Tracked(jobs') = Tracked(jobs)
  BY <1>4 DEF Tracked
<1> QED
  BY <1>5, <1>6, <1>7 DEF ListInv

-----------------------------------------------------------------------------
(* The theorems.                                                           *)

\* Whatever its callers do, the list keeps its type, holds no PID twice and
\* gives job IDs to the slots in use and to no others.
THEOREM ListInvariant == ListSpec => []ListInv
<1>1. initjobs => ListInv
  BY InitListInv
<1>2. ListInv /\ [ListNext]_listVars => ListInv'
  <2> SUFFICES ASSUME ListInv, [ListNext]_listVars PROVE ListInv'
    OBVIOUS
  <2>1. CASE Add
    BY <2>1, AddLemma DEF Add
  <2>2. CASE Delete
    BY <2>2, DeleteLemma DEF Delete
  <2>3. CASE SetState
    BY <2>3, SetstateLemma DEF SetState, States
  <2>4. CASE UNCHANGED listVars
    BY <2>4 DEF listVars, ListInv, ListTypeOK, PidUnique, JidIffUsed
  <2> QED
    BY <2>1, <2>2, <2>3, <2>4 DEF ListNext
<1> QED
  BY <1>1, <1>2, PTL DEF ListSpec

\* Every slot holds a job record and nextjid is positive.
THEOREM ListTypeCorrect == ListSpec => []ListTypeOK
<1>1. ListInv => ListTypeOK
  BY DEF ListInv
<1> QED
  BY <1>1, ListInvariant, PTL

\* No PID is ever in two slots; dead slots have no job ID, used slots have one.
THEOREM ListIsConsistent == ListSpec => []ListConsistent
<1>1. ListInv => ListConsistent
  BY DEF ListInv, ListConsistent
<1> QED
  BY <1>1, ListInvariant, PTL

-----------------------------------------------------------------------------
(* Refinement of JobMap.                                                   *)

\* What the map of a list without duplicate PIDs looks like.
LEMMA JobOfFacts ==
  ASSUME NEW table \in [Slots -> Job],
         \A i, k \in Slots :
            table[i].pid = table[k].pid /\ table[i].pid # 0 => i = k
  PROVE  /\ DOMAIN JobOf(table) = Tracked(table)
         /\ \A i \in Slots : table[i].pid # 0 =>
               /\ table[i].pid \in Tracked(table)
               /\ JobOf(table)[table[i].pid] =
                     [jid |-> table[i].jid, state |-> table[i].state]
         /\ \A p \in Tracked(table) :
               p \in Pids /\ \E i \in Slots : table[i].pid = p
<1>1. DOMAIN JobOf(table) = Tracked(table)
  BY DEF JobOf
<1>2. \A p \in Tracked(table) :
         p \in Pids /\ \E i \in Slots : table[i].pid = p
  BY DEF Tracked, Job
<1>3. ASSUME NEW i \in Slots, table[i].pid # 0
      PROVE  /\ table[i].pid \in Tracked(table)
             /\ JobOf(table)[table[i].pid] =
                   [jid |-> table[i].jid, state |-> table[i].state]
  <2> DEFINE p == table[i].pid
  <2>1. p \in Tracked(table)
    BY <1>3 DEF Tracked
  <2>2. p \in Int /\ p >= 1
    <3> HIDE DEF p
    <3>1. p \in Pids
      BY <1>2, <2>1
    <3> QED BY <3>1, JobListAssumption
  <2>3. getjobpid(table, p) = i
    <3>1. getjobpid(table, p) \in Slots /\ table[getjobpid(table, p)].pid = p
      <4> HIDE DEF p
      <4>1. \E k \in Slots : table[k].pid = p
        BY <1>2, <2>1
      <4> QED BY <2>2, <4>1, GetjobpidFacts
    <3> QED BY <3>1, <1>3
  <2> QED
    BY <2>1, <2>3 DEF JobOf
<1> QED
  BY <1>1, <1>2, <1>3

\* The processes of a list can be numbered, each by its slot.
LEMMA ListFits ==
  ASSUME NEW table \in [Slots -> Job],
         \A i, k \in Slots :
            table[i].pid = table[k].pid /\ table[i].pid # 0 => i = k
  PROVE  Map!Fits(Tracked(table))
<1> DEFINE P == Tracked(table)
           number == [p \in P |-> getjobpid(table, p) + 1]
<1>1. ASSUME NEW p \in P
      PROVE  /\ getjobpid(table, p) \in Slots
             /\ table[getjobpid(table, p)].pid = p
  <2>1. p \in Pids /\ \E i \in Slots : table[i].pid = p
    BY DEF Tracked, Job
  <2>2. p \in Int /\ p >= 1
    BY <2>1, JobListAssumption
  <2> QED BY <2>1, <2>2, GetjobpidFacts
<1>2. number \in [P -> 1 .. MAXJOBS]
  BY <1>1, JobListAssumption DEF Slots
<1>3. ASSUME NEW p \in P, NEW q \in P, number[p] = number[q]
      PROVE  p = q
  <2>1. getjobpid(table, p) = getjobpid(table, q)
    BY <1>1, <1>3 DEF Slots
  <2> QED BY <1>1, <2>1
<1> QED
  BY <1>2, <1>3 DEF Map!Fits

LEMMA AddImplementsMap ==
  ASSUME ListInv, NEW pid \in Pids \cup {-1}, NEW state \in {FG, BG},
         pid \notin Tracked(jobs), addjob(pid, state)
  PROVE  [Map!MapNext]_<<JobOf(jobs), nextjid>>
<1>1. CASE pid >= 1 /\ FreeSlots(jobs) # {} /\ Insert(pid, state)
  <2> DEFINE i == Min(FreeSlots(jobs))
             new == [pid |-> pid, jid |-> nextjid, state |-> state]
  <2>1. i \in Slots /\ jobs[i].pid = 0
    <3>1. FreeSlots(jobs) \in SUBSET Slots
      BY DEF FreeSlots
    <3>2. i \in FreeSlots(jobs)
      BY <1>1, <3>1, FirstFacts DEF First
    <3> QED BY <3>2 DEF FreeSlots
  <2>2. pid \in Pids /\ pid # 0
    BY <1>1, JobListAssumption
  <2>3. \A k \in Slots : jobs'[k] = IF k = i THEN new ELSE jobs[k]
    BY <1>1, <2>1 DEF Insert, ListInv, ListTypeOK
  <2>4. /\ jobs \in [Slots -> Job] /\ PidUnique
        /\ jobs' \in [Slots -> Job] /\ PidUnique'
    BY AddLemma DEF ListInv, ListTypeOK
  <2>5. Tracked(jobs') = Tracked(jobs) \cup {pid}
    BY <2>1, <2>2, <2>3 DEF Tracked
  <2> HIDE DEF i
  <2>6. JobOf(jobs') = [q \in Tracked(jobs) \cup {pid} |->
             IF q = pid THEN [jid |-> nextjid, state |-> state] ELSE JobOf(jobs)[q]]
    <3>1. DOMAIN JobOf(jobs') = Tracked(jobs) \cup {pid}
      BY <2>4, <2>5, JobOfFacts DEF PidUnique
    <3>2. JobOf(jobs')[pid] = [jid |-> nextjid, state |-> state]
      <4>1. jobs'[i].pid = pid /\ jobs'[i].jid = nextjid /\ jobs'[i].state = state
        BY <2>1, <2>3
      <4> QED BY <2>1, <2>2, <2>4, <4>1, JobOfFacts DEF PidUnique
    <3>3. ASSUME NEW q \in Tracked(jobs)
          PROVE  q # pid /\ JobOf(jobs')[q] = JobOf(jobs)[q]
      <4>1. PICK k \in Slots : jobs[k].pid = q /\ q # 0
        BY DEF Tracked
      <4>2. k # i /\ jobs'[k] = jobs[k]
        BY <2>1, <2>3, <4>1
      <4>3. JobOf(jobs)[q] = [jid |-> jobs[k].jid, state |-> jobs[k].state]
        BY <2>4, <4>1, JobOfFacts DEF PidUnique
      <4>4. JobOf(jobs')[q] = [jid |-> jobs[k].jid, state |-> jobs[k].state]
        <5>1. jobs'[k].pid = q
          BY <4>1, <4>2
        <5> QED BY <2>4, <4>1, <4>2, <5>1, JobOfFacts DEF PidUnique
      <4> QED BY <4>3, <4>4
    <3>4. JobOf(jobs') = [q \in DOMAIN JobOf(jobs') |-> JobOf(jobs')[q]]
      BY DEF JobOf
    <3> QED BY <3>1, <3>2, <3>3, <3>4
  <2>7. DOMAIN JobOf(jobs) = Tracked(jobs)
    BY DEF JobOf
  <2>8. Map!Fits(Tracked(jobs) \cup {pid})
    BY <2>4, <2>5, ListFits DEF PidUnique
  <2>9. nextjid' = IF nextjid + 1 > MAXJOBS THEN 1 ELSE nextjid + 1
    BY <1>1 DEF Insert
  <2>10. Map!MapAdd(pid, state)
    BY <2>6, <2>7, <2>8, <2>9 DEF Map!MapAdd
  <2> QED
    BY <2>2, <2>10 DEF Map!MapNext, FG, BG
<1>2. CASE UNCHANGED listVars
  BY <1>2 DEF listVars
<1> QED
  BY <1>1, <1>2 DEF addjob

LEMMA DeleteImplementsMap ==
  ASSUME ListInv, NEW pid \in Pids, deletejob(pid)
  PROVE  [Map!MapNext]_<<JobOf(jobs), nextjid>>
<1> DEFINE i == getjobpid(jobs, pid)
           R == Tracked(jobs) \ {pid}
<1>0. /\ pid \in Nat /\ pid >= 1
      /\ jobs \in [Slots -> Job] /\ PidUnique /\ JidIffUsed
      /\ jobs' \in [Slots -> Job] /\ PidUnique' /\ Tracked(jobs') = R
  BY JobListAssumption, DeleteLemma DEF ListInv, ListTypeOK
<1>1. CASE i # NULL /\ Remove(pid)
  <2>1. i \in Slots /\ jobs[i].pid = pid
    BY <1>0, <1>1, GetjobpidFacts
  <2>2. jobs' = [jobs EXCEPT ![i] = Cleared] /\ nextjid' = maxjid(jobs') + 1
    BY <1>1 DEF Remove
  <2> HIDE DEF i
  <2>3. \A k \in Slots : jobs'[k] = IF k = i THEN Cleared ELSE jobs[k]
    BY <1>0, <2>1, <2>2
  <2>4. /\ DOMAIN JobOf(jobs) = Tracked(jobs) /\ pid \in Tracked(jobs)
        /\ DOMAIN JobOf(jobs') = R
    <3>1. pid \in Tracked(jobs)
      BY <1>0, <2>1 DEF Tracked
    <3> QED BY <1>0, <3>1, JobOfFacts DEF PidUnique
  <2>5. ASSUME NEW q \in R
        PROVE  \E k \in Slots : /\ jobs'[k] = jobs[k] /\ jobs[k].pid = q
                                /\ JobOf(jobs)[q].jid = jobs[k].jid
                                /\ JobOf(jobs')[q] = JobOf(jobs)[q]
    <3>1. PICK k \in Slots : jobs[k].pid = q /\ q # 0 /\ q # pid
      BY DEF Tracked
    <3>2. k # i /\ jobs'[k] = jobs[k] /\ jobs'[k].pid = q
      BY <2>1, <2>3, <3>1
    <3>3. JobOf(jobs)[q] = [jid |-> jobs[k].jid, state |-> jobs[k].state]
      BY <1>0, <3>1, JobOfFacts DEF PidUnique
    <3>4. JobOf(jobs')[q] = [jid |-> jobs[k].jid, state |-> jobs[k].state]
      BY <1>0, <3>1, <3>2, JobOfFacts DEF PidUnique
    <3> QED BY <3>1, <3>2, <3>3, <3>4
  <2>6. JobOf(jobs') = [q \in R |-> JobOf(jobs)[q]]
    <3>1. JobOf(jobs') = [q \in DOMAIN JobOf(jobs') |-> JobOf(jobs')[q]]
      BY DEF JobOf
    <3> QED BY <2>4, <2>5, <3>1
  <2>7. {jobs'[k].jid : k \in Slots} \cup {0}
          = {JobOf(jobs)[q].jid : q \in R} \cup {0}
    <3>1. ASSUME NEW k \in Slots, jobs'[k].jid # 0
          PROVE  jobs'[k].jid \in {JobOf(jobs)[q].jid : q \in R}
      <4>1. k # i /\ jobs'[k] = jobs[k]
        BY <2>3, <3>1 DEF Cleared
      <4>2. jobs[k].pid # 0 /\ jobs[k].pid # pid
        BY <1>0, <2>1, <3>1, <4>1 DEF JidIffUsed, PidUnique
      <4>3. jobs[k].pid \in R
        BY <4>2 DEF Tracked
      <4>4. JobOf(jobs)[jobs[k].pid] = [jid |-> jobs[k].jid, state |-> jobs[k].state]
        BY <1>0, <4>2, JobOfFacts DEF PidUnique
      <4> QED BY <4>1, <4>3, <4>4
    <3>2. ASSUME NEW q \in R
          PROVE  JobOf(jobs)[q].jid \in {jobs'[k].jid : k \in Slots}
      BY <2>5
    <3> QED BY <3>1, <3>2
  <2>8. /\ maxjid(jobs') \in {JobOf(jobs)[q].jid : q \in R} \cup {0}
        /\ \A q \in R : JobOf(jobs)[q].jid <= maxjid(jobs')
        /\ maxjid(jobs') \in Nat
    BY <1>0, <2>7, MaxjidFacts
  <2>9. \A q \in R : JobOf(jobs)[q].jid \in Nat
    BY <1>0, <2>5 DEF Job
  <2>10. Map!MapDelete(pid)
    <3>1. nextjid' - 1 = maxjid(jobs')
      BY <2>2, <2>8
    <3>2. ASSUME NEW q \in R
          PROVE  JobOf(jobs)[q].jid < nextjid'
      <4>1. JobOf(jobs)[q].jid <= maxjid(jobs')
        BY <2>8
      <4>2. JobOf(jobs)[q].jid \in Nat
        BY <2>9
      <4> HIDE DEF R
      <4> QED BY <2>2, <2>8, <4>1, <4>2
    <3> QED BY <2>4, <2>6, <2>8, <3>1, <3>2 DEF Map!MapDelete
  <2> QED
    BY <2>10 DEF Map!MapNext
<1>2. CASE i = NULL /\ UNCHANGED listVars
  BY <1>2 DEF listVars
<1> QED
  BY <1>1, <1>2 DEF deletejob

LEMMA SetstateImplementsMap ==
  ASSUME ListInv, NEW i \in Slots, NEW s \in {FG, BG, ST}, setstate(i, s)
  PROVE  [Map!MapNext]_<<JobOf(jobs), nextjid>>
<1> DEFINE p == jobs[i].pid
<1>1. /\ jobs \in [Slots -> Job] /\ PidUnique
      /\ jobs' \in [Slots -> Job] /\ PidUnique' /\ Tracked(jobs') = Tracked(jobs)
  BY SetstateLemma DEF ListInv, ListTypeOK, States
<1>2. /\ \A k \in Slots : /\ jobs'[k].pid = jobs[k].pid
                          /\ jobs'[k].jid = jobs[k].jid
                          /\ jobs'[k].state = IF k = i THEN s ELSE jobs[k].state
      /\ nextjid' = nextjid
  BY <1>1 DEF setstate, Job
<1>3. ASSUME NEW q \in Tracked(jobs)
      PROVE  JobOf(jobs')[q] = IF q = p THEN [JobOf(jobs)[q] EXCEPT !.state = s]
                                        ELSE JobOf(jobs)[q]
  <2>1. PICK k \in Slots : jobs[k].pid = q /\ q # 0
    BY DEF Tracked
  <2>2. JobOf(jobs)[q] = [jid |-> jobs[k].jid, state |-> jobs[k].state]
    BY <1>1, <2>1, JobOfFacts DEF PidUnique
  <2>3. JobOf(jobs')[q] = [jid |-> jobs'[k].jid, state |-> jobs'[k].state]
    BY <1>1, <1>2, <2>1, JobOfFacts DEF PidUnique
  <2>4. q = p <=> k = i
    BY <1>1, <2>1 DEF PidUnique
  <2> QED BY <1>2, <2>2, <2>3, <2>4
<1>4. /\ DOMAIN JobOf(jobs) = Tracked(jobs)
      /\ JobOf(jobs) = [q \in Tracked(jobs) |-> JobOf(jobs)[q]]
      /\ JobOf(jobs') = [q \in Tracked(jobs) |-> JobOf(jobs')[q]]
  BY <1>1 DEF JobOf
<1>5. CASE p \in Tracked(jobs)
  <2>1. JobOf(jobs') = [JobOf(jobs) EXCEPT ![p].state = s]
    BY <1>3, <1>4, <1>5
  <2>2. Map!MapSetState(p, s) /\ p \in Pids
    BY <1>1, <1>2, <1>4, <1>5, <2>1, JobOfFacts DEF Map!MapSetState, PidUnique
  <2> QED BY <2>2 DEF Map!MapNext, FG, BG, ST
<1>6. CASE p \notin Tracked(jobs)
  <2>1. JobOf(jobs') = JobOf(jobs)
    BY <1>3, <1>4, <1>6
  <2> QED BY <1>2, <2>1
<1> QED
  BY <1>5, <1>6

\* The array with its linear scans, free slots and stale pointers behaves as a
\* map from PIDs to jobs that holds at most MAXJOBS of them.
THEOREM Refinement == ListSpec => ImplementsJobMap
<1>1. initjobs => Map!MapInit
  <2> SUFFICES ASSUME initjobs PROVE Map!MapInit
    OBVIOUS
  <2>1. JobOf(jobs) = [p \in {} |-> 0]
    BY InitListInv DEF JobOf
  <2> QED BY <2>1 DEF Map!MapInit, initjobs
<1>2. ListInv /\ [ListNext]_listVars => [Map!MapNext]_<<JobOf(jobs), nextjid>>
  <2> SUFFICES ASSUME ListInv, [ListNext]_listVars
               PROVE  [Map!MapNext]_<<JobOf(jobs), nextjid>>
    OBVIOUS
  <2>1. CASE Add
    BY <2>1, AddImplementsMap DEF Add
  <2>2. CASE Delete
    BY <2>2, DeleteImplementsMap DEF Delete
  <2>3. CASE SetState
    BY <2>3, SetstateImplementsMap DEF SetState
  <2>4. CASE UNCHANGED listVars
    BY <2>4 DEF listVars
  <2> QED
    BY <2>1, <2>2, <2>3, <2>4 DEF ListNext
<1>3. ListInv /\ [ListNext]_listVars => [Map!MapNext]_(Map!mapVars)
  BY <1>2 DEF Map!mapVars
<1> QED
  BY <1>1, <1>3, ListInvariant, PTL DEF ListSpec, ImplementsJobMap, Map!MapSpec

-----------------------------------------------------------------------------
(* The stack of handlers.                                                  *)

LEMMA GotoFacts ==
  ASSUME stack \in Seq(Frame), stack # <<>>,
         NEW at \in {"entry", "kill", "ended", "stopped"},
         NEW pid \in Pids \cup {0}, Goto(at, pid)
  PROVE  /\ stack' \in Seq(Frame) /\ DOMAIN stack' = DOMAIN stack
         /\ 1 \in DOMAIN stack
         /\ stack'[1] = [sig |-> stack[1].sig, at |-> at, pid |-> pid]
         /\ \A k \in DOMAIN stack : k # 1 => stack'[k] = stack[k]
<1>1. stack[1] \in Frame /\ Head(stack) = stack[1] /\ Len(stack) \in Nat \ {0}
  OBVIOUS
<1> DEFINE f == [sig |-> Head(stack).sig, at |-> at, pid |-> pid]
<1>2. f = [sig |-> stack[1].sig, at |-> at, pid |-> pid] /\ f \in Frame
  BY <1>1 DEF Frame
<1> HIDE DEF f
<1>3. stack' = <<f>> \o Tail(stack)
  BY DEF Goto, f
<1>4. /\ stack' \in Seq(Frame) /\ Len(stack') = Len(stack)
      /\ stack'[1] = f
      /\ \A k \in 1 .. Len(stack) : k # 1 => stack'[k] = stack[k]
  BY <1>1, <1>2, <1>3
<1> QED
  BY <1>1, <1>2, <1>4

LEMMA ReturnFacts ==
  ASSUME stack \in Seq(Frame), stack # <<>>, Return
  PROVE  /\ stack' \in Seq(Frame)
         /\ \A k \in DOMAIN stack' : k + 1 \in DOMAIN stack /\ stack'[k] = stack[k + 1]
         /\ \A k \in DOMAIN stack : k # 1 =>
               k - 1 \in DOMAIN stack' /\ stack'[k - 1] = stack[k]
  BY DEF Return

LEMMA PushFacts ==
  ASSUME stack \in Seq(Frame), NEW f \in Frame, stack' = <<f>> \o stack
  PROVE  /\ stack' \in Seq(Frame)
         /\ 1 \in DOMAIN stack' /\ stack'[1] = f
         /\ \A k \in DOMAIN stack' : k # 1 =>
               k - 1 \in DOMAIN stack /\ stack'[k] = stack[k - 1]
         /\ \A k \in DOMAIN stack :
               k + 1 \in DOMAIN stack' /\ stack'[k + 1] = stack[k]
  OBVIOUS

-----------------------------------------------------------------------------
(* The inductive invariant.                                                *)

\* While signals are blocked no handler is active.
BlockedAlone == Blocked => stack = <<>>

\* The process eval is about to add is a child that is not yet listed.
NewChild ==
    pc = "add" =>
        \/ cmd.pid = -1
        \/ /\ cmd.pid \in Pids /\ cmd.pid \notin Tracked(jobs)
           /\ child[cmd.pid] \notin {"none", "reaped"}

\* do_bgfg's job pointer points into the array.
SlotPointer == pc \in {"cont", "write"} => cmd.slot \in Slots

\* The SIGCHLD handler has the PID that waitpid returned.
FramePids == \A k \in DOMAIN stack :
                stack[k].at = "ended" => stack[k].pid \in Pids

ShellInv == /\ ListInv /\ TypeOK
            /\ NoStaleEntry
            /\ BlockedAlone /\ NewChild /\ SlotPointer /\ FramePids

LEMMA InitShellInv == Init => ShellInv
<1> SUFFICES ASSUME Init PROVE ShellInv
  OBVIOUS
<1>1. ListInv /\ Tracked(jobs) = {}
  BY InitListInv DEF Init
<1>2. TypeOK
  BY <1>1, ShellAssumption DEF Init, TypeOK, ListInv, PCs, Command, NoCommand, Signals,
              ChildStates, FG, BG
<1> QED
  BY <1>1, <1>2 DEF Init, ShellInv, NoStaleEntry, BlockedAlone, NewChild,
              SlotPointer, FramePids, Blocked

LEMMA ListUnchanged ==
  ASSUME ListInv, UNCHANGED listVars
  PROVE  ListInv' /\ Tracked(jobs') = Tracked(jobs)
BY DEF listVars, ListInv, ListTypeOK, PidUnique, JidIffUsed, Tracked

\* Steps that leave the list, the handlers and the children alone.
LEMMA LocalStep ==
  ASSUME ShellInv, UNCHANGED <<listVars, stack, kernelVars>>,
         pc' \in PCs, cmd' \in Command, sigs' \subseteq Signals,
         ints' \in 0 .. MaxInt, tstps' \in 0 .. MaxTstp,
         BlockedAlone', NewChild', SlotPointer'
  PROVE  ShellInv'
<1>1. ListInv' /\ Tracked(jobs') = Tracked(jobs)
  BY ListUnchanged DEF ShellInv
<1>2. TypeOK'
  BY <1>1 DEF ShellInv, TypeOK, ListInv, kernelVars
<1>3. NoStaleEntry' /\ FramePids'
  BY <1>1 DEF ShellInv, NoStaleEntry, Deleting, FramePids, kernelVars
<1> QED
  BY <1>1, <1>2, <1>3 DEF ShellInv

LEMMA TrackedPids ==
  ASSUME ListTypeOK
  PROVE  Tracked(jobs) \subseteq Pids
BY DEF ListTypeOK, Tracked, Job

LEMMA DoneFacts ==
  ASSUME DoneEvaluating
  PROVE  /\ pc' \in PCs /\ cmd' \in Command
         /\ BlockedAlone' /\ NewChild' /\ SlotPointer'
BY DEF DoneEvaluating, PCs, NoCommand, Command, BlockedAlone, NewChild,
       SlotPointer, Blocked

LEMMA FgpidType ==
  ASSUME NEW table \in [Slots -> Job]
  PROVE  fgpid(table) \in Pids \cup {0}
<1> DEFINE S == {s \in Slots : table[s].state = FG}
<1>1. First(S) = NULL \/ First(S) \in Slots
  BY FirstFacts
<1> QED
  BY <1>1 DEF fgpid, Job

\* A lookup by PID or by job ID yields a slot or NULL.
LEMMA LookupFacts ==
  ASSUME ListTypeOK,
         NEW i \in {getjobpid(jobs, p) : p \in Pids}
                   \cup {getjobjid(jobs, jobs[s].jid) : s \in Slots}
  PROVE  i \in Slots \cup {NULL}
<1>1. ASSUME NEW p \in Pids PROVE getjobpid(jobs, p) \in Slots \cup {NULL}
  BY FirstFacts DEF getjobpid
<1>2. ASSUME NEW j PROVE getjobjid(jobs, j) \in Slots \cup {NULL}
  BY FirstFacts DEF getjobjid
<1> QED
  BY <1>1, <1>2

LEMMA MainInv ==
  ASSUME ShellInv, MainStep
  PROVE  ShellInv'
<1> USE DEF Main, Undisturbed, Running, Ended
<1>1. ASSUME NEW mode \in {FG, BG}, EvalJob(mode) PROVE ShellInv'
  <2>1. cmd' \in Command /\ pc' = "fork" /\ stack' = <<>>
    BY <1>1 DEF EvalJob, NoCommand, Command
  <2> QED
    BY <1>1, <2>1, LocalStep DEF EvalJob, ShellInv, TypeOK, PCs, typedVars,
       BlockedAlone, NewChild, SlotPointer
<1>2. CASE EvalBlankLine
  BY <1>2, LocalStep DEF EvalBlankLine, ShellInv, TypeOK, PCs, typedVars,
     BlockedAlone, NewChild, SlotPointer, Blocked
<1>3. CASE Fork
  <2>1. PICK p \in Pids : /\ child[p] = "none"
                          /\ child' = [child EXCEPT ![p] = "forked"]
                          /\ inh' = [inh EXCEPT ![p] = fgpid(jobs)]
                          /\ cmd' = [cmd EXCEPT !.pid = p]
    BY <1>3 DEF Fork
  <2>2. ListInv' /\ Tracked(jobs') = Tracked(jobs)
    BY <1>3, ListUnchanged DEF Fork, ShellInv
  <2>3. stack = <<>> /\ stack' = <<>> /\ pc' = "add"
    BY <1>3 DEF Fork
  <2>4. cmd' \in Command /\ cmd'.pid = p
    BY <2>1 DEF ShellInv, TypeOK, Command
  <2>5. child' \in [Pids -> ChildStates] /\ inh' \in [Pids -> Pids \cup {0}]
    BY <2>1, FgpidType DEF ShellInv, TypeOK, ListTypeOK, ChildStates
  <2>6. TypeOK'
    BY <1>3, <2>2, <2>3, <2>4, <2>5 DEF Fork, ShellInv, TypeOK, ListInv, PCs, typedVars
  <2>7. p \notin Tracked(jobs)
    BY <2>1, <2>3 DEF ShellInv, NoStaleEntry, Deleting
  <2>8. NoStaleEntry' /\ NewChild'
    BY <2>1, <2>2, <2>3, <2>4, <2>7 DEF ShellInv, TypeOK, NoStaleEntry, Deleting, NewChild
  <2> QED
    BY <2>2, <2>3, <2>6, <2>8 DEF ShellInv, BlockedAlone, SlotPointer, FramePids
<1>4. CASE ForkFails
  <2>1. cmd' \in Command /\ cmd'.pid = -1 /\ pc' = "add" /\ stack' = <<>>
    BY <1>4 DEF ForkFails, ShellInv, TypeOK, Command
  <2> QED
    BY <1>4, <2>1, LocalStep DEF ForkFails, ShellInv, TypeOK, PCs, typedVars,
       BlockedAlone, NewChild, SlotPointer
<1>5. CASE EvalAdd
  <2>1. cmd.pid \in Pids \cup {-1} /\ cmd.mode \in {FG, BG}
    BY <1>5 DEF EvalAdd, ShellInv, TypeOK, Command, NewChild
  <2>2. -1 \notin Tracked(jobs)
    BY JobListAssumption DEF Tracked, ShellInv, TypeOK, ListTypeOK, Job
  <2>3. cmd.pid \notin Tracked(jobs)
    BY <1>5, <2>2 DEF EvalAdd, ShellInv, NewChild
  <2>4. ListInv' /\ Tracked(jobs') \subseteq Tracked(jobs) \cup ({cmd.pid} \cap Pids)
    BY <1>5, <2>1, <2>3, AddLemma DEF EvalAdd, ShellInv
  <2>5. TypeOK'
    BY <1>5, <2>4 DEF EvalAdd, ShellInv, TypeOK, ListInv, PCs, kernelVars, typedVars
  <2>6. cmd.pid \in Pids => child[cmd.pid] \notin {"none", "reaped"}
    BY <1>5, JobListAssumption DEF EvalAdd, ShellInv, NewChild
  <2>7. NoStaleEntry'
    BY <1>5, <2>4, <2>6 DEF EvalAdd, ShellInv, NoStaleEntry, Deleting, kernelVars
  <2> QED
    BY <1>5, <2>4, <2>5, <2>7 DEF EvalAdd, ShellInv, BlockedAlone, NewChild,
       SlotPointer, FramePids
<1>6. CASE EvalAnnounce
  BY <1>6, LocalStep, DoneFacts DEF EvalAnnounce, ShellInv, TypeOK, typedVars
<1>7. CASE WaitfgEnter
  <2>1. CASE DoneEvaluating
    BY <1>7, <2>1, LocalStep, DoneFacts DEF WaitfgEnter, ShellInv, TypeOK, typedVars
  <2>2. CASE pc' = "spin" /\ UNCHANGED cmd
    BY <1>7, <2>2, LocalStep DEF WaitfgEnter, ShellInv, TypeOK, PCs, typedVars,
       BlockedAlone, NewChild, SlotPointer, Blocked
  <2> QED BY <1>7, <2>1, <2>2 DEF WaitfgEnter
<1>8. CASE WaitfgLeave
  BY <1>8, LocalStep, DoneFacts DEF WaitfgLeave, ShellInv, TypeOK, typedVars
<1>9. ASSUME NEW name \in {"fg", "bg"}, NEW mode \in {FG, BG}, LookupJob(name, mode)
      PROVE  ShellInv'
  <2>1. PICK i \in {getjobpid(jobs, p) : p \in Pids}
                   \cup {getjobjid(jobs, jobs[s].jid) : s \in Slots} :
           i # NULL /\ cmd' = [mode |-> mode, pid |-> jobs[i].pid, slot |-> i]
    BY <1>9 DEF LookupJob
  <2>2. i \in Slots
    BY <2>1, LookupFacts DEF ShellInv, TypeOK
  <2>3. cmd' \in Command /\ cmd'.slot \in Slots
    BY <2>1, <2>2 DEF ShellInv, TypeOK, ListTypeOK, Job, Command
  <2> QED
    BY <1>9, <2>3, LocalStep DEF LookupJob, ShellInv, TypeOK, PCs, typedVars,
       BlockedAlone, NewChild, SlotPointer, Blocked
<1>10. CASE ContinueJob
  <2>1. ListInv' /\ Tracked(jobs') = Tracked(jobs)
    BY <1>10, ListUnchanged DEF ContinueJob, ShellInv
  <2>2. TypeOK'
    BY <1>10, <2>1 DEF ContinueJob, ShellInv, TypeOK, ListInv, PCs, typedVars,
       Signals, ChildStates
  <2>3. \A p \in Pids : child[p] \notin {"none", "reaped"} =>
                          child'[p] \notin {"none", "reaped"}
    BY <1>10 DEF ContinueJob, ShellInv, TypeOK
  <2>4. NoStaleEntry'
    BY <1>10, <2>1, <2>3, TrackedPids DEF ContinueJob, ShellInv, TypeOK,
       NoStaleEntry, Deleting
  <2> QED
    BY <1>10, <2>1, <2>2, <2>4 DEF ContinueJob, ShellInv, BlockedAlone,
       NewChild, SlotPointer, FramePids, Blocked
<1>11. CASE ForegroundJob
  <2>1. cmd.slot \in Slots
    BY <1>11 DEF ForegroundJob, ShellInv, SlotPointer
  <2>2. ListInv' /\ Tracked(jobs') = Tracked(jobs)
    BY <1>11, <2>1, SetstateLemma DEF ForegroundJob, ShellInv, States
  <2>3. cmd' \in Command
    BY <1>11, <2>1 DEF ForegroundJob, ShellInv, TypeOK, ListTypeOK, Job, Command
  <2> QED
    BY <1>11, <2>2, <2>3 DEF ForegroundJob, ShellInv, TypeOK, ListInv, PCs,
       NoStaleEntry, Deleting, BlockedAlone, NewChild, SlotPointer, FramePids,
       Blocked, kernelVars, typedVars
<1>12. CASE BackgroundJob
  <2>1. cmd.slot \in Slots
    BY <1>12 DEF BackgroundJob, ShellInv, SlotPointer
  <2>2. ListInv' /\ Tracked(jobs') = Tracked(jobs)
    BY <1>12, <2>1, SetstateLemma DEF BackgroundJob, ShellInv, States
  <2> QED
    BY <1>12, <2>2, DoneFacts DEF BackgroundJob, ShellInv, TypeOK, ListInv,
       NoStaleEntry, Deleting, FramePids, kernelVars, typedVars
<1> QED
  BY <1>1, <1>2, <1>3, <1>4, <1>5, <1>6, <1>7, <1>8, <1>9, <1>10, <1>11, <1>12
  DEF MainStep

\* Steps that leave the main program and the list alone, and collect no child.
LEMMA ChildStep ==
  ASSUME ShellInv, UNCHANGED <<listVars, mainVars, inh>>,
         child' \in [Pids -> ChildStates],
         \A p \in Pids : child[p] \notin {"none", "reaped"} =>
                         child'[p] \notin {"none", "reaped"},
         report' \subseteq Pids, sigs' \subseteq Signals,
         ints' \in 0 .. MaxInt, tstps' \in 0 .. MaxTstp,
         stack' \in Seq(Frame),
         BlockedAlone', FramePids',
         \A p \in Pids : Deleting(p) => Deleting(p)'
  PROVE  ShellInv'
<1>1. ListInv' /\ Tracked(jobs') = Tracked(jobs)
  BY ListUnchanged DEF ShellInv
<1>2. TypeOK'
  BY <1>1 DEF ShellInv, TypeOK, ListInv, mainVars
<1>3. NoStaleEntry'
  BY <1>1, TrackedPids DEF ShellInv, TypeOK, NoStaleEntry
<1>4. NewChild' /\ SlotPointer'
  BY <1>1 DEF ShellInv, NewChild, SlotPointer, mainVars
<1> QED
  BY <1>1, <1>2, <1>3, <1>4 DEF ShellInv

\* A handler that returns was not about to delete a job.
LEMMA ReturnStep ==
  ASSUME ShellInv, stack # <<>>, Return, UNCHANGED pc,
         Head(stack).at # "ended"
  PROVE  /\ stack' \in Seq(Frame) /\ BlockedAlone' /\ FramePids'
         /\ \A p \in Pids : Deleting(p) => Deleting(p)'
<1>1. stack \in Seq(Frame) /\ Head(stack) = stack[1]
  BY DEF ShellInv, TypeOK
<1>2. /\ stack' \in Seq(Frame)
      /\ \A k \in DOMAIN stack' : k + 1 \in DOMAIN stack /\ stack'[k] = stack[k + 1]
      /\ \A k \in DOMAIN stack : k # 1 =>
            k - 1 \in DOMAIN stack' /\ stack'[k - 1] = stack[k]
  BY <1>1, ReturnFacts
<1>3. BlockedAlone'
  BY DEF ShellInv, BlockedAlone, Blocked
<1>4. FramePids'
  BY <1>2 DEF ShellInv, FramePids
<1>5. ASSUME NEW p \in Pids, Deleting(p)
      PROVE  Deleting(p)'
  <2>1. PICK k \in DOMAIN stack : stack[k].at = "ended" /\ stack[k].pid = p
    BY <1>5 DEF Deleting
  <2>2. k # 1
    BY <1>1, <2>1
  <2>3. k - 1 \in DOMAIN stack' /\ stack'[k - 1] = stack[k]
    BY <1>2, <2>2
  <2> QED BY <2>1, <2>3 DEF Deleting
<1> QED
  BY <1>2, <1>3, <1>4, <1>5

\* A handler that goes on had no job to delete before.
LEMMA GotoStep ==
  ASSUME ShellInv, stack # <<>>, UNCHANGED pc, Head(stack).at # "ended",
         NEW at \in {"entry", "kill", "ended", "stopped"},
         NEW pid \in Pids \cup {0}, Goto(at, pid), at = "ended" => pid \in Pids
  PROVE  /\ stack' \in Seq(Frame) /\ BlockedAlone' /\ FramePids'
         /\ \A p \in Pids : Deleting(p) => Deleting(p)'
         /\ at = "ended" => Deleting(pid)'
<1>1. stack \in Seq(Frame) /\ Head(stack) = stack[1]
  BY DEF ShellInv, TypeOK
<1>2. /\ stack' \in Seq(Frame) /\ DOMAIN stack' = DOMAIN stack
      /\ 1 \in DOMAIN stack
      /\ stack'[1] = [sig |-> stack[1].sig, at |-> at, pid |-> pid]
      /\ \A k \in DOMAIN stack : k # 1 => stack'[k] = stack[k]
  BY <1>1, GotoFacts
<1>3. BlockedAlone'
  BY DEF ShellInv, BlockedAlone, Blocked
<1>4. FramePids'
  BY <1>2 DEF ShellInv, FramePids
<1>5. \A p \in Pids : Deleting(p) => Deleting(p)'
  BY <1>1, <1>2 DEF Deleting
<1> QED
  BY <1>2, <1>3, <1>4, <1>5 DEF Deleting

LEMMA StopFacts ==
  ASSUME TypeOK, NEW P \in SUBSET {q \in Pids : child[q] = "running"}, Stop(P)
  PROVE  /\ child' \in [Pids -> ChildStates]
         /\ \A p \in Pids : child[p] \notin {"none", "reaped"} =>
                            child'[p] \notin {"none", "reaped"}
         /\ report' \subseteq Pids /\ sigs' \subseteq Signals
BY DEF Stop, TypeOK, ChildStates, Signals

LEMMA HandlerInv ==
  ASSUME ShellInv, HandlerStep
  PROVE  ShellInv'
<1> USE DEF Handler
<1>0. stack # <<>> /\ stack \in Seq(Frame) /\ Head(stack) = stack[1]
      /\ 1 \in DOMAIN stack
  BY DEF HandlerStep, SigchldReap, SigchldReport, SigchldDelete, SigchldStop,
         SigchldReturn, SigintRead, SigintKill, SigtstpRead, SigtstpKill,
         ShellInv, TypeOK
<1>1. CASE SigchldReap
  <2>1. PICK p \in Zombies : child' = [child EXCEPT ![p] = "reaped"] /\ Goto("ended", p)
    BY <1>1 DEF SigchldReap
  <2>2. p \in Pids /\ Head(stack).at # "ended" /\ UNCHANGED pc
    BY <1>1, <2>1 DEF SigchldReap, Zombies, mainVars
  <2>3. /\ stack' \in Seq(Frame) /\ BlockedAlone' /\ FramePids'
        /\ \A q \in Pids : Deleting(q) => Deleting(q)'
        /\ Deleting(p)'
    BY <1>0, <2>1, <2>2, GotoStep
  <2>4. ListInv' /\ Tracked(jobs') = Tracked(jobs)
    BY <1>1, ListUnchanged DEF SigchldReap, ShellInv
  <2>5. TypeOK'
    BY <1>1, <2>1, <2>3, <2>4 DEF SigchldReap, ShellInv, TypeOK, ListInv,
       mainVars, typedVars, ChildStates
  <2>6. NoStaleEntry'
    BY <2>1, <2>2, <2>3, <2>4, TrackedPids DEF ShellInv, TypeOK, NoStaleEntry
  <2>7. NewChild'
    \* signals are not blocked while a handler runs
    BY <1>0, <1>1 DEF SigchldReap, ShellInv, BlockedAlone, Blocked, NewChild, mainVars
  <2> QED
    BY <1>1, <2>3, <2>4, <2>5, <2>6, <2>7 DEF SigchldReap, ShellInv, SlotPointer, mainVars
<1>2. CASE SigchldReport
  <2>1. PICK p \in report : report' = report \ {p} /\ Goto("stopped", p)
    BY <1>2 DEF SigchldReport
  <2>2. p \in Pids /\ Head(stack).at # "ended" /\ UNCHANGED pc
    BY <1>2, <2>1 DEF SigchldReport, mainVars, ShellInv, TypeOK
  <2>3. /\ stack' \in Seq(Frame) /\ BlockedAlone' /\ FramePids'
        /\ \A q \in Pids : Deleting(q) => Deleting(q)'
    BY <1>0, <2>1, <2>2, GotoStep
  <2> QED
    BY <1>2, <2>1, <2>3, ChildStep DEF SigchldReport, ShellInv, TypeOK, typedVars
<1>3. CASE SigchldDelete
  <2> DEFINE p == Head(stack).pid
  <2>1. p \in Pids /\ stack[1].at = "ended"
    BY <1>0, <1>3 DEF SigchldDelete, ShellInv, FramePids
  <2>2. ListInv' /\ Tracked(jobs') = Tracked(jobs) \ {p}
    BY <1>3, <2>1, DeleteLemma DEF SigchldDelete, ShellInv
  <2>3. /\ stack' \in Seq(Frame) /\ DOMAIN stack' = DOMAIN stack
        /\ stack'[1] = [sig |-> stack[1].sig, at |-> "entry", pid |-> 0]
        /\ \A k \in DOMAIN stack : k # 1 => stack'[k] = stack[k]
    BY <1>0, <1>3, GotoFacts DEF SigchldDelete
  <2>4. TypeOK'
    BY <1>3, <2>2, <2>3 DEF SigchldDelete, ShellInv, TypeOK, ListInv, mainVars,
       kernelVars, typedVars
  <2>5. ASSUME NEW q \in Tracked(jobs') PROVE child'[q] \notin {"none", "reaped"} \/ Deleting(q)'
    <3>1. q # p /\ q \in Tracked(jobs)
      BY <2>2
    <3>2. CASE Deleting(q)
      <4>1. PICK k \in DOMAIN stack : stack[k].at = "ended" /\ stack[k].pid = q
        BY <3>2 DEF Deleting
      <4>2. k # 1
        BY <1>0, <3>1, <4>1
      <4> QED BY <2>3, <4>1, <4>2 DEF Deleting
    <3>3. CASE child[q] \notin {"none", "reaped"}
      BY <1>3, <3>3 DEF SigchldDelete, kernelVars
    <3> QED BY <3>1, <3>2, <3>3 DEF ShellInv, NoStaleEntry
  <2>6. FramePids'
    BY <2>3 DEF ShellInv, FramePids
  <2> QED
    BY <1>0, <1>3, <2>2, <2>4, <2>5, <2>6 DEF SigchldDelete, ShellInv, NoStaleEntry,
       BlockedAlone, Blocked, NewChild, SlotPointer, mainVars
<1>4. CASE SigchldStop
  <2> DEFINE i == getjobpid(jobs, Head(stack).pid)
  <2>1. CASE i # NULL /\ setstate(i, ST) /\ Goto("entry", 0) /\ UNCHANGED pc
    <3>1. i \in Slots
      BY <2>1, FirstFacts DEF getjobpid
    <3>2. ListInv' /\ Tracked(jobs') = Tracked(jobs)
      BY <2>1, <3>1, SetstateLemma DEF ShellInv, States
    <3>3. /\ stack' \in Seq(Frame) /\ BlockedAlone' /\ FramePids'
          /\ \A q \in Pids : Deleting(q) => Deleting(q)'
      BY <1>0, <1>4, <2>1, GotoStep DEF SigchldStop
    <3>4. TypeOK'
      BY <1>4, <2>1, <3>2, <3>3 DEF SigchldStop, ShellInv, TypeOK, ListInv,
         kernelVars, typedVars
    <3>5. NoStaleEntry'
      BY <1>4, <3>2, <3>3, TrackedPids DEF SigchldStop, ShellInv, TypeOK,
         NoStaleEntry, kernelVars
    <3>6. NewChild' /\ SlotPointer'
      BY <1>4, <2>1, <3>2 DEF SigchldStop, ShellInv, NewChild, SlotPointer, kernelVars
    <3> QED BY <3>2, <3>3, <3>4, <3>5, <3>6 DEF ShellInv
  <2>2. CASE i = NULL /\ pc' = "nulljob" /\ UNCHANGED <<listVars, stack>>
    BY <1>4, <2>2, LocalStep DEF SigchldStop, ShellInv, TypeOK, PCs, Ended, typedVars,
       BlockedAlone, NewChild, SlotPointer, Blocked
  <2> QED BY <1>4, <2>1, <2>2 DEF SigchldStop
<1>5. CASE SigchldReturn
  BY <1>0, <1>5, ReturnStep, ChildStep DEF SigchldReturn, ShellInv, TypeOK,
     mainVars, kernelVars, typedVars
<1>6. CASE SigintRead
  <2>1. CASE Goto("kill", 0)
    <3>1. /\ stack' \in Seq(Frame) /\ BlockedAlone' /\ FramePids'
          /\ \A q \in Pids : Deleting(q) => Deleting(q)'
      BY <1>0, <1>6, <2>1, GotoStep DEF SigintRead, mainVars
    <3> QED
      BY <1>6, <3>1, ChildStep DEF SigintRead, ShellInv, TypeOK, mainVars,
         kernelVars, typedVars
  <2>2. CASE Return
    BY <1>0, <1>6, <2>2, ReturnStep, ChildStep DEF SigintRead, ShellInv, TypeOK,
       mainVars, kernelVars, typedVars
  <2> QED BY <1>6, <2>1, <2>2 DEF SigintRead
<1>7. CASE SigintKill
  <2>1. /\ stack' \in Seq(Frame) /\ BlockedAlone' /\ FramePids'
        /\ \A q \in Pids : Deleting(q) => Deleting(q)'
    BY <1>0, <1>7, ReturnStep DEF SigintKill, mainVars
  <2>2. /\ child' \in [Pids -> ChildStates]
        /\ \A p \in Pids : child[p] \notin {"none", "reaped"} =>
                           child'[p] \notin {"none", "reaped"}
    BY <1>7 DEF SigintKill, ShellInv, TypeOK, ChildStates
  <2> QED
    BY <1>7, <2>1, <2>2, ChildStep DEF SigintKill, ShellInv, TypeOK, Signals, typedVars
<1>8. CASE SigtstpRead
  <2>1. CASE Goto("kill", fgpid(jobs))
    <3>1. fgpid(jobs) \in Pids \cup {0}
      BY FgpidType DEF ShellInv, TypeOK, ListTypeOK
    <3>2. /\ stack' \in Seq(Frame) /\ BlockedAlone' /\ FramePids'
          /\ \A q \in Pids : Deleting(q) => Deleting(q)'
      BY <1>0, <1>8, <2>1, <3>1, GotoStep DEF SigtstpRead, mainVars
    <3> QED
      BY <1>8, <3>2, ChildStep DEF SigtstpRead, ShellInv, TypeOK, mainVars,
         kernelVars, typedVars
  <2>2. CASE Return
    BY <1>0, <1>8, <2>2, ReturnStep, ChildStep DEF SigtstpRead, ShellInv, TypeOK,
       mainVars, kernelVars, typedVars
  <2> QED BY <1>8, <2>1, <2>2 DEF SigtstpRead
<1>9. CASE SigtstpKill
  <2>1. /\ stack' \in Seq(Frame) /\ BlockedAlone' /\ FramePids'
        /\ \A q \in Pids : Deleting(q) => Deleting(q)'
    BY <1>0, <1>9, ReturnStep DEF SigtstpKill, mainVars
  <2> DEFINE P == Suspended(Head(stack).pid)
  <2>2. P \subseteq {q \in Pids : child[q] = "running"}
    BY DEF Suspended
  <2>3. /\ child' \in [Pids -> ChildStates]
        /\ \A p \in Pids : child[p] \notin {"none", "reaped"} =>
                           child'[p] \notin {"none", "reaped"}
        /\ report' \subseteq Pids /\ sigs' \subseteq Signals
    <3> HIDE DEF P
    <3>1. Stop(P)
      BY <1>9 DEF SigtstpKill, P
    <3> QED
      BY <2>2, <3>1, StopFacts DEF ShellInv
  <2> QED
    BY <1>9, <2>1, <2>3, ChildStep DEF SigtstpKill, ShellInv, TypeOK, typedVars
<1> QED
  BY <1>1, <1>2, <1>3, <1>4, <1>5, <1>6, <1>7, <1>8, <1>9 DEF HandlerStep

LEMMA DeliverInv ==
  ASSUME ShellInv, NEW sig \in Signals, Deliver(sig)
  PROVE  ShellInv'
<1> DEFINE f == [sig |-> sig, at |-> "entry", pid |-> 0]
<1>1. f \in Frame /\ f.at # "ended" /\ stack \in Seq(Frame)
  BY DEF Frame, ShellInv, TypeOK
<1>2. stack' = <<f>> \o stack
  BY DEF Deliver
<1> HIDE DEF f
<1>3. /\ stack' \in Seq(Frame)
      /\ 1 \in DOMAIN stack' /\ stack'[1] = f
      /\ \A k \in DOMAIN stack' : k # 1 =>
            k - 1 \in DOMAIN stack /\ stack'[k] = stack[k - 1]
      /\ \A k \in DOMAIN stack :
            k + 1 \in DOMAIN stack' /\ stack'[k + 1] = stack[k]
  BY <1>1, <1>2, PushFacts
<1>4. FramePids'
  BY <1>1, <1>3 DEF ShellInv, FramePids
<1>5. ASSUME NEW p \in Pids, Deleting(p)
      PROVE  Deleting(p)'
  BY <1>3, <1>5 DEF Deleting
<1>6. BlockedAlone'
  BY DEF Deliver, Deliverable, BlockedAlone, Blocked, mainVars
<1> QED
  BY <1>3, <1>4, <1>5, <1>6, ChildStep DEF Deliver, ShellInv, TypeOK, mainVars,
     kernelVars, typedVars

LEMMA WorldInv ==
  ASSUME ShellInv,
         \/ \E p \in Pids : SetPgid(p) \/ Exec(p) \/ Exit(p) \/ StopItself(p)
         \/ TypeCtrlC \/ TypeCtrlZ
  PROVE  ShellInv'
<1> USE DEF ShellInv, TypeOK
<1>0. UNCHANGED <<mainVars, stack>>
  BY DEF SetPgid, Exec, Exit, StopItself, TypeCtrlC, TypeCtrlZ
<1>1. /\ stack' \in Seq(Frame) /\ BlockedAlone' /\ FramePids'
      /\ \A p \in Pids : Deleting(p) => Deleting(p)'
  BY <1>0 DEF BlockedAlone, Blocked, FramePids, Deleting, mainVars
<1>2. ASSUME NEW p \in Pids, SetPgid(p) PROVE ShellInv'
  BY <1>1, <1>2, ChildStep DEF SetPgid, Become, ChildStates, typedVars
<1>3. ASSUME NEW p \in Pids, Exec(p) PROVE ShellInv'
  BY <1>1, <1>3, ChildStep DEF Exec, Become, ChildStates, typedVars
<1>4. ASSUME NEW p \in Pids, Exit(p) PROVE ShellInv'
  BY <1>1, <1>4, ChildStep DEF Exit, Become, ChildStates, Signals, typedVars
<1>5. ASSUME NEW p \in Pids, StopItself(p) PROVE ShellInv'
  BY <1>1, <1>5, StopFacts, ChildStep DEF StopItself, typedVars
<1>6. CASE TypeCtrlC
  BY <1>1, <1>6, ShellAssumption, ChildStep DEF TypeCtrlC, kernelVars, Signals
<1>7. CASE TypeCtrlZ
  BY <1>1, <1>7, ShellAssumption, ChildStep DEF TypeCtrlZ, kernelVars, Signals
<1> QED
  BY <1>2, <1>3, <1>4, <1>5, <1>6, <1>7

LEMMA QuitInv ==
  ASSUME ShellInv, Quit
  PROVE  ShellInv'
BY LocalStep DEF Quit, ShellInv, TypeOK, PCs, Ended, typedVars, BlockedAlone,
   NewChild, SlotPointer, Blocked

LEMMA StutterInv ==
  ASSUME ShellInv, UNCHANGED vars
  PROVE  ShellInv'
BY LocalStep DEF vars, ShellInv, TypeOK, mainVars, typedVars, BlockedAlone,
   NewChild, SlotPointer, Blocked, listVars, kernelVars

-----------------------------------------------------------------------------
(* The theorems.                                                           *)

THEOREM ShellInvariant == Spec => []ShellInv
<1>1. Init => ShellInv
  BY InitShellInv
<1>2. ShellInv /\ [Next]_vars => ShellInv'
  BY MainInv, HandlerInv, QuitInv, DeliverInv, WorldInv, StutterInv DEF Next
<1> QED
  BY <1>1, <1>2, PTL DEF Spec

\* Type correctness, with any number of signals on the stack of handlers.
THEOREM TypeCorrect == Spec => []TypeOK
<1>1. ShellInv => TypeOK
  BY DEF ShellInv
<1> QED
  BY <1>1, ShellInvariant, PTL

\* Blocking the signals around fork and addjob works: no job is listed whose
\* process has already been collected.
THEOREM NoStaleEntries == Spec => []NoStaleEntry
<1>1. ShellInv => NoStaleEntry
  BY DEF ShellInv
<1> QED
  BY <1>1, ShellInvariant, PTL

\* No process is listed twice while the shell runs, and no job ID is left in
\* a free slot.
THEOREM ShellListConsistent == Spec => []ListConsistent
<1>1. ShellInv => ListConsistent
  BY DEF ShellInv, ListInv, ListConsistent
<1> QED
  BY <1>1, ShellInvariant, PTL

\* The shell uses its job list as JobList assumes: in particular eval never
\* adds a process that is listed.
THEOREM ShellUsesList == Spec => ListSpec
<1>1. Init => initjobs
  BY DEF Init
<1>2. ShellInv /\ [Next]_vars => [ListNext]_listVars
  <2> SUFFICES ASSUME ShellInv, [Next]_vars PROVE [ListNext]_listVars
    OBVIOUS
  <2>1. CASE EvalAdd
    <3>1. cmd.pid \in Pids \cup {-1} /\ cmd.mode \in {FG, BG}
      BY <2>1 DEF EvalAdd, Main, ShellInv, TypeOK, Command, NewChild
    <3>2. -1 \notin Tracked(jobs)
      BY JobListAssumption DEF Tracked, ShellInv, TypeOK, ListTypeOK, Job
    <3>3. cmd.pid \notin Tracked(jobs)
      BY <2>1, <3>2 DEF EvalAdd, Main, ShellInv, NewChild
    <3>4. Add
      BY <2>1, <3>1, <3>3 DEF EvalAdd, Add
    <3> QED BY <3>4 DEF ListNext
  <2>2. CASE ForegroundJob \/ BackgroundJob
    <3>1. cmd.slot \in Slots
      BY <2>2 DEF ForegroundJob, BackgroundJob, Main, ShellInv, SlotPointer
    <3> QED
      BY <2>2, <3>1 DEF ForegroundJob, BackgroundJob, SetState, ListNext
  <2>3. CASE SigchldDelete
    <3>1. Head(stack).pid \in Pids
      <4>1. stack \in Seq(Frame) /\ stack # <<>> /\ Head(stack).at = "ended"
        BY <2>3 DEF SigchldDelete, Handler, ShellInv, TypeOK
      <4>2. 1 \in DOMAIN stack /\ Head(stack) = stack[1]
        BY <4>1
      <4> QED BY <4>1, <4>2 DEF ShellInv, FramePids
    <3> QED BY <2>3, <3>1 DEF SigchldDelete, Delete, ListNext
  <2>4. CASE SigchldStop
    <3>1. getjobpid(jobs, Head(stack).pid) \in Slots \cup {NULL}
      BY FirstFacts DEF getjobpid
    <3> QED
      BY <2>4, <3>1 DEF SigchldStop, SetState, ListNext
  <2>5. CASE UNCHANGED listVars
    BY <2>5
  <2>6. CASE UNCHANGED vars
    BY <2>6 DEF vars
  <2>7. CASE MainStep
    BY <2>1, <2>2, <2>5, <2>7 DEF MainStep, EvalJob, EvalBlankLine, Fork,
       ForkFails, EvalAnnounce, WaitfgEnter, WaitfgLeave, LookupJob, ContinueJob
  <2>8. CASE HandlerStep
    BY <2>3, <2>4, <2>5, <2>8 DEF HandlerStep, SigchldReap, SigchldReport,
       SigchldReturn, SigintRead, SigintKill, SigtstpRead, SigtstpKill
  <2>9. CASE Quit \/ \E sig \in Signals : Deliver(sig)
    BY <2>5, <2>9 DEF Quit, Deliver
  <2>10. CASE \/ \E p \in Pids : SetPgid(p) \/ Exec(p) \/ Exit(p) \/ StopItself(p)
             \/ TypeCtrlC \/ TypeCtrlZ
    BY <2>5, <2>10 DEF SetPgid, Exec, Exit, StopItself, TypeCtrlC, TypeCtrlZ
  <2> QED
    BY <2>6, <2>7, <2>8, <2>9, <2>10 DEF Next
<1> QED
  BY <1>1, <1>2, ShellInvariant, PTL DEF Spec, ListSpec

\* Hence, under every interleaving of signals, the shell's job list is a map
\* from PIDs to jobs.
THEOREM ShellListIsMap == Spec => ImplementsJobMap
BY ShellUsesList, Refinement, PTL

-----------------------------------------------------------------------------
(* The active handlers as a set, for what is said of all of them.          *)

Frames == {stack[k] : k \in DOMAIN stack}

LEMMA GotoFrames ==
  ASSUME stack \in Seq(Frame), stack # <<>>,
         NEW at \in {"entry", "kill", "ended", "stopped"},
         NEW pid \in Pids \cup {0}, Goto(at, pid)
  PROVE  LET f == [sig |-> Head(stack).sig, at |-> at, pid |-> pid]
         IN  /\ Head(stack) \in Frames
             /\ f \in Frames'
             /\ Frames' \subseteq Frames \cup {f}
             /\ Frames \subseteq Frames' \cup {Head(stack)}
<1>1. /\ DOMAIN stack' = DOMAIN stack /\ 1 \in DOMAIN stack
      /\ stack'[1] = [sig |-> stack[1].sig, at |-> at, pid |-> pid]
      /\ \A k \in DOMAIN stack : k # 1 => stack'[k] = stack[k]
  BY GotoFacts
<1>2. Head(stack) = stack[1]
  OBVIOUS
<1> QED
  BY <1>1, <1>2 DEF Frames

LEMMA ReturnFrames ==
  ASSUME stack \in Seq(Frame), stack # <<>>, Return
  PROVE  /\ Head(stack) \in Frames
         /\ Frames' \subseteq Frames
         /\ Frames \subseteq Frames' \cup {Head(stack)}
<1>1. /\ \A k \in DOMAIN stack' : k + 1 \in DOMAIN stack /\ stack'[k] = stack[k + 1]
      /\ \A k \in DOMAIN stack : k # 1 =>
            k - 1 \in DOMAIN stack' /\ stack'[k - 1] = stack[k]
  BY ReturnFacts
<1>2. Head(stack) = stack[1] /\ 1 \in DOMAIN stack
  OBVIOUS
<1> QED
  BY <1>1, <1>2 DEF Frames

LEMMA PushFrames ==
  ASSUME stack \in Seq(Frame), NEW f \in Frame, stack' = <<f>> \o stack
  PROVE  Frames' = Frames \cup {f}
<1>1. /\ 1 \in DOMAIN stack' /\ stack'[1] = f
      /\ \A k \in DOMAIN stack' : k # 1 =>
            k - 1 \in DOMAIN stack /\ stack'[k] = stack[k - 1]
      /\ \A k \in DOMAIN stack :
            k + 1 \in DOMAIN stack' /\ stack'[k + 1] = stack[k]
  BY PushFacts
<1>2. Frames' \subseteq Frames \cup {f}
  BY <1>1 DEF Frames
<1>3. f \in Frames'
  BY <1>1 DEF Frames
<1>4. ASSUME NEW k \in DOMAIN stack PROVE stack[k] \in Frames'
  <2>1. k + 1 \in DOMAIN stack' /\ stack'[k + 1] = stack[k]
    BY <1>1
  <2> HIDE <1>1
  <2> QED BY <2>1 DEF Frames
<1>5. Frames \subseteq Frames'
  BY <1>4 DEF Frames
<1> QED
  BY <1>2, <1>3, <1>5

LEMMA HandlingFrames ==
  /\ \A sig : Handling(sig) <=> \E f \in Frames : f.sig = sig
  /\ \A sig : Handling(sig)' <=> \E f \in Frames' : f.sig = sig
BY DEF Handling, Frames

LEMMA PidFacts == \A p \in Pids : p \in Int /\ p >= 1
BY JobListAssumption

\* The main program moves only while no handler is active and no signal is
\* pending that it has not blocked.
LEMMA MainAlone ==
  ASSUME MainStep
  PROVE  /\ Running /\ stack = <<>> /\ stack' = <<>> /\ Frames = {} /\ Frames' = {}
         /\ \A sig \in Signals : ~Handling(sig) /\ (sig \in sigs => Blocked)
<1>1. Undisturbed /\ stack = <<>> /\ stack' = stack
  BY DEF MainStep, Main, EvalJob, EvalBlankLine, Fork, ForkFails, EvalAdd,
     EvalAnnounce, WaitfgEnter, WaitfgLeave, LookupJob, ContinueJob,
     ForegroundJob, BackgroundJob
<1>2. stack' = <<>> /\ Frames = {} /\ Frames' = {}
  BY <1>1 DEF Frames
<1> QED
  BY <1>1, <1>2, HandlingFrames DEF Undisturbed, Deliverable

LEMMA HandlerAlone ==
  ASSUME ShellInv, HandlerStep
  PROVE  Running /\ stack \in Seq(Frame) /\ stack # <<>> /\ ~Blocked
BY DEF HandlerStep, SigchldReap, SigchldReport, SigchldDelete, SigchldStop,
   SigchldReturn, SigintRead, SigintKill, SigtstpRead, SigtstpKill, Handler,
   Undisturbed, ShellInv, TypeOK, BlockedAlone

-----------------------------------------------------------------------------
(* What the handlers know of the children.                                 *)

\* The SIGCHLD handler deletes the jobs of children that have been collected.
CollectedFrames == \A f \in Frames : f.at = "ended" => child[f.pid] = "reaped"

\* A stopped child stays stopped until the main program continues it, which it
\* does not do while the handler still has to learn of the stop or to record it.
StoppedFrames ==
    /\ \A p \in report : child[p] = "stopped"
    /\ \A f \in Frames : f.at = "stopped" => f.pid \in Pids /\ child[f.pid] = "stopped"

ChildInv == NoMissedChild /\ CollectedFrames /\ StoppedFrames

LEMMA InitChildInv == Init => ChildInv
BY DEF Init, ChildInv, NoMissedChild, CollectedFrames, StoppedFrames, Zombies, Frames

\* Where signals are not blocked, all has been handled when the main program moves.
LEMMA AllHandled ==
  ASSUME ChildInv, MainStep, ~Blocked
  PROVE  report = {} /\ Zombies = {}
BY MainAlone DEF ChildInv, NoMissedChild, Signals

LEMMA MainChildInv ==
  ASSUME ShellInv, ChildInv, MainStep
  PROVE  ChildInv'
<1>1. /\ Frames' = {} /\ Running
      /\ \A sig \in Signals : ~Handling(sig) /\ (sig \in sigs => Blocked)
  BY MainAlone
<1>2. CollectedFrames'
  BY <1>1 DEF CollectedFrames
<1>3. CASE Fork
  <2>1. PICK p \in Pids : child[p] = "none" /\ child' = [child EXCEPT ![p] = "forked"]
    BY <1>3 DEF Fork
  <2>2. /\ \A q \in Pids : child'[q] = IF q = p THEN "forked" ELSE child[q]
        /\ report' = report /\ sigs' = sigs /\ stack' = stack /\ report \subseteq Pids
    BY <1>3, <2>1 DEF Fork, ShellInv, TypeOK
  <2>3. StoppedFrames'
    BY <1>1, <2>1, <2>2 DEF ChildInv, StoppedFrames
  <2>4. NoMissedChild'
    BY <1>1, <2>1, <2>2 DEF ChildInv, NoMissedChild, Zombies, Handling
  <2> QED
    BY <1>2, <2>3, <2>4 DEF ChildInv
<1>4. CASE ContinueJob
  <2>1. report' = {} /\ report = {} /\ Zombies = {}
    BY <1>4, AllHandled DEF ContinueJob, Main, Blocked
  <2>2. Zombies' = {}
    BY <1>4, <2>1 DEF ContinueJob, Zombies, ShellInv, TypeOK
  <2> QED
    BY <1>1, <1>2, <2>1, <2>2 DEF ChildInv, NoMissedChild, StoppedFrames
<1>5. CASE UNCHANGED <<sigs, stack, kernelVars>>
  BY <1>1, <1>2, <1>5 DEF ChildInv, NoMissedChild, StoppedFrames, Zombies, Handling,
     kernelVars
<1> QED
  BY <1>3, <1>4, <1>5 DEF MainStep, EvalJob, EvalBlankLine, ForkFails, EvalAdd,
     EvalAnnounce, WaitfgEnter, WaitfgLeave, LookupJob, ForegroundJob, BackgroundJob

LEMMA HandlerChildInv ==
  ASSUME ShellInv, ChildInv, HandlerStep
  PROVE  ChildInv'
<1>0. /\ Running /\ stack \in Seq(Frame) /\ stack # <<>>
      /\ child \in [Pids -> ChildStates] /\ report \subseteq Pids /\ 0 \notin Pids
      /\ fgpid(jobs) \in Pids \cup {0}
  BY HandlerAlone, FgpidType, JobListAssumption DEF ShellInv, TypeOK, ListTypeOK
<1> USE HandlingFrames DEF ChildInv, NoMissedChild, CollectedFrames, StoppedFrames, Zombies
<1>1. CASE SigchldReap
  <2>1. PICK p \in Zombies : child' = [child EXCEPT ![p] = "reaped"] /\ Goto("ended", p)
    BY <1>1 DEF SigchldReap
  <2> DEFINE f == [sig |-> Head(stack).sig, at |-> "ended", pid |-> p]
  <2>2. f \in Frames' /\ Frames' \subseteq Frames \cup {f} /\ f.sig = "CHLD"
    BY <1>0, <1>1, <2>1, GotoFrames DEF SigchldReap, Handler
  <2>3. f.at = "ended" /\ f.pid = p /\ child'[p] = "reaped" /\ p \in Pids
    BY <1>0, <2>1
  <2> HIDE DEF f
  <2>4. \A q \in DOMAIN child : q # p => child'[q] = child[q]
    BY <2>1
  <2> QED
    BY <1>0, <1>1, <2>1, <2>2, <2>3, <2>4 DEF SigchldReap
<1>2. CASE SigchldReport
  <2>1. PICK p \in report : report' = report \ {p} /\ Goto("stopped", p)
    BY <1>2 DEF SigchldReport
  <2> DEFINE f == [sig |-> Head(stack).sig, at |-> "stopped", pid |-> p]
  <2>2. f \in Frames' /\ Frames' \subseteq Frames \cup {f} /\ f.sig = "CHLD"
    BY <1>0, <1>2, <2>1, GotoFrames DEF SigchldReport, Handler
  <2>3. f.at = "stopped" /\ f.pid = p /\ p \in Pids
    BY <1>0, <2>1
  <2> HIDE DEF f
  <2> QED
    BY <1>0, <1>2, <2>1, <2>2, <2>3 DEF SigchldReport
<1>3. CASE SigchldDelete
  <2> DEFINE f == [sig |-> Head(stack).sig, at |-> "entry", pid |-> 0]
  <2>2. f \in Frames' /\ Frames' \subseteq Frames \cup {f} /\ f.sig = "CHLD"
    BY <1>0, <1>3, GotoFrames DEF SigchldDelete, Handler
  <2>3. f.at = "entry"
    OBVIOUS
  <2> HIDE DEF f
  <2> QED
    BY <1>0, <1>3, <2>2, <2>3 DEF SigchldDelete, kernelVars
<1>4. CASE SigchldStop
  <2> DEFINE f == [sig |-> Head(stack).sig, at |-> "entry", pid |-> 0]
  <2>1. CASE Goto("entry", 0)
    <3>2. f \in Frames' /\ Frames' \subseteq Frames \cup {f} /\ f.sig = "CHLD"
      BY <1>0, <1>4, <2>1, GotoFrames DEF SigchldStop, Handler
    <3>3. f.at = "entry"
      OBVIOUS
    <3> HIDE DEF f
    <3> QED
      BY <1>0, <1>4, <3>2, <3>3 DEF SigchldStop, kernelVars
  <2>2. CASE pc' = "nulljob" /\ UNCHANGED stack
    BY <1>4, <2>2 DEF SigchldStop, kernelVars, Running, Ended, Frames
  <2> QED BY <1>4, <2>1, <2>2 DEF SigchldStop
<1>5. CASE SigchldReturn
  <2>1. Frames' \subseteq Frames
    BY <1>0, <1>5, ReturnFrames DEF SigchldReturn
  <2> QED
    BY <1>0, <1>5, <2>1 DEF SigchldReturn, kernelVars
\* The other handlers leave a frame of SIGCHLD where it is.
<1>6. CASE SigintRead
  <2> DEFINE f == [sig |-> Head(stack).sig, at |-> "kill", pid |-> 0]
  <2>1. Head(stack).sig # "CHLD" /\ f.at = "kill"
    BY <1>6 DEF SigintRead, Handler
  <2>2. /\ Frames' \subseteq Frames \cup {f}
        /\ Frames \subseteq Frames' \cup {Head(stack)}
    BY <1>0, <1>6, GotoFrames, ReturnFrames DEF SigintRead
  <2> HIDE DEF f
  <2> QED
    BY <1>0, <1>6, <2>1, <2>2 DEF SigintRead, kernelVars, mainVars
<1>7. CASE SigintKill
  <2>1. /\ Frames' \subseteq Frames
        /\ Frames \subseteq Frames' \cup {Head(stack)}
    BY <1>0, <1>7, ReturnFrames DEF SigintKill
  <2>2. Head(stack).sig # "CHLD"
    BY <1>7 DEF SigintKill, Handler
  <2>3. \A q \in Pids : child'[q] = child[q] \/ (child[q] = "forked" /\ child'[q] = "storm")
    BY <1>7 DEF SigintKill
  <2>4. CollectedFrames' /\ StoppedFrames'
    <3>1. \A f \in Frames : f.at = "ended" => f.pid \in Pids
      BY DEF ShellInv, FramePids, Frames
    <3> QED
      BY <1>0, <1>7, <2>1, <2>3, <3>1 DEF SigintKill
  <2> QED
    BY <1>0, <1>7, <2>1, <2>2, <2>3, <2>4 DEF SigintKill
<1>8. CASE SigtstpRead
  <2> DEFINE f == [sig |-> Head(stack).sig, at |-> "kill", pid |-> fgpid(jobs)]
  <2>1. Head(stack).sig # "CHLD" /\ f.at = "kill"
    BY <1>8 DEF SigtstpRead, Handler
  <2>2. /\ Frames' \subseteq Frames \cup {f}
        /\ Frames \subseteq Frames' \cup {Head(stack)}
    BY <1>0, <1>8, GotoFrames, ReturnFrames DEF SigtstpRead
  <2> HIDE DEF f
  <2> QED
    BY <1>0, <1>8, <2>1, <2>2 DEF SigtstpRead, kernelVars, mainVars
<1>9. CASE SigtstpKill
  <2> DEFINE P == Suspended(Head(stack).pid)
  <2>1. /\ Frames' \subseteq Frames
        /\ Frames \subseteq Frames' \cup {Head(stack)}
    BY <1>0, <1>9, ReturnFrames DEF SigtstpKill
  <2>2. Head(stack).sig # "CHLD"
    BY <1>9 DEF SigtstpKill, Handler
  <2>3. \A q \in P : q \in Pids /\ child[q] = "running"
    BY DEF Suspended
  <2>4. /\ report' = report \cup P
        /\ sigs' = IF P = {} THEN sigs ELSE sigs \cup {"CHLD"}
        /\ \A q \in Pids : child'[q] = IF q \in P THEN "stopped" ELSE child[q]
    BY <1>9 DEF SigtstpKill, Stop
  <2> HIDE DEF P
  <2>5. CollectedFrames' /\ StoppedFrames'
    <3>1. \A f \in Frames : f.at = "ended" => f.pid \in Pids
      BY DEF ShellInv, FramePids, Frames
    <3> QED
      BY <1>0, <1>9, <2>1, <2>3, <2>4, <3>1 DEF SigtstpKill
  <2> QED
    BY <1>0, <2>1, <2>2, <2>3, <2>4, <2>5
<1> QED
  BY <1>1, <1>2, <1>3, <1>4, <1>5, <1>6, <1>7, <1>8, <1>9 DEF HandlerStep

LEMMA DeliverChildInv ==
  ASSUME ShellInv, ChildInv, NEW sig \in Signals, Deliver(sig)
  PROVE  ChildInv'
<1> DEFINE f == [sig |-> sig, at |-> "entry", pid |-> 0]
<1>1. f \in Frame /\ f.at = "entry" /\ f.sig = sig
  BY DEF Frame
<1>2. stack' = <<f>> \o stack /\ stack \in Seq(Frame)
  BY DEF Deliver, ShellInv, TypeOK
<1> HIDE DEF f
<1>3. Frames' = Frames \cup {f}
  BY <1>1, <1>2, PushFrames
<1> QED
  BY <1>1, <1>3, HandlingFrames DEF Deliver, ChildInv, NoMissedChild, CollectedFrames,
     StoppedFrames, Zombies, kernelVars, mainVars

LEMMA WorldChildInv ==
  ASSUME ShellInv, ChildInv,
         \/ \E p \in Pids : SetPgid(p) \/ Exec(p) \/ Exit(p) \/ StopItself(p)
         \/ TypeCtrlC \/ TypeCtrlZ
  PROVE  ChildInv'
<1>1. /\ Frames' = Frames /\ UNCHANGED mainVars
      /\ child \in [Pids -> ChildStates] /\ report \subseteq Pids
      /\ \A f \in Frames : f.at = "ended" => f.pid \in Pids
  BY DEF SetPgid, Exec, Exit, StopItself, TypeCtrlC, TypeCtrlZ, Frames,
     ShellInv, TypeOK, FramePids
<1> USE HandlingFrames DEF ChildInv, NoMissedChild, CollectedFrames, StoppedFrames, Zombies
<1>2. ASSUME NEW p \in Pids, SetPgid(p) \/ Exec(p) PROVE ChildInv'
  <2>1. /\ child[p] \in {"forked", "grouped"} /\ Running
        /\ child'[p] \in {"grouped", "running"}
        /\ \A q \in DOMAIN child : q # p => child'[q] = child[q]
        /\ UNCHANGED <<report, sigs>>
    BY <1>1, <1>2 DEF SetPgid, Exec, Become
  <2> QED
    BY <1>1, <2>1
<1>3. ASSUME NEW p \in Pids, Exit(p) PROVE ChildInv'
  BY <1>1, <1>3 DEF Exit, Become, mainVars
<1>4. ASSUME NEW p \in Pids, StopItself(p) PROVE ChildInv'
  BY <1>1, <1>4 DEF StopItself, Stop, mainVars
<1>5. CASE TypeCtrlC \/ TypeCtrlZ
  BY <1>1, <1>5 DEF TypeCtrlC, TypeCtrlZ, mainVars, kernelVars
<1> QED
  BY <1>2, <1>3, <1>4, <1>5

LEMMA IdleChildInv ==
  ASSUME ChildInv, Quit \/ UNCHANGED vars
  PROVE  ChildInv'
BY HandlingFrames DEF Quit, vars, mainVars, kernelVars, Frames, Running, Ended,
   ChildInv, NoMissedChild, CollectedFrames, StoppedFrames, Zombies

\* What the handlers know of the children holds in every interleaving.
THEOREM ChildInvariant == Spec => []ChildInv
<1>1. Init => ChildInv
  BY InitChildInv
<1>2. ShellInv /\ ChildInv /\ [Next]_vars => ChildInv'
  BY MainChildInv, HandlerChildInv, DeliverChildInv, WorldChildInv, IdleChildInv DEF Next
<1> QED
  BY <1>1, <1>2, ShellInvariant, PTL DEF Spec

\* Signals do not queue, but no child that waits to be collected is missed.
THEOREM NoChildMissed == Spec => []NoMissedChild
<1>1. ChildInv => NoMissedChild
  BY DEF ChildInv
<1> QED
  BY <1>1, ChildInvariant, PTL

-----------------------------------------------------------------------------
(* The slots of the list after an operation.                               *)

LEMMA AddSlots ==
  ASSUME ListInv, NEW pid \in Pids \cup {-1}, NEW state \in {FG, BG}, addjob(pid, state)
  PROVE  /\ \A i \in Slots :
               \/ jobs'[i] = jobs[i]
               \/ /\ jobs[i].pid = 0 /\ pid \in Pids
                  /\ jobs'[i].pid = pid /\ jobs'[i].state = state
         /\ pid \in Pids /\ FreeSlots(jobs) # {} =>
               \E i \in Slots : jobs'[i].pid = pid
<1>0. jobs \in [Slots -> Job] /\ Pids \subseteq Nat \ {0}
  BY JobListAssumption DEF ListInv, ListTypeOK
<1>1. CASE pid >= 1 /\ FreeSlots(jobs) # {} /\ Insert(pid, state)
  <2> DEFINE i == Min(FreeSlots(jobs))
             new == [pid |-> pid, jid |-> nextjid, state |-> state]
  <2>1. i \in Slots /\ jobs[i].pid = 0
    <3>1. FreeSlots(jobs) \subseteq Slots
      BY DEF FreeSlots
    <3>2. First(FreeSlots(jobs)) \in FreeSlots(jobs)
      BY <1>1, <3>1, FirstFacts
    <3> QED BY <1>1, <3>2 DEF First, FreeSlots
  <2>2. jobs' = [jobs EXCEPT ![i] = new] /\ new.pid = pid /\ new.state = state
    BY <1>1 DEF Insert
  <2>3. pid \in Pids
    BY <1>1
  <2> HIDE DEF i, new
  <2> QED
    BY <1>0, <2>1, <2>2, <2>3
<1>2. CASE (pid < 1 \/ FreeSlots(jobs) = {}) /\ UNCHANGED listVars
  BY <1>0, <1>2 DEF listVars
<1> QED
  BY <1>1, <1>2 DEF addjob

LEMMA DeleteSlots ==
  ASSUME ListInv, NEW pid \in Pids, deletejob(pid)
  PROVE  \A i \in Slots : jobs'[i] = IF jobs[i].pid = pid THEN Cleared ELSE jobs[i]
<1> DEFINE k == getjobpid(jobs, pid)
<1>0. pid \in Int /\ pid >= 1 /\ jobs \in [Slots -> Job]
  BY JobListAssumption DEF ListInv, ListTypeOK
<1>1. CASE k # NULL /\ Remove(pid)
  <2>1. k \in Slots /\ jobs[k].pid = pid
    BY <1>0, <1>1, GetjobpidFacts
  <2>2. jobs' = [jobs EXCEPT ![k] = Cleared]
    BY <1>1 DEF Remove
  <2>3. \A i \in Slots : jobs[i].pid = pid => i = k
    BY <1>0, <2>1 DEF ListInv, PidUnique
  <2> HIDE DEF k
  <2> QED
    BY <1>0, <2>1, <2>2, <2>3
<1>2. CASE k = NULL /\ UNCHANGED listVars
  <2>1. \A i \in Slots : jobs[i].pid # pid
    BY <1>0, <1>2, GetjobpidFacts, FirstFacts
  <2> QED
    BY <1>2, <2>1 DEF listVars
<1> QED
  BY <1>1, <1>2 DEF deletejob

LEMMA SetSlots ==
  ASSUME ListInv, NEW i \in Slots, NEW s \in States, setstate(i, s)
  PROVE  /\ \A k \in Slots : k # i => jobs'[k] = jobs[k]
         /\ jobs'[i].pid = jobs[i].pid /\ jobs'[i].state = s
BY DEF setstate, ListInv, ListTypeOK, Job

LEMMA FgpidFacts ==
  ASSUME NEW table \in [Slots -> Job]
  PROVE  \/ fgpid(table) = 0 /\ \A i \in Slots : table[i].state # FG
         \/ \E i \in Slots : table[i].state = FG /\ fgpid(table) = table[i].pid
<1> DEFINE S == {s \in Slots : table[s].state = FG}
<1>1. CASE S = {}
  <2>1. First(S) = NULL
    BY <1>1, FirstFacts
  <2> QED BY <1>1, <2>1 DEF fgpid
<1>2. CASE S # {}
  <2>1. First(S) \in S /\ First(S) # NULL
    BY <1>2, FirstFacts
  <2> QED BY <2>1 DEF fgpid
<1> QED
  BY <1>1, <1>2

-----------------------------------------------------------------------------
(* What a step can do to a slot, to a child, to the frames.                *)

\* The writers of the list, and what each writes to a slot.
LEMMA SlotStep ==
  ASSUME ShellInv, ChildInv, [Next]_vars, NEW i \in Slots
  PROVE  \/ jobs'[i] = jobs[i]
         \/ /\ EvalAdd /\ jobs[i].pid = 0 /\ cmd.pid \in Pids
            /\ jobs'[i].pid = cmd.pid /\ jobs'[i].state = cmd.mode
         \/ /\ ForegroundJob /\ i = cmd.slot
            /\ jobs'[i].pid = jobs[i].pid /\ jobs'[i].state = FG
         \/ /\ BackgroundJob /\ i = cmd.slot
            /\ jobs'[i].pid = jobs[i].pid /\ jobs'[i].state = BG
         \/ /\ SigchldDelete /\ jobs'[i] = Cleared
            /\ jobs[i].pid \in Pids /\ child[jobs[i].pid] = "reaped"
         \/ /\ SigchldStop /\ jobs[i].pid = Head(stack).pid
            /\ jobs'[i].pid = jobs[i].pid /\ jobs'[i].state = ST
<1>0. /\ ListInv /\ jobs \in [Slots -> Job] /\ stack \in Seq(Frame)
      /\ Pids \subseteq Nat \ {0}
  BY JobListAssumption DEF ShellInv, ListInv, ListTypeOK, TypeOK
<1>1. CASE EvalAdd
  <2>1. cmd.pid \in Pids \cup {-1} /\ cmd.mode \in {FG, BG}
    BY <1>1 DEF EvalAdd, Main, ShellInv, TypeOK, Command, NewChild
  <2> QED
    BY <1>0, <1>1, <2>1, AddSlots DEF EvalAdd
<1>2. CASE ForegroundJob \/ BackgroundJob
  <2>1. cmd.slot \in Slots
    BY <1>2 DEF ForegroundJob, BackgroundJob, Main, ShellInv, SlotPointer
  <2> QED
    BY <1>0, <1>2, <2>1, SetSlots DEF ForegroundJob, BackgroundJob, States
<1>3. CASE SigchldDelete
  <2>1. stack # <<>> /\ Head(stack).at = "ended"
    BY <1>3 DEF SigchldDelete, Handler
  <2>2. Head(stack) \in Frames /\ 1 \in DOMAIN stack /\ Head(stack) = stack[1]
    BY <1>0, <2>1 DEF Frames
  <2>3. Head(stack).pid \in Pids /\ child[Head(stack).pid] = "reaped"
    BY <2>1, <2>2 DEF ShellInv, FramePids, ChildInv, CollectedFrames
  <2> QED
    BY <1>0, <1>3, <2>3, DeleteSlots DEF SigchldDelete
<1>4. CASE SigchldStop
  <2> DEFINE k == getjobpid(jobs, Head(stack).pid)
  <2>1. CASE k # NULL /\ setstate(k, ST)
    <3>1. Head(stack).pid \in Int
      <4>1. stack # <<>>
        BY <1>4 DEF SigchldStop, Handler
      <4>2. Head(stack) \in Frame
        BY <1>0, <4>1
      <4>3. Head(stack).pid \in Pids \cup {0}
        BY <4>2 DEF Frame
      <4> HIDE DEF k
      <4>4. \A q \in Pids \cup {0} : q \in Int
        BY JobListAssumption
      <4> QED BY <4>3, <4>4
    <3>2. k \in Slots /\ jobs[k].pid = Head(stack).pid
      BY <1>0, <2>1, <3>1, GetjobpidFacts
    <3> HIDE DEF k
    <3> QED
      BY <1>0, <1>4, <2>1, <3>2, SetSlots DEF States
  <2>2. CASE k = NULL /\ UNCHANGED listVars
    BY <2>2 DEF listVars
  <2> QED BY <1>4, <2>1, <2>2 DEF SigchldStop
<1>5. CASE UNCHANGED jobs
  BY <1>5
<1> QED
  <2>1. CASE MainStep
    BY <1>1, <1>2, <1>5, <2>1 DEF MainStep, EvalJob, EvalBlankLine, Fork, ForkFails,
       EvalAnnounce, WaitfgEnter, WaitfgLeave, LookupJob, ContinueJob, listVars
  <2>2. CASE HandlerStep
    BY <1>3, <1>4, <1>5, <2>2 DEF HandlerStep, SigchldReap, SigchldReport,
       SigchldReturn, SigintRead, SigintKill, SigtstpRead, SigtstpKill, listVars
  <2>3. CASE \/ \E p \in Pids : SetPgid(p) \/ Exec(p) \/ Exit(p) \/ StopItself(p)
             \/ TypeCtrlC \/ TypeCtrlZ \/ Quit \/ \E sig \in Signals : Deliver(sig)
             \/ UNCHANGED vars
    BY <1>5, <2>3 DEF SetPgid, Exec, Exit, StopItself, TypeCtrlC, TypeCtrlZ, Quit,
       Deliver, vars, listVars
  <2> QED BY <2>1, <2>2, <2>3 DEF Next

Live == {"forked", "grouped", "running"}

\* Only the main program starts or continues a process.
LEMMA Stops ==
  ASSUME ShellInv, [Next]_vars, NEW p \in Pids
  PROVE  /\ child'[p] \in Live /\ child[p] \notin Live =>
               \/ Fork /\ child[p] = "none" /\ cmd'.pid = p
               \/ ContinueJob /\ child[p] = "stopped" /\ cmd.pid = p
         /\ child'[p] = "stopped" /\ child[p] # "stopped" =>
               /\ child[p] = "running" /\ p \in report'
               /\ \/ SigtstpKill /\ p \in Suspended(Head(stack).pid)
                  \/ StopItself(p)
         /\ p \in report' /\ p \notin report => child[p] = "running" /\ child'[p] = "stopped"
         /\ child[p] = "stopped" /\ child'[p] # "stopped" => ContinueJob /\ cmd.pid = p
<1>0. child \in [Pids -> ChildStates] /\ cmd \in Command
  BY DEF ShellInv, TypeOK
<1> USE DEF Live
<1>1. CASE Fork
  <2>1. PICK q \in Pids : /\ child[q] = "none"
                          /\ child' = [child EXCEPT ![q] = "forked"]
                          /\ cmd' = [cmd EXCEPT !.pid = q]
    BY <1>1 DEF Fork
  <2>2. cmd'.pid = q /\ report' = report
    BY <1>0, <1>1, <2>1 DEF Fork, Command
  <2> QED BY <1>0, <1>1, <2>1, <2>2
<1>2. CASE ContinueJob
  BY <1>0, <1>2 DEF ContinueJob
<1>3. CASE SigchldReap
  BY <1>0, <1>3 DEF SigchldReap, Zombies
<1>4. CASE SigintKill
  BY <1>0, <1>4 DEF SigintKill
<1>5. CASE SigtstpKill
  <2> DEFINE P == Suspended(Head(stack).pid)
  <2>1. \A q \in P : q \in Pids /\ child[q] = "running"
    BY DEF Suspended
  <2>2. report' = report \cup P /\ child'[p] = IF p \in P THEN "stopped" ELSE child[p]
    BY <1>5 DEF SigtstpKill, Stop
  <2> HIDE DEF P
  <2>3. p \in P => p \in Suspended(Head(stack).pid)
    BY DEF P
  <2> QED BY <1>0, <1>5, <2>1, <2>2, <2>3
<1>6. CASE \E q \in Pids : SetPgid(q) \/ Exec(q) \/ Exit(q)
  BY <1>0, <1>6 DEF SetPgid, Exec, Exit, Become
<1>7. CASE \E q \in Pids : StopItself(q)
  <2>1. PICK q \in Pids : StopItself(q)
    BY <1>7
  <2>2. /\ child[q] = "running" /\ report' = report \cup {q}
        /\ child'[p] = IF p \in {q} THEN "stopped" ELSE child[p]
    BY <2>1 DEF StopItself, Stop
  <2> QED BY <1>0, <2>1, <2>2
<1>8. CASE UNCHANGED child /\ report' \subseteq report
  BY <1>8
<1> QED
  <2>1. CASE MainStep
    BY <1>1, <1>2, <1>8, <2>1 DEF MainStep, EvalJob, EvalBlankLine, ForkFails, EvalAdd,
       EvalAnnounce, WaitfgEnter, WaitfgLeave, LookupJob, ForegroundJob, BackgroundJob,
       kernelVars
  <2>2. CASE HandlerStep
    BY <1>3, <1>4, <1>5, <1>8, <2>2 DEF HandlerStep, SigchldReport, SigchldDelete,
       SigchldStop, SigchldReturn, SigintRead, SigtstpRead, kernelVars
  <2>3. CASE TypeCtrlC \/ TypeCtrlZ \/ Quit \/ (\E sig \in Signals : Deliver(sig))
             \/ UNCHANGED vars
    BY <1>8, <2>3 DEF TypeCtrlC, TypeCtrlZ, Quit, Deliver, vars, kernelVars
  <2> QED BY <1>6, <1>7, <2>1, <2>2, <2>3 DEF Next

\* A frame is new, or the step is another handler's, or the frame moves on.
LEMMA FrameStep ==
  ASSUME ShellInv, [Next]_vars
  PROVE  /\ \A f \in Frames' :
               \/ f \in Frames
               \/ SigchldReport /\ f.at = "stopped" /\ f.pid \in report
               \/ /\ SigtstpRead /\ f.at = "kill" /\ f.pid = fgpid(jobs)
                  /\ fgpid(jobs) # 0 /\ UNCHANGED <<jobs, child, report>>
               \/ f.at \in {"entry", "ended"}
               \/ f.at = "kill" /\ f.sig = "INT"
         /\ \A f \in Frames : f \in Frames' \/ (HandlerStep /\ f = Head(stack))
         /\ \A f \in Frames : f.at = "stopped" =>
               f \in Frames' \/ (SigchldStop /\ f = Head(stack))
         /\ \A p \in report :
               \/ p \in report'
               \/ ContinueJob /\ p = cmd.pid
               \/ SigchldReport /\ \E f \in Frames' : f.at = "stopped" /\ f.pid = p
<1>0. stack \in Seq(Frame)
  BY DEF ShellInv, TypeOK
<1>1. CASE HandlerStep
  <2>0. stack # <<>>
    BY <1>1, HandlerAlone
  <2>1. ASSUME NEW at \in {"entry", "kill", "ended", "stopped"},
               NEW pid \in Pids \cup {0}, Goto(at, pid)
        PROVE  /\ \A f \in Frames' :
                     f \in Frames \/ (f.at = at /\ f.pid = pid /\ f.sig = Head(stack).sig)
               /\ \E f \in Frames' : f.at = at /\ f.pid = pid
               /\ Frames \subseteq Frames' \cup {Head(stack)}
    <3> DEFINE f == [sig |-> Head(stack).sig, at |-> at, pid |-> pid]
    <3>1. /\ f \in Frames' /\ Frames' \subseteq Frames \cup {f}
          /\ Frames \subseteq Frames' \cup {Head(stack)}
      BY <1>0, <2>0, <2>1, GotoFrames
    <3>2. f.at = at /\ f.pid = pid /\ f.sig = Head(stack).sig
      OBVIOUS
    <3> HIDE DEF f
    <3>3. \A g \in Frames' :
             g \in Frames \/ (g.at = at /\ g.pid = pid /\ g.sig = Head(stack).sig)
      BY <3>1, <3>2
    <3> QED BY <3>1, <3>2, <3>3
  <2>2. Return => Frames' \subseteq Frames /\ Frames \subseteq Frames' \cup {Head(stack)}
    BY <1>0, <2>0, ReturnFrames
  <2>3. CASE SigchldReap
    <3>1. PICK p \in Pids : Goto("ended", p)
      BY <2>3 DEF SigchldReap, Zombies
    <3> QED
      BY <1>1, <2>1, <2>3, <3>1 DEF SigchldReap, Handler
  <2>4. CASE SigchldReport
    <3>1. PICK p \in report : Goto("stopped", p) /\ report' = report \ {p}
      BY <2>4 DEF SigchldReport
    <3>2. p \in Pids
      BY DEF ShellInv, TypeOK
    <3> QED
      BY <1>1, <2>1, <2>4, <3>1, <3>2 DEF SigchldReport, Handler
  <2>5. CASE SigchldDelete
    BY <1>1, <2>1, <2>5 DEF SigchldDelete, Handler, kernelVars
  <2>6. CASE SigchldStop
    <3>1. CASE Goto("entry", 0)
      BY <1>1, <2>1, <2>6, <3>1 DEF SigchldStop, kernelVars
    <3>2. CASE UNCHANGED stack
      BY <2>6, <3>2 DEF SigchldStop, kernelVars, Frames
    <3> QED BY <2>6, <3>1, <3>2 DEF SigchldStop
  <2>7. CASE SigchldReturn
    BY <1>1, <2>2, <2>7 DEF SigchldReturn, Handler
  <2>8. CASE SigintRead
    <3>1. CASE Goto("kill", 0)
      BY <1>1, <2>1, <2>8, <3>1 DEF SigintRead, Handler, kernelVars
    <3>2. CASE Return
      BY <1>1, <2>2, <2>8, <3>2 DEF SigintRead, Handler, kernelVars
    <3> QED BY <2>8, <3>1, <3>2 DEF SigintRead
  <2>9. CASE SigintKill
    BY <1>1, <2>2, <2>9 DEF SigintKill, Handler
  <2>10. CASE SigtstpRead
    <3>0. fgpid(jobs) \in Pids \cup {0} /\ Head(stack).at = "entry"
      BY <2>10, FgpidType DEF SigtstpRead, Handler, ShellInv, TypeOK, ListTypeOK
    <3>1. CASE fgpid(jobs) # 0 /\ Goto("kill", fgpid(jobs))
      BY <1>1, <2>1, <2>10, <3>0, <3>1 DEF SigtstpRead, kernelVars, listVars
    <3>2. CASE Return
      BY <1>1, <2>2, <2>10, <3>0, <3>2 DEF SigtstpRead, kernelVars
    <3> QED BY <2>10, <3>1, <3>2 DEF SigtstpRead
  <2>11. CASE SigtstpKill
    BY <1>1, <2>2, <2>11 DEF SigtstpKill, Handler, Stop
  <2> QED
    BY <1>1, <2>3, <2>4, <2>5, <2>6, <2>7, <2>8, <2>9, <2>10, <2>11 DEF HandlerStep
<1>2. CASE \E sig \in Signals : Deliver(sig)
  <2>1. PICK sig \in Signals : Deliver(sig)
    BY <1>2
  <2> DEFINE f == [sig |-> sig, at |-> "entry", pid |-> 0]
  <2>2. f \in Frame /\ f.at = "entry" /\ stack' = <<f>> \o stack
    BY <2>1 DEF Frame, Deliver
  <2> HIDE DEF f
  <2>3. Frames' = Frames \cup {f}
    BY <1>0, <2>2, PushFrames
  <2> QED
    BY <2>1, <2>2, <2>3 DEF Deliver, kernelVars
<1>3. CASE UNCHANGED stack /\ report \subseteq report'
  BY <1>3 DEF Frames
<1>4. CASE ContinueJob
  BY <1>4 DEF ContinueJob, Frames
<1> QED
  <2>1. CASE MainStep
    BY <1>3, <1>4, <2>1 DEF MainStep, EvalJob, EvalBlankLine, Fork, ForkFails, EvalAdd,
       EvalAnnounce, WaitfgEnter, WaitfgLeave, LookupJob, ForegroundJob, BackgroundJob,
       kernelVars
  <2>2. CASE \/ \E p \in Pids : SetPgid(p) \/ Exec(p) \/ Exit(p) \/ StopItself(p)
             \/ TypeCtrlC \/ TypeCtrlZ \/ Quit \/ UNCHANGED vars
    BY <1>3, <2>2 DEF SetPgid, Exec, Exit, StopItself, Stop, TypeCtrlC, TypeCtrlZ, Quit,
       vars, kernelVars
  <2> QED BY <1>1, <1>2, <2>1, <2>2 DEF Next

\* Steps of anyone but the main program leave it where it is, or end it.
LEMMA MainStays ==
  ASSUME [Next]_vars, ~MainStep
  PROVE  UNCHANGED mainVars \/ (pc' \in Ended /\ cmd' = cmd)
<1>1. CASE HandlerStep
  BY <1>1 DEF HandlerStep, SigchldReap, SigchldReport, SigchldDelete, SigchldStop,
     SigchldReturn, SigintRead, SigintKill, SigtstpRead, SigtstpKill, mainVars, Ended
<1> QED
  BY <1>1 DEF Next, SetPgid, Exec, Exit, StopItself, TypeCtrlC, TypeCtrlZ, Quit, Deliver,
     vars, mainVars, Ended

-----------------------------------------------------------------------------
(* No child is forgotten but one that the list has no room for.            *)

LEMMA RoomForOne ==
  ASSUME ListInv, IsFiniteSet(Pids), Cardinality(Pids) <= MAXJOBS,
         NEW p \in Pids, p \notin Tracked(jobs)
  PROVE  FreeSlots(jobs) # {}
<1> SUFFICES ASSUME FreeSlots(jobs) = {} PROVE FALSE
  OBVIOUS
<1> DEFINE T == Pids \ {p}
           f == [i \in Slots |-> jobs[i].pid]
<1>0. jobs \in [Slots -> Job] /\ MAXJOBS \in Nat \ {0}
  BY JobListAssumption DEF ListInv, ListTypeOK
<1>1. IsFiniteSet(T) /\ Cardinality(T) = Cardinality(Pids) - 1
  BY FS_RemoveElement
<1>2. IsFiniteSet(Slots) /\ Cardinality(Slots) = MAXJOBS
  <2>1. IsFiniteSet(0 .. MAXJOBS - 1) /\ Cardinality(0 .. MAXJOBS - 1) = MAXJOBS
    BY <1>0, FS_Interval
  <2> QED BY <2>1 DEF Slots
<1>3. Cardinality(T) < Cardinality(Slots)
  BY <1>0, <1>1, <1>2, FS_CardinalityType
<1>4. f \in [Slots -> T]
  <2>1. \A i \in Slots : jobs[i].pid \in Pids \cup {0} /\ jobs[i].pid # 0
    BY <1>0 DEF FreeSlots, Job
  <2> QED BY <2>1 DEF Tracked
<1>5. PICK i \in Slots, k \in Slots : i # k /\ f[i] = f[k]
  <2> HIDE DEF f, T
  <2> QED BY <1>1, <1>2, <1>3, <1>4, FS_PigeonHole
<1> QED
  BY <1>5 DEF ListInv, PidUnique, FreeSlots

\* A listed job stays listed until its process has been collected.
LEMMA StaysListed ==
  ASSUME ShellInv, ChildInv, [Next]_vars, NEW p \in Tracked(jobs)
  PROVE  p \in Tracked(jobs') \/ child[p] = "reaped"
<1>1. PICK i \in Slots : jobs[i].pid = p /\ p # 0
  BY DEF Tracked
<1>2. jobs'[i].pid = p \/ child[p] = "reaped"
  BY <1>1, SlotStep
<1> QED
  BY <1>1, <1>2 DEF Tracked

\* A child comes to be only by fork; once it has been collected it stays so.
LEMMA ChildLives ==
  ASSUME ShellInv, [Next]_vars
  PROVE  \A p \in Pids :
            /\ child[p] = "reaped" => child'[p] = "reaped"
            /\ child[p] = "none" /\ child'[p] # "none" =>
                  /\ pc = "fork" /\ pc' = "add" /\ cmd'.pid = p
<1>0. child \in [Pids -> ChildStates] /\ cmd \in Command
  BY DEF ShellInv, TypeOK
<1>1. CASE Fork
  <2>1. PICK p \in Pids : /\ child[p] = "none"
                          /\ child' = [child EXCEPT ![p] = "forked"]
                          /\ cmd' = [cmd EXCEPT !.pid = p]
    BY <1>1 DEF Fork
  <2>2. cmd'.pid = p /\ pc = "fork" /\ pc' = "add"
    BY <1>0, <1>1, <2>1 DEF Fork, Main, Command
  <2> QED BY <1>0, <2>1, <2>2
<1>2. CASE ContinueJob \/ SigchldReap
  BY <1>0, <1>2 DEF ContinueJob, SigchldReap, Zombies
<1>3. CASE SigintKill
  BY <1>0, <1>3 DEF SigintKill
<1>4. CASE SigtstpKill
  BY <1>0, <1>4 DEF SigtstpKill, Stop, Suspended
<1>5. CASE \E p \in Pids : SetPgid(p) \/ Exec(p) \/ Exit(p) \/ StopItself(p)
  BY <1>0, <1>5 DEF SetPgid, Exec, Exit, StopItself, Become, Stop
<1>6. CASE UNCHANGED child
  BY <1>6
<1> QED
  <2>1. CASE MainStep
    BY <1>1, <1>2, <1>6, <2>1 DEF MainStep, EvalJob, EvalBlankLine, ForkFails, EvalAdd,
       EvalAnnounce, WaitfgEnter, WaitfgLeave, LookupJob, ForegroundJob, BackgroundJob,
       kernelVars
  <2>2. CASE HandlerStep
    BY <1>2, <1>3, <1>4, <1>6, <2>2 DEF HandlerStep, SigchldReport, SigchldDelete,
       SigchldStop, SigchldReturn, SigintRead, SigtstpRead, kernelVars
  <2>3. CASE TypeCtrlC \/ TypeCtrlZ \/ Quit \/ (\E sig \in Signals : Deliver(sig))
             \/ UNCHANGED vars
    BY <1>6, <2>3 DEF TypeCtrlC, TypeCtrlZ, Quit, Deliver, vars, kernelVars
  <2> QED BY <1>5, <2>1, <2>2, <2>3 DEF Next

LEMMA ForgottenStep ==
  ASSUME ShellInv, ChildInv, [Next]_vars, NEW p \in Pids, ~Forgotten(p), Forgotten(p)'
  PROVE  /\ pc = "add" /\ cmd.pid = p /\ p \notin Tracked(jobs)
         /\ \A i \in Slots : jobs[i].pid # 0
<1>0. /\ child'[p] \notin {"none", "reaped"} /\ p \notin Tracked(jobs')
      /\ ~(pc' \in {"add", "exited"} /\ cmd'.pid = p)
  BY DEF Forgotten
<1>1. child[p] \notin {"none", "reaped"}
  BY <1>0, ChildLives
<1>2. p \notin Tracked(jobs)
  BY <1>0, <1>1, StaysListed
<1>3. pc \in {"add", "exited"} /\ cmd.pid = p
  BY <1>1, <1>2 DEF Forgotten
<1>4. CASE EvalAdd
  <2>1. cmd.mode \in {FG, BG} /\ ListInv /\ addjob(p, cmd.mode) /\ pc = "add"
    BY <1>3, <1>4 DEF EvalAdd, Main, ShellInv, TypeOK, Command
  <2>2. FreeSlots(jobs) = {}
    <3> SUFFICES ASSUME FreeSlots(jobs) # {} PROVE FALSE
      OBVIOUS
    <3>1. PICK i \in Slots : jobs'[i].pid = p
      BY <2>1, AddSlots
    <3> QED BY <1>0, <3>1, JobListAssumption DEF Tracked
  <2> QED BY <1>2, <1>3, <2>1, <2>2 DEF FreeSlots
<1>5. CASE Quit
  BY <1>0, <1>3, <1>5 DEF Quit
<1>6. CASE UNCHANGED mainVars
  BY <1>0, <1>3, <1>6 DEF mainVars
<1>7. CASE MainStep
  BY <1>0, <1>2, <1>3, <1>4, <1>7 DEF MainStep, Main, Undisturbed, Running, Ended, EvalJob,
     EvalBlankLine, Fork, ForkFails, EvalAnnounce, WaitfgEnter, WaitfgLeave,
     LookupJob, ContinueJob, ForegroundJob, BackgroundJob
<1>8. CASE HandlerStep
  <2>1. pc = "add" => FALSE
    BY <1>8, HandlerAlone DEF Blocked
  <2> QED BY <1>3, <1>8, <2>1, HandlerAlone DEF Running, Ended
<1> QED
  BY <1>5, <1>6, <1>7, <1>8 DEF Next, SetPgid, Exec, Exit, StopItself, TypeCtrlC,
     TypeCtrlZ, Deliver, vars

\* No child is forgotten but one that addjob finds no room for: no handler, and
\* no deletejob for a child that has no job, takes the job of a living one.
THEOREM NoChildForgotten == Spec => NoForgottenChild
<1>1. ShellInv /\ ChildInv /\ [Next]_vars =>
        [\A p \in Pids : ~Forgotten(p) /\ Forgotten(p)' =>
            /\ pc = "add" /\ cmd.pid = p
            /\ \A i \in Slots : jobs[i].pid # 0]_vars
  BY ForgottenStep
<1> QED
  BY <1>1, ShellInvariant, ChildInvariant, PTL DEF Spec, NoForgottenChild

\* With room for all, every child is listed from addjob until it is collected.
THEOREM AllListed ==
  ASSUME IsFiniteSet(Pids), Cardinality(Pids) <= MAXJOBS
  PROVE  Spec => [](\A p \in Pids : ~Forgotten(p))
<1> DEFINE Inv == \A p \in Pids : ~Forgotten(p)
<1>1. Init => Inv
  BY DEF Init, Forgotten
<1>2. ShellInv /\ ChildInv /\ Inv /\ [Next]_vars => Inv'
  <2> SUFFICES ASSUME ShellInv, ChildInv, Inv, [Next]_vars, NEW p \in Pids, Forgotten(p)'
               PROVE  FALSE
    OBVIOUS
  <2>1. p \notin Tracked(jobs) /\ FreeSlots(jobs) = {}
    BY ForgottenStep DEF FreeSlots
  <2> QED BY <2>1, RoomForOne DEF ShellInv
<1> HIDE DEF Inv
<1>3. Spec => []Inv
  BY <1>1, <1>2, ShellInvariant, ChildInvariant, PTL DEF Spec
<1> QED
  BY <1>3 DEF Inv

-----------------------------------------------------------------------------
(* Without fg, nothing but eval writes FG, and only for the job it is      *)
(* about to wait for.  (With fg, do_bgfg may write FG to a slot that has   *)
(* been cleared: the run ShellTwoFg.)                                      *)

\* A foreground job is a listed one, and the main program waits for it.
FgAwaited ==
    \A i \in Slots : jobs[i].state = FG =>
        jobs[i].pid # 0 /\ (Running => pc \in {"wait", "spin"} /\ jobs[i].pid = cmd.pid)

\* No process is forked while there is a foreground job.
NoInheritedFg == \A p \in Pids : inh[p] = 0

BgOnly == pc \in {"cont", "write"} => cmd.mode = BG

\* The process that the SIGTSTP handler is going to signal is in the foreground
\* until it ends or stops.
TstpFrames ==
    \A f \in Frames : f.sig = "TSTP" /\ f.at = "kill" =>
        /\ f.pid \in Pids
        /\ child[f.pid] \in Live =>
              \E i \in Slots : jobs[i].pid = f.pid /\ jobs[i].state = FG

FgInv == FgAwaited /\ NoInheritedFg /\ BgOnly /\ TstpFrames

LEMMA InitFgInv == Init => FgInv
BY DEF Init, FgInv, FgAwaited, NoInheritedFg, BgOnly, TstpFrames, Frames, initjobs,
   Cleared, UNDEF, FG

\* Of a foreground job's two loops, neither ends while it is in the foreground.
LEMMA WaitfgStays ==
  ASSUME ShellInv, NEW i \in Slots, jobs[i].state = FG, jobs[i].pid = cmd.pid,
         jobs[i].pid # 0, FgAwaited, Running, WaitfgEnter \/ WaitfgLeave
  PROVE  pc' = "spin" /\ cmd' = cmd
<1>0. jobs \in [Slots -> Job] /\ cmd.pid \in Int /\ cmd.pid >= 1
  <2>1. jobs \in [Slots -> Job]
    BY DEF ShellInv, TypeOK, ListTypeOK
  <2>2. cmd.pid \in Pids
    BY <2>1 DEF Job
  <2> QED BY <2>1, <2>2, PidFacts
<1>1. getjobpid(jobs, cmd.pid) # NULL
  BY <1>0, GetjobpidFacts, FirstFacts
<1>2. fgpid(jobs) = cmd.pid
  <2>1. \A k \in Slots : jobs[k].state = FG => jobs[k].pid = cmd.pid
    BY DEF FgAwaited
  <2> QED BY <1>0, <2>1, FgpidFacts
<1> QED
  BY <1>1, <1>2 DEF WaitfgEnter, WaitfgLeave

LEMMA FgAwaitedStep ==
  ASSUME ShellInv, ChildInv, FgInv, [Next]_vars
  PROVE  FgAwaited'
<1> SUFFICES ASSUME NEW i \in Slots, jobs'[i].state = FG
             PROVE  /\ jobs'[i].pid # 0
                    /\ Running' => pc' \in {"wait", "spin"} /\ jobs'[i].pid = cmd'.pid
  BY DEF FgAwaited
<1> USE DEF FgInv
<1>1. CASE jobs'[i] = jobs[i]
  <2>1. /\ jobs[i].pid # 0 /\ jobs[i].state = FG
        /\ Running => pc \in {"wait", "spin"} /\ jobs[i].pid = cmd.pid
    BY <1>1 DEF FgAwaited
  <2>2. CASE MainStep
    <3>1. Running /\ pc \in {"wait", "spin"} /\ jobs[i].pid = cmd.pid
      BY <2>1, <2>2, MainAlone
    <3>2. WaitfgEnter \/ WaitfgLeave
      BY <2>2, <3>1 DEF MainStep, Main, EvalJob, EvalBlankLine, Fork, ForkFails, EvalAdd,
         EvalAnnounce, LookupJob, ContinueJob, ForegroundJob, BackgroundJob
    <3>3. pc' = "spin" /\ cmd' = cmd
      BY <2>1, <3>1, <3>2, WaitfgStays
    <3> QED BY <1>1, <2>1, <3>1, <3>3
  <2>3. CASE ~MainStep
    BY <1>1, <2>1, <2>3, MainStays DEF mainVars, Running
  <2> QED BY <2>2, <2>3
<1>2. CASE EvalAdd /\ cmd.pid \in Pids /\ jobs'[i].pid = cmd.pid /\ jobs'[i].state = cmd.mode
  BY <1>2, JobListAssumption DEF EvalAdd
<1>3. ~ForegroundJob
  BY DEF ForegroundJob, Main, BgOnly, FG, BG
<1> QED
  BY <1>1, <1>2, <1>3, SlotStep DEF Cleared, UNDEF, FG, BG, ST

LEMMA NoInheritedFgStep ==
  ASSUME ShellInv, FgInv, [Next]_vars
  PROVE  NoInheritedFg'
<1> USE DEF FgInv, NoInheritedFg
<1>1. CASE Fork
  <2>1. \A i \in Slots : jobs[i].state # FG
    BY <1>1 DEF Fork, Main, Undisturbed, FgAwaited
  <2>2. fgpid(jobs) = 0
    BY <2>1, FgpidFacts DEF ShellInv, TypeOK, ListTypeOK
  <2> QED
    BY <1>1, <2>2 DEF Fork, ShellInv, TypeOK
<1>2. CASE UNCHANGED inh
  BY <1>2
<1> QED
  <2>1. CASE MainStep
    BY <1>1, <1>2, <2>1 DEF MainStep, EvalJob, EvalBlankLine, ForkFails, EvalAdd,
       EvalAnnounce, WaitfgEnter, WaitfgLeave, LookupJob, ContinueJob, ForegroundJob,
       BackgroundJob, kernelVars
  <2>2. CASE HandlerStep
    BY <1>2, <2>2 DEF HandlerStep, SigchldReap, SigchldReport, SigchldDelete, SigchldStop,
       SigchldReturn, SigintRead, SigintKill, SigtstpRead, SigtstpKill, kernelVars
  <2>3. CASE \/ \E p \in Pids : SetPgid(p) \/ Exec(p) \/ Exit(p) \/ StopItself(p)
             \/ TypeCtrlC \/ TypeCtrlZ \/ Quit \/ (\E sig \in Signals : Deliver(sig))
             \/ UNCHANGED vars
    BY <1>2, <2>3 DEF SetPgid, Exec, Exit, StopItself, TypeCtrlC, TypeCtrlZ, Quit, Deliver,
       vars, kernelVars
  <2> QED BY <2>1, <2>2, <2>3 DEF Next

LEMMA BgOnlyStep ==
  ASSUME "fg" \notin Builtins, BgOnly, [Next]_vars
  PROVE  BgOnly'
<1>1. CASE MainStep
  BY <1>1 DEF MainStep, Main, EvalJob, EvalBlankLine, Fork, ForkFails, EvalAdd,
     EvalAnnounce, WaitfgEnter, WaitfgLeave, LookupJob, ContinueJob, ForegroundJob,
     BackgroundJob, DoneEvaluating, BgOnly
<1>2. CASE ~MainStep
  BY <1>2, MainStays DEF mainVars, BgOnly, Ended
<1> QED
  BY <1>1, <1>2

LEMMA TstpFramesStep ==
  ASSUME ShellInv, ChildInv, FgInv, [Next]_vars
  PROVE  TstpFrames'
<1> SUFFICES ASSUME NEW f \in Frames', f.sig = "TSTP", f.at = "kill"
             PROVE  /\ f.pid \in Pids
                    /\ child'[f.pid] \in Live =>
                          \E i \in Slots : jobs'[i].pid = f.pid /\ jobs'[i].state = FG
  BY DEF TstpFrames
<1>0. jobs \in [Slots -> Job]
  BY DEF ShellInv, TypeOK, ListTypeOK
<1>1. CASE f \in Frames
  <2>1. /\ f.pid \in Pids
        /\ child[f.pid] \in Live =>
              \E i \in Slots : jobs[i].pid = f.pid /\ jobs[i].state = FG
    BY <1>1 DEF FgInv, TstpFrames
  <2>2. ~MainStep
    BY <1>1, MainAlone
  <2> SUFFICES ASSUME child'[f.pid] \in Live
               PROVE  \E i \in Slots : jobs'[i].pid = f.pid /\ jobs'[i].state = FG
    BY <2>1
  <2>3. child[f.pid] \in Live
    BY <2>1, <2>2, Stops DEF MainStep
  <2>4. PICK i \in Slots : jobs[i].pid = f.pid /\ jobs[i].state = FG
    BY <2>1, <2>3
  <2>5. ~(SigchldStop /\ Head(stack).pid = f.pid)
    <3> SUFFICES ASSUME SigchldStop, Head(stack).pid = f.pid PROVE FALSE
      OBVIOUS
    <3>1. stack \in Seq(Frame) /\ stack # <<>> /\ Head(stack).at = "stopped"
      BY DEF SigchldStop, Handler, ShellInv, TypeOK
    <3>2. Head(stack) \in Frames
      BY <3>1 DEF Frames
    <3> QED
      BY <2>3, <3>1, <3>2 DEF ChildInv, StoppedFrames, Live
  <2>6. jobs'[i] = jobs[i]
    BY <2>2, <2>3, <2>4, <2>5, SlotStep DEF MainStep, Live
  <2> QED BY <2>4, <2>6
<1>2. CASE f.pid = fgpid(jobs) /\ fgpid(jobs) # 0 /\ UNCHANGED <<jobs, child>>
  <2>1. PICK i \in Slots : jobs[i].state = FG /\ fgpid(jobs) = jobs[i].pid
    BY <1>0, <1>2, FgpidFacts
  <2>2. f.pid \in Pids
    BY <1>0, <1>2, <2>1 DEF Job
  <2> QED BY <1>2, <2>1, <2>2
<1> QED
  BY <1>1, <1>2, FrameStep

\* Without fg, FG is written and cleared in step with eval's waiting.
THEOREM FgInvariant ==
  ASSUME "fg" \notin Builtins
  PROVE  Spec => []FgInv
<1>1. Init => FgInv
  BY InitFgInv
<1>2. ShellInv /\ ChildInv /\ FgInv /\ [Next]_vars => FgInv'
  BY FgAwaitedStep, NoInheritedFgStep, BgOnlyStep, TstpFramesStep DEF FgInv
<1> QED
  BY <1>1, <1>2, ShellInvariant, ChildInvariant, PTL DEF Spec

\* Without fg, a job is in the foreground only while the main program waits for
\* it, so there is at most one and none at the prompt.
THEOREM ForegroundAwaited ==
  ASSUME "fg" \notin Builtins
  PROVE  Spec => []ForegroundIsAwaited
<1>1. FgInv => ForegroundIsAwaited
  BY DEF FgInv, FgAwaited, ForegroundIsAwaited
<1> QED
  BY <1>1, FgInvariant, PTL

\* The process that ctrl-z stops is in the foreground at that moment, although
\* the handler has read its PID earlier.
LEMMA StopsForeground ==
  ASSUME ShellInv, FgInv, SigtstpKill, NEW p \in Suspended(Head(stack).pid)
  PROVE  /\ p \in Pids /\ child[p] = "running"
         /\ \E i \in Slots : jobs[i].pid = p /\ jobs[i].state = FG
<1>1. stack \in Seq(Frame) /\ stack # <<>>
      /\ Head(stack).sig = "TSTP" /\ Head(stack).at = "kill"
  BY DEF SigtstpKill, Handler, ShellInv, TypeOK
<1>2. Head(stack) \in Frames
  BY <1>1 DEF Frames
<1>3. /\ Head(stack).pid \in Pids
      /\ child[Head(stack).pid] \in Live =>
            \E i \in Slots : jobs[i].pid = Head(stack).pid /\ jobs[i].state = FG
  BY <1>1, <1>2 DEF FgInv, TstpFrames
<1>4. p \in Pids /\ child[p] = "running" /\ p = Head(stack).pid
  BY <1>3, JobListAssumption DEF Suspended, FgInv, NoInheritedFg
<1> QED
  BY <1>3, <1>4 DEF Live

\* Without fg, ctrl-z stops no process but the foreground job's.
THEOREM CtrlZStopsOnlyForeground ==
  ASSUME "fg" \notin Builtins
  PROVE  Spec => StopsOnlyForeground
<1>1. ShellInv /\ FgInv /\ [Next]_vars =>
        [SigtstpKill => \A p \in Pids : child'[p] # child[p] =>
            \E i \in Slots : jobs[i].pid = p /\ jobs[i].state = FG]_vars
  <2> SUFFICES ASSUME ShellInv, FgInv, SigtstpKill, NEW p \in Pids, child'[p] # child[p]
               PROVE  \E i \in Slots : jobs[i].pid = p /\ jobs[i].state = FG
    OBVIOUS
  <2>1. p \in Suspended(Head(stack).pid)
    BY DEF SigtstpKill, Stop
  <2> QED BY <2>1, StopsForeground
<1> QED
  BY <1>1, ShellInvariant, FgInvariant, PTL DEF Spec, StopsOnlyForeground

-----------------------------------------------------------------------------
(* Without fg and without programs that stop themselves, a process is      *)
(* stopped by ctrl-z only, hence in the foreground, and the handler has    *)
(* recorded the stop before the main program moves on.                     *)

\* The SIGCHLD handler still has to learn that p has stopped, or to record it.
StopPending(p) == p \in report \/ \E f \in Frames : f.at = "stopped" /\ f.pid = p

PendingListed ==
    \A p \in Pids : StopPending(p) =>
        \E i \in Slots : jobs[i].pid = p /\ jobs[i].state \in {FG, ST}

StateKnown == \A i \in Slots : jobs[i].pid # 0 => jobs[i].state # UNDEF

\* do_bgfg's job pointer: the slot holds the job looked up, or is free by now,
\* and no other slot holds it.
PointerHolds ==
    pc \in {"cont", "write"} =>
        /\ cmd.pid \in Pids /\ jobs[cmd.slot].pid \in {0, cmd.pid}
        /\ \A i \in Slots : jobs[i].pid = cmd.pid => i = cmd.slot

\* A process that is new, or that has just been continued, is not stopped.
NotStopped == pc \in {"add", "write"} /\ cmd.pid \in Pids => child[cmd.pid] # "stopped"

\* A job listed as stopped is, but for the one that bg is about to mark.
ListedStopped ==
    Running => \A i \in Slots : jobs[i].pid # 0 /\ jobs[i].state = ST =>
        child[jobs[i].pid] = "stopped" \/ (pc = "write" /\ cmd.slot = i)

\* A job that has stopped is listed as such, or soon will be.
StoppedListed ==
    \A i \in Slots : jobs[i].pid # 0 /\ child[jobs[i].pid] = "stopped" =>
        jobs[i].state = ST \/ StopPending(jobs[i].pid)

StopInv == /\ PendingListed /\ StateKnown /\ PointerHolds
           /\ NotStopped /\ ListedStopped /\ StoppedListed

LEMMA InitStopInv == Init => StopInv
BY DEF Init, StopInv, PendingListed, StateKnown, PointerHolds, NotStopped, ListedStopped,
   StoppedListed, StopPending, Frames, initjobs, Cleared

\* What SlotStep says, without fg.
LEMMA SlotStepBg ==
  ASSUME ShellInv, ChildInv, FgInv, [Next]_vars, NEW i \in Slots
  PROVE  \/ jobs'[i] = jobs[i]
         \/ /\ EvalAdd /\ jobs[i].pid = 0 /\ cmd.pid \in Pids
            /\ jobs'[i].pid = cmd.pid /\ jobs'[i].state \in {FG, BG}
         \/ /\ BackgroundJob /\ i = cmd.slot
            /\ jobs'[i].pid = jobs[i].pid /\ jobs'[i].state = BG
         \/ /\ SigchldDelete /\ jobs'[i].pid = 0
            /\ jobs[i].pid \in Pids /\ child[jobs[i].pid] = "reaped"
         \/ /\ SigchldStop /\ jobs[i].pid = Head(stack).pid
            /\ StopPending(jobs[i].pid) /\ child[jobs[i].pid] = "stopped"
            /\ jobs'[i].pid = jobs[i].pid /\ jobs'[i].state = ST
<1>1. EvalAdd => cmd.mode \in {FG, BG}
  BY DEF ShellInv, TypeOK, Command
<1>2. ~ForegroundJob
  BY DEF ForegroundJob, Main, FgInv, BgOnly, FG, BG
<1>3. ASSUME SigchldStop, jobs[i].pid = Head(stack).pid
      PROVE  StopPending(jobs[i].pid) /\ child[jobs[i].pid] = "stopped"
  <2>1. stack \in Seq(Frame) /\ stack # <<>> /\ Head(stack).at = "stopped"
    BY <1>3 DEF SigchldStop, Handler, ShellInv, TypeOK
  <2>2. Head(stack) \in Frames
    BY <2>1 DEF Frames
  <2> QED BY <1>3, <2>1, <2>2 DEF StopPending, ChildInv, StoppedFrames
<1>4. Cleared.pid = 0
  BY DEF Cleared
<1> QED
  BY <1>1, <1>2, <1>3, <1>4, SlotStep

\* A pending stop is of a stopped process.
LEMMA PendingStopped ==
  ASSUME ChildInv, NEW p, StopPending(p)
  PROVE  child[p] = "stopped"
BY DEF ChildInv, StoppedFrames, StopPending

\* While signals are not blocked, the main program moves only when every stop
\* has been recorded.
LEMMA NonePending ==
  ASSUME ChildInv, MainStep, ~Blocked, NEW p
  PROVE  ~StopPending(p)
BY AllHandled, MainAlone DEF StopPending

\* A process that stops is in the foreground, and the main program waits for it.
LEMMA NewlyStopped ==
  ASSUME ~SelfStop, ShellInv, FgInv, [Next]_vars, NEW p \in Pids,
         child[p] # "stopped", child'[p] = "stopped"
  PROVE  /\ SigtstpKill /\ p \in report' /\ pc \in {"wait", "spin"} /\ UNCHANGED <<jobs, pc>>
         /\ \E i \in Slots : jobs[i].pid = p /\ jobs[i].state = FG
<1>1. SigtstpKill /\ p \in Suspended(Head(stack).pid) /\ p \in report'
  BY Stops DEF StopItself
<1>2. PICK i \in Slots : jobs[i].pid = p /\ jobs[i].state = FG
  BY <1>1, StopsForeground
<1>3. pc \in {"wait", "spin"}
  BY <1>1, <1>2 DEF FgInv, FgAwaited, SigtstpKill, Handler, Undisturbed
<1> QED
  BY <1>1, <1>2, <1>3 DEF SigtstpKill, listVars, mainVars

LEMMA PendingListedStep ==
  ASSUME ~SelfStop, ShellInv, ChildInv, FgInv, StopInv, [Next]_vars
  PROVE  PendingListed'
<1> SUFFICES ASSUME NEW p \in Pids, StopPending(p)'
             PROVE  \E i \in Slots : jobs'[i].pid = p /\ jobs'[i].state \in {FG, ST}
  BY DEF PendingListed
<1>1. CASE StopPending(p)
  <2>1. child[p] = "stopped"
    BY <1>1, PendingStopped
  <2>2. PICK i \in Slots : jobs[i].pid = p /\ jobs[i].state \in {FG, ST}
    BY <1>1 DEF StopInv, PendingListed
  <2>3. ~BackgroundJob
    BY <1>1, NonePending DEF MainStep, BackgroundJob, Main, Blocked
  <2> QED
    BY <2>1, <2>2, <2>3, SlotStepBg, JobListAssumption
<1>2. CASE ~StopPending(p)
  <2>1. p \in report' /\ p \notin report
    BY <1>2, FrameStep DEF StopPending
  <2>2. child[p] = "running" /\ child'[p] = "stopped"
    BY <2>1, Stops
  <2> QED
    BY <2>2, NewlyStopped
<1> QED
  BY <1>1, <1>2

LEMMA StateKnownStep ==
  ASSUME ShellInv, ChildInv, FgInv, StateKnown, [Next]_vars
  PROVE  StateKnown'
BY SlotStepBg DEF StateKnown, FG, BG, ST, UNDEF

LEMMA PointerHoldsStep ==
  ASSUME ShellInv, ChildInv, FgInv, PointerHolds, [Next]_vars
  PROVE  PointerHolds'
<1> SUFFICES ASSUME pc' \in {"cont", "write"}
             PROVE  /\ cmd'.pid \in Pids /\ jobs'[cmd'.slot].pid \in {0, cmd'.pid}
                    /\ \A i \in Slots : jobs'[i].pid = cmd'.pid => i = cmd'.slot
  BY DEF PointerHolds
<1>0. jobs \in [Slots -> Job] /\ 0 \notin Pids /\ ListInv
  BY JobListAssumption DEF ShellInv, TypeOK, ListTypeOK
<1>1. CASE pc \in {"cont", "write"} /\ UNCHANGED cmd /\ ~EvalAdd
  <2>1. /\ cmd.pid \in Pids /\ jobs[cmd.slot].pid \in {0, cmd.pid} /\ cmd.slot \in Slots
        /\ \A i \in Slots : jobs[i].pid = cmd.pid => i = cmd.slot
    BY <1>1 DEF PointerHolds, ShellInv, SlotPointer
  <2>2. \A i \in Slots : jobs'[i].pid \in {0, jobs[i].pid}
    BY <1>1, SlotStepBg
  <2> QED
    BY <1>0, <1>1, <2>1, <2>2
<1>2. ASSUME NEW name, NEW mode, LookupJob(name, mode)
      PROVE  /\ cmd'.pid \in Pids /\ jobs'[cmd'.slot].pid = cmd'.pid
             /\ \A i \in Slots : jobs'[i].pid = cmd'.pid => i = cmd'.slot
  <2>1. PICK k \in {getjobpid(jobs, p) : p \in Pids}
                   \cup {getjobjid(jobs, jobs[s].jid) : s \in Slots} :
           k # NULL /\ cmd' = [mode |-> mode, pid |-> jobs[k].pid, slot |-> k]
    BY <1>2 DEF LookupJob
  <2>2. k \in Slots /\ jobs[k].pid # 0
    <3>1. ASSUME NEW p \in Pids, k = getjobpid(jobs, p) PROVE k \in Slots /\ jobs[k].pid # 0
      <4>1. p \in Int /\ p # 0
        BY JobListAssumption
      <4> QED BY <1>0, <2>1, <3>1, <4>1, GetjobpidFacts
    <3>2. ASSUME NEW s \in Slots, k = getjobjid(jobs, jobs[s].jid)
          PROVE  k \in Slots /\ jobs[k].pid # 0
      <4> DEFINE j == jobs[s].jid
                 S == {i \in Slots : jobs[i].jid = j}
      <4>1. j \in Nat
        BY <1>0 DEF Job
      <4>2. ~(j < 1) /\ k = First(S)
        BY <2>1, <3>2 DEF getjobjid
      <4>3. k \in S
        BY <2>1, <4>2, FirstFacts
      <4>4. jobs[k].jid # 0
        BY <4>1, <4>2, <4>3
      <4> QED BY <4>3, <4>4 DEF ShellInv, ListInv, JidIffUsed
    <3> QED BY <2>1, <3>1, <3>2
  <2>3. jobs[k].pid \in Pids
    BY <1>0, <2>2 DEF Job
  <2>4. \A i \in Slots : jobs[i].pid = jobs[k].pid => i = k
    BY <1>0, <2>2 DEF ListInv, PidUnique
  <2>5. jobs' = jobs
    BY <1>2 DEF LookupJob, listVars
  <2> QED BY <2>1, <2>3, <2>4, <2>5
<1>3. CASE MainStep
  <2>1. CASE ContinueJob
    BY <1>1, <2>1 DEF ContinueJob, Main, EvalAdd
  <2> QED
    BY <1>2, <1>3, <2>1 DEF MainStep, Main, EvalJob, EvalBlankLine, Fork, ForkFails,
       EvalAdd, EvalAnnounce, WaitfgEnter, WaitfgLeave, ForegroundJob,
       BackgroundJob, DoneEvaluating
<1>4. CASE ~MainStep
  BY <1>1, <1>4, MainStays DEF mainVars, Ended, MainStep
<1> QED
  BY <1>3, <1>4

LEMMA NotStoppedStep ==
  ASSUME ~SelfStop, ShellInv, FgInv, NotStopped, [Next]_vars
  PROVE  NotStopped'
<1> SUFFICES ASSUME pc' \in {"add", "write"}, cmd'.pid \in Pids
             PROVE  child'[cmd'.pid] # "stopped"
  BY DEF NotStopped
<1>0. child \in [Pids -> ChildStates] /\ cmd \in Command
  BY DEF ShellInv, TypeOK
<1>1. CASE Fork
  <2>1. PICK p \in Pids : /\ child' = [child EXCEPT ![p] = "forked"]
                          /\ cmd' = [cmd EXCEPT !.pid = p]
    BY <1>1 DEF Fork
  <2>2. cmd'.pid = p
    BY <1>0, <2>1 DEF Command
  <2> QED BY <1>0, <2>1, <2>2
<1>2. CASE ForkFails
  BY <1>0, <1>2, JobListAssumption DEF ForkFails, Command
<1>3. CASE ContinueJob
  BY <1>0, <1>3 DEF ContinueJob
<1>4. CASE ~MainStep
  <2>1. pc \in {"add", "write"} /\ cmd' = cmd
    BY <1>4, MainStays DEF mainVars, Ended
  <2> QED
    BY <2>1, NewlyStopped DEF NotStopped
<1>5. CASE MainStep /\ ~Fork /\ ~ForkFails /\ ~ContinueJob
  BY <1>5 DEF MainStep, EvalJob, EvalBlankLine, EvalAdd, EvalAnnounce,
     WaitfgEnter, WaitfgLeave, LookupJob, ForegroundJob, BackgroundJob, DoneEvaluating
<1> QED
  BY <1>1, <1>2, <1>3, <1>4, <1>5

LEMMA ListedStoppedStep ==
  ASSUME ShellInv, ChildInv, FgInv, StopInv, [Next]_vars
  PROVE  ListedStopped'
<1> SUFFICES ASSUME Running', NEW i \in Slots, jobs'[i].pid # 0, jobs'[i].state = ST
             PROVE  child'[jobs'[i].pid] = "stopped" \/ (pc' = "write" /\ cmd'.slot = i)
  BY DEF ListedStopped
<1>0. jobs \in [Slots -> Job] /\ ListInv
  BY DEF ShellInv, TypeOK, ListTypeOK
<1>r. Running
  BY MainAlone, MainStays DEF mainVars, Running, Ended
<1>1. CASE jobs'[i] = jobs[i]
  <2> DEFINE p == jobs[i].pid
  <2>0. p \in Pids /\ p # 0
    BY <1>0, <1>1 DEF Job
  <2>1. CASE child[p] = "stopped"
    <3>1. CASE child'[p] = "stopped"
      BY <1>1, <3>1
    <3>2. CASE child'[p] # "stopped"
      <4>1. ContinueJob /\ cmd.pid = p
        BY <2>0, <2>1, <3>2, Stops
      <4>2. pc = "cont" /\ pc' = "write" /\ cmd' = cmd
        BY <4>1 DEF ContinueJob, Main
      <4> QED BY <4>1, <4>2 DEF StopInv, PointerHolds
    <3> QED BY <3>1, <3>2
  <2>2. CASE pc = "write" /\ cmd.slot = i
    <3>1. CASE MainStep
      <4>1. BackgroundJob \/ ForegroundJob
        BY <2>2, <3>1 DEF MainStep, Main, EvalJob, EvalBlankLine, Fork, ForkFails, EvalAdd,
           EvalAnnounce, WaitfgEnter, WaitfgLeave, LookupJob, ContinueJob
      <4>2. jobs'[i].state \in {FG, BG}
        BY <1>0, <2>2, <4>1, SetSlots DEF BackgroundJob, ForegroundJob, States
      <4> QED BY <4>2 DEF FG, BG, ST
    <3>2. CASE ~MainStep
      BY <2>2, <3>2, MainStays DEF mainVars, Running
    <3> QED BY <3>1, <3>2
  <2> QED
    BY <1>r, <1>1, <2>1, <2>2 DEF StopInv, ListedStopped
<1>2. CASE SigchldStop /\ child[jobs[i].pid] = "stopped" /\ jobs'[i].pid = jobs[i].pid
  BY <1>2 DEF SigchldStop, kernelVars
<1> QED
  BY <1>1, <1>2, SlotStepBg DEF FG, BG, ST

LEMMA StoppedListedStep ==
  ASSUME ~SelfStop, ShellInv, ChildInv, FgInv, StopInv, [Next]_vars
  PROVE  StoppedListed'
<1> SUFFICES ASSUME NEW i \in Slots, jobs'[i].pid # 0, child'[jobs'[i].pid] = "stopped",
                    jobs'[i].state # ST
             PROVE  StopPending(jobs[i].pid)'
  BY DEF StoppedListed
<1>0. jobs \in [Slots -> Job] /\ ListInv /\ child \in [Pids -> ChildStates]
  BY DEF ShellInv, TypeOK, ListTypeOK
<1>1. CASE jobs'[i] = jobs[i]
  <2> DEFINE p == jobs[i].pid
  <2>0. p \in Pids /\ p # 0
    BY <1>0, <1>1 DEF Job
  <2>1. CASE child[p] # "stopped"
    <3>1. p \in report'
      BY <1>1, <2>0, <2>1, NewlyStopped
    <3> QED BY <1>1, <3>1 DEF StopPending
  <2>2. CASE child[p] = "stopped"
    <3>1. StopPending(p)
      BY <1>1, <2>0, <2>2 DEF StopInv, StoppedListed
    <3>2. CASE p \in report
      <4>1. ~(ContinueJob /\ p = cmd.pid)
        BY <1>0, <1>1, <2>0, <2>2 DEF ContinueJob
      <4>2. p \in report' \/ \E f \in Frames' : f.at = "stopped" /\ f.pid = p
        BY <3>2, <4>1, FrameStep
      <4> QED BY <1>1, <4>2 DEF StopPending
    <3>3. ASSUME NEW f \in Frames, f.at = "stopped", f.pid = p
          PROVE  StopPending(jobs[i].pid)'
      <4>1. CASE f \in Frames'
        BY <1>1, <3>3, <4>1 DEF StopPending
      <4>2. CASE SigchldStop /\ f = Head(stack)
        <5>1. getjobpid(jobs, p) = i
          <6>1. p \in Int /\ p >= 1
            BY <2>0, PidFacts
          <6>2. \A k \in Slots : jobs[k].pid = p => k = i
            BY <1>0, <2>0 DEF ListInv, PidUnique
          <6>3. getjobpid(jobs, p) \in Slots /\ jobs[getjobpid(jobs, p)].pid = p
            BY <1>0, <6>1, GetjobpidFacts
          <6> QED BY <6>2, <6>3
        <5>2. setstate(i, ST)
          BY <3>3, <4>2, <5>1, FirstFacts DEF SigchldStop
        <5> QED BY <1>0, <5>2, SetSlots DEF States
      <4> QED BY <3>3, <4>1, <4>2, FrameStep
    <3> QED BY <3>1, <3>2, <3>3 DEF StopPending
  <2> QED BY <2>1, <2>2
<1>2. CASE EvalAdd /\ cmd.pid \in Pids /\ jobs'[i].pid = cmd.pid
  BY <1>2 DEF EvalAdd, Main, StopInv, NotStopped, kernelVars
<1>3. CASE BackgroundJob /\ i = cmd.slot /\ jobs'[i].pid = jobs[i].pid
  BY <1>3 DEF BackgroundJob, Main, StopInv, NotStopped, PointerHolds, kernelVars
<1> QED
  BY <1>1, <1>2, <1>3, SlotStepBg

\* Without fg and mystop, the states in the list keep up with the processes.
THEOREM StopInvariant ==
  ASSUME "fg" \notin Builtins, ~SelfStop
  PROVE  Spec => []StopInv
<1>1. Init => StopInv
  BY InitStopInv
<1>2. ShellInv /\ ChildInv /\ FgInv /\ StopInv /\ [Next]_vars => StopInv'
  BY PendingListedStep, StateKnownStep, PointerHoldsStep, NotStoppedStep,
     ListedStoppedStep, StoppedListedStep DEF StopInv
<1> QED
  BY <1>1, <1>2, ShellInvariant, ChildInvariant, FgInvariant, PTL DEF Spec

\* Without fg and programs that stop themselves, a job is listed as stopped
\* exactly if its process is, whenever all has been handled.
THEOREM StoppedAreListed ==
  ASSUME "fg" \notin Builtins, ~SelfStop
  PROVE  Spec => []StoppedIsListed
<1>1. ShellInv /\ ChildInv /\ StopInv => StoppedIsListed
  <2> SUFFICES ASSUME ShellInv, ChildInv, StopInv, Main("prompt"), sigs = {},
                      NEW i \in Slots, jobs[i].pid # 0
               PROVE  jobs[i].state = ST <=> child[jobs[i].pid] = "stopped"
    BY DEF StoppedIsListed
  <2>1. Running /\ pc = "prompt" /\ Frames = {}
    BY DEF Main, Undisturbed, Frames
  <2>2. report = {}
    BY <2>1, HandlingFrames DEF ChildInv, NoMissedChild
  <2>3. ~StopPending(jobs[i].pid)
    BY <2>1, <2>2 DEF StopPending
  <2> QED BY <2>1, <2>3 DEF StopInv, ListedStopped, StoppedListed
<1> QED
  BY <1>1, ShellInvariant, ChildInvariant, StopInvariant, PTL

\* Under the same conditions the states of a job follow the automaton of
\* tsh.c:34-40.
THEOREM TransitionsLegal ==
  ASSUME "fg" \notin Builtins, ~SelfStop
  PROVE  Spec => LegalTransitions
<1>1. ShellInv /\ ChildInv /\ FgInv /\ StopInv /\ [Next]_vars =>
        [\A i \in Slots :
            /\ jobs[i].pid # 0 /\ jobs'[i].pid = jobs[i].pid
            /\ jobs'[i].state # jobs[i].state
            => <<jobs[i].state, jobs'[i].state>> \in Transitions]_vars
  <2> SUFFICES ASSUME ShellInv, ChildInv, FgInv, StopInv, [Next]_vars, NEW i \in Slots,
                      jobs[i].pid # 0, jobs'[i].pid = jobs[i].pid,
                      jobs'[i].state # jobs[i].state
               PROVE  <<jobs[i].state, jobs'[i].state>> \in Transitions
    OBVIOUS
  <2>0. jobs[i] \in Job
    BY DEF ShellInv, TypeOK, ListTypeOK
  <2>1. jobs[i].pid \in Pids /\ jobs[i].state \in {FG, BG, ST}
    BY <2>0 DEF Job, States, StopInv, StateKnown
  <2>2. CASE BackgroundJob /\ jobs'[i].state = BG
    <3>1. jobs[i].state # FG
      BY <2>2 DEF BackgroundJob, Main, Undisturbed, FgInv, FgAwaited
    <3> QED BY <2>1, <2>2, <3>1 DEF Transitions
  <2>3. CASE StopPending(jobs[i].pid) /\ jobs'[i].state = ST
    <3>1. PICK k \in Slots : jobs[k].pid = jobs[i].pid /\ jobs[k].state \in {FG, ST}
      BY <2>1, <2>3 DEF StopInv, PendingListed
    <3>2. k = i
      BY <3>1 DEF ShellInv, ListInv, PidUnique
    <3> QED BY <2>3, <3>1, <3>2 DEF Transitions
  <2> QED BY <2>2, <2>3, SlotStepBg
<1> QED
  BY <1>1, ShellInvariant, ChildInvariant, FgInvariant, StopInvariant, PTL
  DEF Spec, LegalTransitions
=============================================================================
