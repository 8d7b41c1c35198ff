-------------------------------- MODULE Fsecs --------------------------------
(***************************************************************************)
(* The K-best sampling of fcyc.c with the cycle counter of clock.c, which  *)
(* fsecs.c sets up: each sample is the time a function took by the         *)
(* counter, less an estimate for the timer interrupts if compensate is     *)
(* set; clear walks through a buffer first if clear_cache is set.          *)
(***************************************************************************)
EXTENDS Fcyc, Clock

CONSTANTS Starts,       \* bound: when a measurement may begin
          Works,        \* cycles the program spends between two interrupts
          TickCosts,    \* cycles a timer interrupt takes
          MaxWait,      \* bound: no work begins when so much has been measured
          MaxTicks,     \* bound: interrupts in a measurement
          CacheSizes    \* arguments of set_fcyc_cache_size

ASSUME FsecsAssumption == /\ Starts \subseteq Instants
                          /\ Works \subseteq Nat /\ TickCosts \subseteq Nat
                          /\ MaxWait \in Nat /\ MaxTicks \in Nat
                          /\ CacheSizes \subseteq Nat \ {0}

VARIABLES at,             \* where an iteration of fcyc's loop is, or "exit"
          compensate, clear_cache, cache_bytes,
          cache_buf,      \* size of the buffer, 0 while there is none
          elapsed,        \* cycles that have really passed since start_counter
          truth           \* what each sample should be

setVars  == <<compensate, clear_cache, cache_bytes>>
realVars == <<elapsed, truth>>
allVars  == <<vars, timeVars, clockVars, ratioVars, at, setVars, cache_buf, realVars>>

-----------------------------------------------------------------------------
(* An iteration of fcyc's loop.                                            *)

At(place) == pc = "measure" /\ at = place

Begin ==
    /\ At("top") /\ ~clear_cache
    /\ at' = "start"
    /\ \E t \in Starts : now' = t
    /\ UNCHANGED <<vars, ticks, clockVars, ratioVars, setVars, cache_buf, realVars>>

\* clear allocates its buffer if there is none.
Clear ==
    /\ At("top") /\ clear_cache
    /\ cache_buf' = (IF cache_buf = 0 THEN cache_bytes ELSE cache_buf)
    /\ at' = "start"
    /\ \E t \in Starts : now' = t
    /\ UNCHANGED <<vars, ticks, clockVars, ratioVars, setVars, realVars>>

\* malloc gives it none: the program exits.
ClearFails ==
    /\ At("top") /\ clear_cache /\ cache_buf = 0
    /\ at' = "exit"
    /\ UNCHANGED <<vars, timeVars, clockVars, ratioVars, setVars, cache_buf, realVars>>

\* start_comp_counter finds that there is no estimate yet.
Calibrate ==
    /\ At("start") /\ compensate /\ cyc_per_tick = 0
    /\ CalibrationBegins
    /\ at' = "calibrate" /\ elapsed' = 0
    /\ UNCHANGED <<vars, setVars, cache_buf, truth>>

Watch ==
    /\ At("calibrate")
    /\ EventSeen
    /\ UNCHANGED <<vars, at, setVars, cache_buf, realVars>>

\* start_counter, or the end of start_comp_counter.
StartCounter ==
    /\ \/ At("start") /\ (compensate => cyc_per_tick # 0)
       \/ At("calibrate") /\ e = NEVENT
    /\ Started
    /\ at' = "run" /\ elapsed' = 0
    /\ UNCHANGED <<vars, ratioVars, setVars, cache_buf, truth>>

Compensation == IF compensate THEN ticks * cyc_per_tick ELSE 0

\* The function has returned.
StopCounter ==
    /\ At("run")
    /\ Measure(Counter - Compensation)
    /\ truth' = [n \in 0 .. samplecount |->
                    IF n = samplecount THEN elapsed - Compensation ELSE truth[n]]
    /\ at' = "top"
    /\ UNCHANGED <<timeVars, clockVars, ratioVars, setVars, cache_buf, elapsed>>

Sampling == /\ Swap \/ Repeat \/ Return
            /\ UNCHANGED <<timeVars, clockVars, ratioVars, at, setVars, cache_buf, realVars>>

NextCall == /\ Again
            /\ truth' = [n \in {} |-> 0]
            /\ UNCHANGED <<timeVars, clockVars, ratioVars, at, setVars, cache_buf, elapsed>>

-----------------------------------------------------------------------------
(* The functions set_fcyc_..., between two calls of fcyc.                  *)

\* Mutant: a buffer of the old size is kept.
set_fcyc_cache_size_Keep(bytes) ==
    /\ cache_bytes' = bytes
    /\ UNCHANGED cache_buf

set_fcyc_cache_size(bytes) ==
    /\ cache_bytes' = bytes
    /\ cache_buf' = (IF bytes # cache_bytes THEN 0 ELSE cache_buf)

SetCacheSize == /\ pc = "done"
                /\ \E bytes \in CacheSizes : set_fcyc_cache_size(bytes)
                /\ UNCHANGED <<vars, timeVars, clockVars, ratioVars, at,
                               compensate, clear_cache, realVars>>

SetFlags == /\ pc = "done"
            /\ compensate' \in BOOLEAN /\ clear_cache' \in BOOLEAN
            /\ UNCHANGED <<vars, timeVars, clockVars, ratioVars, at,
                           cache_bytes, cache_buf, realVars>>

-----------------------------------------------------------------------------
(* The processor, while the counter runs.                                  *)

Timed == At("run") \/ (At("calibrate") /\ ~Event)

Elapses(d) ==
    /\ elapsed' = elapsed + d
    /\ UNCHANGED <<vars, clockVars, ratioVars, at, setVars, cache_buf, truth>>

Work == /\ Timed /\ elapsed < MaxWait
        /\ \E d \in Works : Passes(d) /\ Elapses(d)

Tick == /\ Timed /\ ticks < MaxTicks
        /\ \E d \in TickCosts : Interrupts(d) /\ Elapses(d)

-----------------------------------------------------------------------------
FsecsInit == /\ Init
             /\ now \in Starts /\ ticks = 0
             /\ cyc_hi = 0 /\ cyc_lo = 0
             /\ cyc_per_tick = 0 /\ oldt = 0 /\ e = 0
             /\ at = "top"
             /\ compensate \in BOOLEAN /\ clear_cache \in BOOLEAN
             /\ cache_bytes \in CacheSizes /\ cache_buf = 0
             /\ elapsed = 0 /\ truth = [n \in {} |-> 0]

Program == \/ Begin \/ Clear \/ ClearFails \/ Calibrate \/ Watch \/ StartCounter
           \/ StopCounter \/ Sampling

FsecsNext == Program \/ NextCall \/ SetCacheSize \/ SetFlags \/ Work \/ Tick

FsecsSpec == FsecsInit /\ [][FsecsNext]_allVars

\* The program runs on, the function that is timed returns, and the timer
\* interrupts the process again and again.
FsecsFairSpec == /\ FsecsSpec
                 /\ WF_allVars(Program)
                 /\ SF_allVars(Tick)

-----------------------------------------------------------------------------
(* Properties.                                                             *)

\* clear never walks past its buffer, whose size is that of the cache
\* (fcyc.c:118-119) whatever the set_ functions were called with.
FsecsTypeOK ==
    /\ TypeOK
    /\ now \in Instants /\ ticks \in Nat
    /\ cyc_hi \in 0 .. Word - 1 /\ cyc_lo \in 0 .. Word - 1
    /\ cyc_per_tick = 0 \/ cyc_per_tick > RECORDTHRESH
    /\ oldt \in Nat /\ e \in 0 .. NEVENT
    /\ at \in {"top", "start", "calibrate", "run", "exit"}
    /\ cache_bytes \in CacheSizes /\ cache_buf \in {0, cache_bytes}

\* fcyc returns the least of the times that have really passed in its
\* measurements, less what was taken off for ticks: the two words of the
\* counter are subtracted rightly when the lower one has gone round, and no
\* sample is of another call.
ReturnsLeastElapsed ==
    pc = "done" => /\ DOMAIN truth = Taken
                   /\ \E n \in Taken : truth[n] = result
                   /\ \A n \in Taken : result <= truth[n]

\* Every call of fcyc returns, however much the times vary, unless clear finds
\* no memory (fcyc.c:112-115).
Returns == pc = "measure" ~> pc = "done" \/ at = "exit"

=============================================================================
