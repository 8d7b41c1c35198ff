-------------------------------- MODULE Clock --------------------------------
(***************************************************************************)
(* The cycle counter of malloclab-handout/clock.c (the version for the     *)
(* Pentium) and the ticks of the process, from which callibrate estimates  *)
(* what a timer interrupt costs.  The processor counts cycles in 64 bits;  *)
(* the program reads them as two words of 32 bits.                         *)
(***************************************************************************)
EXTENDS Integers

CONSTANTS Word,           \* values of an unsigned int, 2^32
          NEVENT, THRESHOLD, RECORDTHRESH

ASSUME ClockAssumption == /\ Word \in Nat /\ Word > 1
                          /\ NEVENT \in Nat /\ THRESHOLD \in Nat \ {0}
                          /\ RECORDTHRESH \in Nat

VARIABLES now,               \* cycles counted by the processor
          ticks,             \* tms_utime, since the last call of times that counted
          cyc_hi, cyc_lo,    \* start_counter's reading
          cyc_per_tick,      \* a whole number, rounded down
          oldt, e            \* locals of callibrate

timeVars  == <<now, ticks>>
clockVars == <<cyc_hi, cyc_lo>>
ratioVars == <<cyc_per_tick, oldt, e>>

\* 64 bits last for centuries: the counter does not go round.
Instants == 0 .. Word * Word - 1

Hi(t) == t \div Word
Lo(t) == t % Word

Bit(b) == IF b THEN 1 ELSE 0

\* Mutant: the high word is not told of the borrow.
get_counter_NoBorrow(hi, lo) ==
    ((Hi(now) - hi) % Word) * Word + ((Lo(now) - lo) % Word)

\* Double precision subtraction on unsigned words.
get_counter(hi, lo) ==
    LET low    == (Lo(now) - lo) % Word
        borrow == Bit(low > Lo(now))
        high   == (Hi(now) - hi - borrow) % Word
    IN  high * Word + low

start_counter == cyc_hi' = Hi(now) /\ cyc_lo' = Lo(now)

Counter == get_counter(cyc_hi, cyc_lo)

\* Time passes, with or without an interrupt by the timer.
Passes(d) == now + d \in Instants /\ now' = now + d /\ UNCHANGED ticks
Interrupts(d) == now + d \in Instants /\ now' = now + d /\ ticks' = ticks + 1

\* times and start_counter.
Started == ticks' = 0 /\ start_counter /\ UNCHANGED now

-----------------------------------------------------------------------------
(* callibrate.  oldt is read as soon as the counter has been started.      *)

CalibrationBegins == Started /\ oldt' = 0 /\ e' = 0 /\ UNCHANGED cyc_per_tick

Event == Counter - oldt >= THRESHOLD

Better(cpt) == (cyc_per_tick = 0 \/ cyc_per_tick > cpt) /\ cpt > RECORDTHRESH

\* The loop finds THRESHOLD cycles gone since it last did.  The time is
\* recorded if there has been a tick, too.
EventSeen ==
    /\ e < NEVENT /\ Event
    /\ oldt' = Counter
    /\ \/ /\ ticks > 0
          /\ LET cpt == (Counter - oldt) \div ticks
             IN  cyc_per_tick' = IF Better(cpt) THEN cpt ELSE cyc_per_tick
          /\ e' = e + 1 /\ ticks' = 0
       \/ ticks = 0 /\ UNCHANGED <<cyc_per_tick, e, ticks>>
    /\ UNCHANGED <<now, clockVars>>

=============================================================================
