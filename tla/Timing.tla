------------------------------- MODULE Timing -------------------------------
(***************************************************************************)
(* proj3/fsecs.c on fcyc.c, clock.c and ftimer.c: how long a function      *)
(* takes, by the cycle counter, the interval timer or the time of day,     *)
(* whichever config.h selects.  Time is one number, in cycles for the      *)
(* counter and in microseconds for the others.                             *)
(***************************************************************************)
EXTENDS KBest, Sequences, SequencesExt

CONSTANTS
    Timers,          \* which of "fcyc", "itimer", "gettod" the build may use
    Kbest, MaxSamples,  \* what init_fsecs sets, and the defaults of fcyc.c
    Starts,          \* values of the clock when the driver starts
    Cycles,          \* time a timed function may take
    CycPerTick,      \* what callibrate may find
    SleepCycles,     \* cycles in the sleep of mhz
    Usec,            \* microseconds in a second
    MAX_ETIME,       \* seconds an interval timer is set to
    Calls            \* n of ftimer_itimer and ftimer_gettod

ASSUME TimingAssumption ==
    /\ Kbest \in Nat \ {0} /\ MaxSamples \in Nat \ {0} /\ Starts \subseteq Nat
    /\ Cycles \subseteq Nat /\ CycPerTick \subseteq Nat /\ SleepCycles \in Nat
    /\ Usec \in Nat \ {0} /\ MAX_ETIME \in Nat \ {0} /\ Calls \in Nat \ {0}

VARIABLES
    timer, step,     \* the timer of the build; where fsecs is
    now,             \* the time
    params, Mhz,     \* fcyc.c's static parameters; the clock rate
    cache_buf,       \* fcyc.c: whether the buffer that clears the cache is allocated
    sampler, cyc, cyc_per_tick,  \* fcyc.c; start_counter and callibrate of clock.c
    real, virtual,   \* microseconds left in ITIMER_REAL and ITIMER_VIRTUAL
    start,           \* ftimer.c: the reading before the calls
    secs,            \* what fsecs returned last
    samples          \* history: the time each call of the function took

readings == <<real, virtual, start>>
timing == <<timer, step, now, params, Mhz, cache_buf, sampler, cyc, cyc_per_tick, readings, secs,
            samples>>

TimingInit ==
    /\ timer \in Timers /\ step = "init" /\ now \in Starts
    /\ params = [kbest |-> Kbest, maxsamples |-> MaxSamples, clear_cache |-> FALSE,
                 compensate |-> FALSE]
    /\ Mhz = 0 /\ cache_buf = FALSE /\ sampler = InitSampler(Kbest)
    /\ cyc = AccessCounter(0) /\ cyc_per_tick = 0
    /\ real = 0 /\ virtual = 0 /\ start = 0 /\ secs = 0 /\ samples = <<>>

-----------------------------------------------------------------------------
(* init_fsecs *)

\* set_fcyc_k and the others, but for the tolerance, which keeps its value.
SetFcyc(k, max, clear, compensate) ==
    params' = [kbest |-> k, maxsamples |-> max, clear_cache |-> clear, compensate |-> compensate]

\* mhz: the cycles of a sleep, read as those of any other call.
MeasureMhz ==
    /\ cyc' = AccessCounter(now)
    /\ now' = now + SleepCycles
    /\ Mhz' = GetCounter(cyc', AccessCounter(now'))

InitFsecs ==
    /\ step = "init" /\ step' = "idle"
    /\ IF timer = "fcyc" THEN SetFcyc(Kbest, MaxSamples, TRUE, TRUE) /\ MeasureMhz
       ELSE UNCHANGED <<params, Mhz, now, cyc>>
    /\ UNCHANGED <<timer, cache_buf, sampler, cyc_per_tick, readings, secs, samples>>

\* fsecs is called with a function.
CallFsecs ==
    /\ step' = "begin" /\ samples' = <<>> /\ sampler' = InitSampler(params.kbest)
    /\ UNCHANGED <<timer, now, params, Mhz, cache_buf, cyc, cyc_per_tick, readings, secs>>

-----------------------------------------------------------------------------
(* fcyc *)

\* clear: the buffer is allocated once, and the driver ends if it cannot be.
Clear ==
    /\ step = "begin" /\ timer = "fcyc"
    /\ \/ step' = "start" /\ cache_buf' = (cache_buf \/ params.clear_cache)
       \/ params.clear_cache /\ ~cache_buf /\ step' = "failed" /\ UNCHANGED cache_buf
    /\ UNCHANGED <<timer, now, params, Mhz, sampler, cyc, cyc_per_tick, readings, secs, samples>>

\* callibrate, as long as it has found nothing.
Callibrated == IF cyc_per_tick = 0 THEN CycPerTick \cup {0} ELSE {cyc_per_tick}

StartCompCounter ==
    /\ step = "start" /\ step' = "run"
    /\ cyc_per_tick' \in IF params.compensate THEN Callibrated ELSE {cyc_per_tick}
    /\ cyc' = AccessCounter(now)
    /\ UNCHANGED <<timer, now, params, Mhz, cache_buf, sampler, readings, secs, samples>>

\* The function has taken d cycles and `ticks' interrupts: a sample, and another one
\* unless fcyc has seen enough.
Sample ==
    /\ step = "run" /\ timer = "fcyc"
    /\ \E d \in Cycles : \E ticks \in 0..1 :
         LET cost == IF params.compensate THEN cyc_per_tick ELSE 0 IN
         /\ now' = now + d
         /\ sampler' = AddSample(sampler, params.kbest,
                                 GetCompCounter(cyc, AccessCounter(now'), ticks, cost))
         /\ samples' = Append(samples, d - ticks * cyc_per_tick)
    /\ IF ~HasConverged(sampler', params.kbest) /\ sampler'.samplecount < params.maxsamples
       THEN step' = "begin" /\ UNCHANGED secs
       ELSE step' = "done" /\ secs' = sampler'.values[1]
    /\ UNCHANGED <<timer, params, Mhz, cache_buf, cyc, cyc_per_tick, readings>>

-----------------------------------------------------------------------------
(* ftimer *)

\* A time as seconds and microseconds, and the difference of two.
Reading(t) == [sec |-> t \div Usec, usec |-> t % Usec]
Elapsed(s, e) == Usec * (e.sec - s.sec) + (e.usec - s.usec)

\* Mutant: the timer that only runs while the process does.
GetEtimeVirtual(left) == Elapsed(Reading(virtual'), [sec |-> MAX_ETIME, usec |-> 0])

\* get_etime subtracts what is left in the real timer from what the profiling timer
\* was set to, which is the same for all three.
GetEtime(left) == Elapsed(Reading(left), [sec |-> MAX_ETIME, usec |-> 0])

untouched == <<timer, params, Mhz, cache_buf, sampler, cyc, cyc_per_tick>>

InitEtime ==
    /\ step = "begin" /\ timer = "itimer" /\ step' = "run"
    /\ real' = MAX_ETIME * Usec /\ virtual' = real'
    /\ start' = GetEtime(real')
    /\ UNCHANGED <<untouched, now, secs, samples>>

GetTimeOfDay ==
    /\ step = "begin" /\ timer = "gettod" /\ step' = "run"
    /\ start' = now
    /\ UNCHANGED <<untouched, now, real, virtual, secs, samples>>

\* One of the n calls.  The real timer runs, the virtual one only while the process
\* is not waiting; at zero the real timer ends the process with SIGALRM.
CallOnce ==
    /\ step = "run" /\ timer # "fcyc" /\ Len(samples) < Calls
    /\ \E d \in Cycles : \E busy \in {0, d} :
         /\ now' = now + d /\ samples' = Append(samples, d)
         /\ IF timer = "gettod" THEN UNCHANGED <<step, real, virtual>>
            ELSE /\ real' = Max({0, real - d}) /\ virtual' = Max({0, virtual - busy})
                 /\ step' = IF real' = 0 THEN "failed" ELSE step
    /\ UNCHANGED <<untouched, start, secs>>

\* The second reading; the average is this divided by n.
Average ==
    /\ step = "run" /\ timer # "fcyc" /\ Len(samples) = Calls
    /\ step' = "done"
    /\ UNCHANGED <<real, virtual>>
    /\ secs' = IF timer = "itimer" THEN GetEtime(real') - start
               ELSE Elapsed(Reading(start), Reading(now))
    /\ UNCHANGED <<untouched, now, start, samples>>

-----------------------------------------------------------------------------
(* Properties *)

\* No call, nor the sleep of mhz, takes as many cycles as the counter can tell apart.
CounterFits == SleepCycles < Word * Word /\ \A d \in Cycles : d < Word * Word

\* fcyc keeps the smallest of the times that really passed, in order, although the
\* counter wraps and is read in two words; and it stops on K that agree or at the limit.
KBestExact ==
    timer = "fcyc" =>
    /\ sampler.samplecount = Len(samples)
    /\ LET n == Min({Kbest, Len(samples)})  v == sampler.values IN
       /\ \A k \in 1..(n - 1) : v[k] <= v[k + 1]
       /\ \A x \in Range(samples) \cup Range(v) :
            Cardinality({k \in 1..n : v[k] <= x})
              = Min({n, Cardinality({k \in DOMAIN samples : samples[k] <= x})})
    /\ Len(samples) <= MaxSamples

\* What fsecs returns is the time that passed: the least sample of fcyc, and the sum
\* of the n calls of the others, through the borrow between seconds and microseconds;
\* the clock rate is that of the sleep.
ElapsedExact ==
    /\ step = "done" =>
         secs = IF timer = "fcyc" THEN Min(Range(samples)) ELSE FoldLeft(+, 0, samples)
    /\ step # "init" /\ timer = "fcyc" => Mhz = SleepCycles

\* Whatever timer the build has, its measurements are exact.
TimesExact == KBestExact /\ ElapsedExact
=============================================================================
