------------------------------- MODULE KBest -------------------------------
(***************************************************************************)
(* proj3/clock.c and fcyc.c: cycles between two readings of the counter,   *)
(* and the K smallest of a series of measurements.                         *)
(***************************************************************************)
EXTENDS Integers, FiniteSetsExt

CONSTANTS
    Word,            \* a word of the counter is an unsigned modulo Word, 2^32
    EpsilonNum, EpsilonDen  \* EPSILON, a fraction

ASSUME KBestAssumption ==
    /\ Word \in Nat \ {0} /\ EpsilonNum \in Nat /\ EpsilonDen \in Nat \ {0}

\* The 64 bits of the cycle counter, read as two words.
AccessCounter(tsc) == [hi |-> (tsc \div Word) % Word, lo |-> tsc % Word]

\* The subtraction of two words, with the borrow between them.
GetCounter(cyc, ncyc) ==
    LET lo == (ncyc.lo - cyc.lo) % Word
        borrow == IF lo > ncyc.lo THEN 1 ELSE 0
        hi == ((ncyc.hi - cyc.hi) - borrow) % Word
    IN hi * Word + lo

\* Mutant: the borrow is forgotten.
GetCounterNoBorrow(cyc, ncyc) ==
    ((ncyc.hi - cyc.hi) % Word) * Word + ((ncyc.lo - cyc.lo) % Word)

\* The time of `ticks' timer interrupts is taken off.
GetCompCounter(cyc, ncyc, ticks, cyc_per_tick) ==
    GetCounter(cyc, ncyc) - ticks * cyc_per_tick

InitSampler(kbest) == [values |-> [k \in 1..kbest |-> 0], samplecount |-> 0]

\* The new value takes the place of the worst one, if it is better, and moves down
\* to its rank.
AddSample(s, kbest, val) ==
    LET pos == IF s.samplecount < kbest THEN s.samplecount + 1
               ELSE IF val < s.values[kbest] THEN kbest ELSE 0
        rank == Max({0} \cup {k \in 1..(pos - 1) : s.values[k] <= val})
        place(k) == IF k <= rank \/ k > pos THEN s.values[k]
                    ELSE IF k = rank + 1 THEN val ELSE s.values[k - 1]
    IN [values |-> [k \in 1..kbest |-> place(k)], samplecount |-> s.samplecount + 1]

HasConverged(s, kbest) ==
    /\ s.samplecount >= kbest
    /\ (EpsilonDen + EpsilonNum) * s.values[1] >= EpsilonDen * s.values[kbest]
=============================================================================
