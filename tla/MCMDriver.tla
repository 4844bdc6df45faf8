----------------------------- MODULE MCMDriver -----------------------------
(* An instance of MDriver for TLC. *)
EXTENDS MDriver

A(i, s) == [type |-> "a", index |-> i, size |-> s]
R(i, s) == [type |-> "r", index |-> i, size |-> s]
F(i) == [type |-> "f", index |-> i, size |-> 0]

Trace(ids, ops) == [num_ids |-> ids, num_ops |-> Len(ops), ops |-> ops]

Short == Trace(1, <<A(0, 1), F(0)>>)
Moves == Trace(2, <<A(1, 1), A(0, 2), R(1, 2), F(0), F(1)>>)
Encloses == Trace(2, <<A(0, 1), A(1, 4), F(0)>>)
LowEnd == Trace(2, <<A(0, 2), A(1, 3), F(0), F(1)>>)
Refills == Trace(2, <<A(0, 1), A(1, 4), R(0, 1)>>)
Returns == Trace(2, <<A(1, 1), R(1, 1), A(0, 1), R(1, 1)>>)
HighId == Trace(3, <<A(0, 1), A(1, 2), A(2, 2), R(2, 1)>>)
Wraps == Trace(5, <<A(0, 2), A(4, 2), R(0, 1), F(4)>>)
Grows == Trace(1, <<A(0, 1), R(0, 2), F(0)>>)
BadHeader == [Short EXCEPT !.num_ids = 2]

Files == {<<Short, Moves>>, <<Short, Encloses>>, <<LowEnd>>, <<Refills>>, <<Returns>>, <<HighId>>, <<Wraps>>,
          <<Short, BadHeader>>}
Run(files, libc, timers) == [files |-> files, run_libc |-> libc, timers |-> timers]

\* The one block of the last traces fills the heap, so that only the timing varies.
Full == Trace(1, <<A(0, 6)>>)
Runs == {Run(f, FALSE, {"gettod"}) : f \in Files}
        \cup {Run(f, TRUE, {"gettod"}) : f \in {<<Grows, Short>>, <<BadHeader>>}}
        \cup {Run(<<Full>>, FALSE, {"fcyc", "itimer"}), Run(<<Full, Full>>, FALSE, {"itimer"})}
\* One zero byte, or two.
Zeros(places) == [a \in places |-> 0]
SomeScribbles == {Zeros({})} \cup {Zeros({a}) : a \in 2..7} \cup {Zeros({2, 5})}
SomeTimers == {"fcyc", "itimer", "gettod"}
SomeStarts == {0, 2, 14}
SomeCycles == {0, 1, 3, 7, 15}
Ticks == {2}

\* After a measurement without fcyc, only the fraction of the second matters to the
\* next one; the property is part of the view, so no violation is hidden.
View ==
    IF timer = "fcyc" \/ pc \in {"libc_speed", "speed"} THEN vars
    ELSE <<untimed, pc, timer, step, now % Usec, ElapsedExact>>

\* What the theorems assume of the traces, and of the time a call takes.
ASSUME TracesAreOK == TracesOK
ASSUME CountersFit == CounterFits
=============================================================================
