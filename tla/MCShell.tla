------------------------------ MODULE MCShell ------------------------------
(* Instances of Shell for TLC. *)
EXTENDS Shell

NoBuiltins == {}
AllBuiltins == {"bg", "fg", "kill"}
OnlyKill == {"kill"}

\* Two states are the same to the program if they differ only in what it does not read
\* again: the entry looked for after the search, the command while its job is awaited,
\* and the slots past the size, all but the one whose index the loop still holds.  Of
\* the history the properties ask only whether kill took a job off, and if it did not,
\* which ones ctrl-C did.
Held == IF mpc \in {"signal", "mark"} THEN {idx} ELSE {}
Significant ==
    [i \in Slots |-> IF i \in Used THEN job_lists[i]
                     ELSE IF i \in Held THEN [job_lists[i] EXCEPT !.entry = 0] ELSE NoJob]
View ==
    <<Significant, job_lists_size, wait_child_flag, mpc, idx, arg, handler, pending, child,
      bounds, dropped.KILL # {}, IF dropped.KILL # {} THEN {} ELSE dropped.INT,
      IF mpc = "search" THEN target ELSE 0,
      IF mpc \in {"test", "suspend", "suspended", "reset", "undefined"} THEN "none" ELSE cmd>>
=============================================================================
