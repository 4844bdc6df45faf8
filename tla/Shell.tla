------------------------------- MODULE Shell -------------------------------
(***************************************************************************)
(* proj1/phase3/shellex.c: job control.  One process with the command loop *)
(* (eval and the built-in commands bg, fg and kill), its three signal      *)
(* handlers, its children, and the user who types commands, ctrl-C and     *)
(* ctrl-Z.                                                                 *)
(*                                                                         *)
(* A handler runs between any two steps of the loop.  The handlers of      *)
(* SIGINT and SIGTSTP block every signal while they work, and each is one  *)
(* step; that of SIGCHLD can be interrupted between waitpid and its update *)
(* of the table.  The loop reads and writes job_lists with nothing blocked *)
(* except in addjob, so each of its accesses is a step of its own.         *)
(***************************************************************************)
EXTENDS Integers, FiniteSets

CONSTANTS
    NumPids,        \* bound of the model: children ever forked
    MaxKeys,        \* bound of the model: ctrl-C and ctrl-Z typed
    MaxBuiltins,    \* bound of the model: bg, fg and kill commands typed
    Builtins        \* which of "bg", "fg" and "kill" the user types

\* The table never fills: MAXJOBS is larger than the number of children.
ASSUME ShellAssumption ==
    /\ NumPids \in Nat \ {0} /\ MaxKeys \in Nat /\ MaxBuiltins \in Nat
    /\ Builtins \subseteq {"bg", "fg", "kill"}

Pids == 1..NumPids
Slots == 0..(NumPids - 1)

VARIABLES
    job_lists, job_lists_size,    \* the table; slots past the size keep old jobs
    wait_child_flag,
    mpc,                          \* where the loop is
    cmd, target, idx, arg,        \* its command, job_entry, index, and deletejob's pid
    hpc, got,                     \* the SIGCHLD handler, and the pid it has reaped
    pending,                      \* signals sent to the shell and not yet handled
    child,                        \* the state of each child process
    forks, keys, builtins,        \* counters that bound the model (forks: last pid)
    dropped                       \* history: [INT, KILL], the jobs that ctrl-C and kill
                                  \*   take off the table

table == <<job_lists, job_lists_size>>
loop == <<mpc, cmd, target, idx, arg>>
handler == <<hpc, got>>
bounds == <<forks, keys, builtins>>
vars == <<table, wait_child_flag, loop, handler, pending, child, bounds, dropped>>

Job(p, e, s) == [pid |-> p, entry |-> e, status |-> s]
NoJob == Job(0, 0, "none")

Init ==
    /\ job_lists = [i \in Slots |-> NoJob] /\ job_lists_size = 0
    /\ wait_child_flag = TRUE
    /\ mpc = "prompt" /\ cmd = "none" /\ target = 0 /\ idx = 0 /\ arg = 0
    /\ hpc = "off" /\ got = 0
    /\ pending = {}
    /\ child = [p \in Pids |-> "none"]
    /\ forks = 0 /\ keys = 0 /\ builtins = 0
    /\ dropped = [INT |-> {}, KILL |-> {}]

Used == 0..(job_lists_size - 1)
Least(S) == CHOOSE i \in S : \A j \in S : i <= j
Greatest(S) == CHOOSE i \in S : \A j \in S : i >= j
With(status) == {i \in Used : job_lists[i].status = status}
OfPid(p) == {i \in Used : job_lists[i].pid = p}

\* Mutant: deletejob does not stop when the pid is not found.
AlwaysShrink(p) ==
    IF OfPid(p) = {} THEN job_lists_size' = job_lists_size - 1 /\ UNCHANGED job_lists
    ELSE LET i == Least(OfPid(p)) IN
         /\ job_lists' = [k \in Slots |-> IF k \in i..(job_lists_size - 2)
                                          THEN job_lists[k + 1] ELSE job_lists[k]]
         /\ job_lists_size' = job_lists_size - 1

\* deletejob, run by a handler, which nothing interrupts.
DeleteJob(p) ==
    IF OfPid(p) = {} THEN UNCHANGED table
    ELSE LET i == Least(OfPid(p)) IN
         /\ job_lists' = [k \in Slots |-> IF k \in i..(job_lists_size - 2)
                                          THEN job_lists[k + 1] ELSE job_lists[k]]
         /\ job_lists_size' = job_lists_size - 1

(***************************************************************************)
(* What kill(-p, sig) does.  A child that has not called setpgid(0,0) has  *)
(* no group of its own: the call fails.  One that has not called Execvp    *)
(* has the shell's handlers, which find no foreground job in its copy of   *)
(* the table.  A stopped process keeps SIGINT pending.  A change of state  *)
(* sends SIGCHLD to the shell.                                             *)
(***************************************************************************)
After(state, sig) ==
    CASE sig = "KILL" /\ state \in {"grouped", "running", "stopped"} -> "zombie"
      [] sig = "INT" /\ state = "running" -> "zombie"
      [] sig = "TSTP" /\ state = "running" -> "stopped"
      [] sig = "CONT" /\ state = "stopped" -> "running"
      [] OTHER -> state

Kill(p, sig, handled) ==
    /\ child' = [child EXCEPT ![p] = After(@, sig)]
    /\ pending' = (pending \ handled)
                    \cup (IF After(child[p], sig) # child[p] THEN {"CHLD"} ELSE {})

-----------------------------------------------------------------------------
(* The signal handlers. *)

\* A handler that returns ends the sigsuspend it interrupted.
Woken == IF mpc = "suspended" THEN "test" ELSE mpc

\* Mutant: eval forks without blocking SIGCHLD.
ChldStartUnblocked ==
    /\ hpc = "off" /\ "CHLD" \in pending
    /\ hpc' = "wait" /\ pending' = pending \ {"CHLD"}
    /\ UNCHANGED <<table, wait_child_flag, loop, got, child, bounds, dropped>>

ChldStart ==
    /\ hpc = "off" /\ "CHLD" \in pending
    /\ mpc # "add"                      \* blocked from before Fork to after addjob
    /\ hpc' = "wait" /\ pending' = pending \ {"CHLD"}
    /\ UNCHANGED <<table, wait_child_flag, loop, got, child, bounds, dropped>>

\* waitpid(-1, &child_status, WNOHANG) > 0.
ChldReap ==
    /\ hpc = "wait"
    /\ \E p \in Pids :
         /\ child[p] = "zombie"
         /\ child' = [child EXCEPT ![p] = "reaped"]
         /\ got' = p
    /\ hpc' = "update"
    /\ UNCHANGED <<table, wait_child_flag, loop, pending, bounds, dropped>>

\* Mutant: the handler calls waitpid once.
ReapOne ==
    /\ hpc = "update"
    /\ wait_child_flag' = (wait_child_flag /\ With("f") \cap OfPid(got) = {})
    /\ DeleteJob(got)
    /\ hpc' = "off" /\ mpc' = Woken /\ got' = 0
    /\ UNCHANGED <<cmd, target, idx, arg, pending, child, bounds, dropped>>

\* The table is searched and updated with every signal blocked.
ChldUpdate ==
    /\ hpc = "update"
    /\ wait_child_flag' = (wait_child_flag /\ With("f") \cap OfPid(got) = {})
    /\ DeleteJob(got)
    /\ hpc' = "wait" /\ got' = 0
    /\ UNCHANGED <<loop, pending, child, bounds, dropped>>

\* waitpid finds no other zombie: the handler returns.
ChldReturn ==
    /\ hpc = "wait"
    /\ \A p \in Pids : child[p] # "zombie"
    /\ hpc' = "off"
    /\ mpc' = Woken
    /\ UNCHANGED <<table, wait_child_flag, cmd, target, idx, arg, got, pending,
                   child, bounds, dropped>>

\* The loop resumes unless the handler of SIGCHLD was interrupted.
Resume == mpc' = (IF hpc = "off" THEN Woken ELSE mpc)

\* Mutant: the handler forgets that the job is no longer in the foreground.
TstpKeepsStatus ==
    /\ "TSTP" \in pending
    /\ IF With("f") = {}
       THEN /\ pending' = pending \ {"TSTP"}
            /\ UNCHANGED <<table, wait_child_flag, child>>
       ELSE LET i == Least(With("f")) IN
            /\ wait_child_flag' = FALSE
            /\ Kill(job_lists[i].pid, "TSTP", {"TSTP"})
            /\ UNCHANGED table
    /\ Resume
    /\ UNCHANGED <<cmd, target, idx, arg, handler, bounds, dropped>>

SigTstp ==
    /\ "TSTP" \in pending
    /\ IF With("f") = {}
       THEN /\ pending' = pending \ {"TSTP"}
            /\ UNCHANGED <<table, wait_child_flag, child>>
       ELSE LET i == Least(With("f")) IN
            /\ wait_child_flag' = FALSE
            /\ Kill(job_lists[i].pid, "TSTP", {"TSTP"})
            /\ job_lists' = [job_lists EXCEPT ![i].status = "s"]
            /\ UNCHANGED job_lists_size
    /\ Resume
    /\ UNCHANGED <<cmd, target, idx, arg, handler, bounds, dropped>>

SigInt ==
    /\ "INT" \in pending
    /\ IF With("f") = {}
       THEN /\ pending' = pending \ {"INT"}
            /\ UNCHANGED <<table, wait_child_flag, child, dropped>>
       ELSE LET p == job_lists[Least(With("f"))].pid IN
            /\ wait_child_flag' = FALSE
            /\ Kill(p, "INT", {"INT"})
            /\ DeleteJob(p)
            /\ dropped' = [dropped EXCEPT !.INT = @ \cup {p}]
    /\ Resume
    /\ UNCHANGED <<cmd, target, idx, arg, handler, bounds>>

Chld == ChldStart \/ ChldReap \/ ChldUpdate \/ ChldReturn

-----------------------------------------------------------------------------
(* eval *)

At(here) == hpc = "off" /\ mpc = here

\* A command that is not built in: block SIGCHLD and fork.
EvalFork(kind) ==
    /\ At("prompt") /\ forks < NumPids
    /\ forks' = forks + 1
    /\ child' = [child EXCEPT ![forks + 1] = "born"]
    /\ mpc' = "add" /\ cmd' = kind
    /\ UNCHANGED <<table, wait_child_flag, target, idx, arg, handler, pending,
                   keys, builtins, dropped>>

\* addjob with every signal blocked; then the mask is empty again.
EvalAddJob ==
    /\ At("add") /\ job_lists_size >= 0
    /\ LET free == (1..NumPids) \ {job_lists[i].entry : i \in Used} IN
         job_lists' = [job_lists EXCEPT ![job_lists_size] =
             Job(forks, Least(free), IF cmd = "run_fg" THEN "f" ELSE "b")]
    /\ job_lists_size' = job_lists_size + 1
    /\ mpc' = IF cmd = "run_fg" THEN "test" ELSE "prompt"
    /\ cmd' = IF cmd = "run_fg" THEN cmd ELSE "none"
    /\ UNCHANGED <<wait_child_flag, target, idx, arg, handler, pending, child,
                   bounds, dropped>>

\* Races with kill have made the size negative: addjob writes job_lists[-1], and what
\* the loop does from here on is not defined.
AddBelowTable ==
    /\ At("add") /\ job_lists_size < 0
    /\ mpc' = "undefined"
    /\ UNCHANGED <<table, wait_child_flag, cmd, target, idx, arg, handler, pending,
                   child, bounds, dropped>>

\* while (wait_child_flag) Sigsuspend(&prev): the test, the call, and the end.
WaitTest ==
    /\ At("test")
    /\ mpc' = IF wait_child_flag THEN "suspend" ELSE "reset"
    /\ UNCHANGED <<table, wait_child_flag, cmd, target, idx, arg, handler, pending,
                   child, bounds, dropped>>

WaitSuspend ==
    /\ At("suspend")
    /\ mpc' = "suspended"
    /\ UNCHANGED <<table, wait_child_flag, cmd, target, idx, arg, handler, pending,
                   child, bounds, dropped>>

WaitReset ==
    /\ At("reset")
    /\ wait_child_flag' = TRUE
    /\ mpc' = "prompt" /\ cmd' = "none"
    /\ UNCHANGED <<table, target, idx, arg, handler, pending, child, bounds,
                   dropped>>

-----------------------------------------------------------------------------
(* bg, fg and kill.  A number n is the argument %n; 0 is no argument. *)

\* The first searches find out which job_entry is meant and that it exists.
Entry(n) ==
    IF n = 0 /\ With("s") # {} THEN job_lists[Greatest(With("s"))].entry ELSE n

Exists(entry) == \E i \in Used : job_lists[i].entry = entry

\* The command goes on if its job exists, and only prints otherwise.
Command(name, entry) ==
    /\ At("prompt") /\ builtins < MaxBuiltins /\ name \in Builtins
    /\ Exists(entry)
    /\ mpc' = "search" /\ cmd' = name /\ target' = entry /\ idx' = 0
    /\ builtins' = builtins + 1
    /\ UNCHANGED <<table, wait_child_flag, arg, handler, pending, child,
                   forks, keys, dropped>>

\* bg wants some stopped job, though not that the one it is given is stopped.
BgCommand(n) == With("s") # {} /\ Command("bg", Entry(n))
FgCommand(n) == n # 0 /\ Command("fg", n)
KillCommand(n) == n # 0 /\ Command("kill", n)

\* The last search, which acts: one index at a time.
Search ==
    /\ At("search")
    /\ \/ /\ idx \notin Used
          /\ mpc' = "prompt" /\ cmd' = "none" /\ target' = 0 /\ idx' = 0
       \/ /\ idx \in Used /\ job_lists[idx].entry # target
          /\ idx' = idx + 1
          /\ UNCHANGED <<mpc, cmd, target>>
       \/ /\ idx \in Used /\ job_lists[idx].entry = target
          /\ mpc' = "signal"
          /\ UNCHANGED <<cmd, target, idx>>
    /\ UNCHANGED <<table, wait_child_flag, arg, handler, pending, child, bounds,
                   dropped>>

\* kill(-job_lists[i].pid, ...), with the index that was found.
Signal ==
    /\ At("signal")
    /\ IF cmd = "fg" /\ job_lists[idx].status # "s"
       THEN UNCHANGED <<child, pending>>
       ELSE Kill(job_lists[idx].pid, IF cmd = "kill" THEN "KILL" ELSE "CONT", {})
    /\ dropped' = IF cmd = "kill" THEN [dropped EXCEPT !.KILL = @ \cup {job_lists[idx].pid}]
                  ELSE dropped
    /\ mpc' = "mark"
    /\ UNCHANGED <<table, wait_child_flag, cmd, target, idx, arg, handler, bounds>>

\* job_lists[i].status = ..., with the same index; fg then waits.
Mark ==
    /\ At("mark") /\ cmd \in {"bg", "fg"}
    /\ job_lists' = [job_lists EXCEPT ![idx].status = IF cmd = "bg" THEN "b" ELSE "f"]
    /\ mpc' = IF cmd = "bg" THEN "prompt" ELSE "test"
    /\ cmd' = IF cmd = "bg" THEN "none" ELSE cmd
    /\ target' = 0 /\ idx' = 0
    /\ UNCHANGED <<job_lists_size, wait_child_flag, arg, handler, pending, child,
                   bounds, dropped>>

\* deletejob(job_lists[i].pid), run by the loop with nothing blocked.
DeleteCall ==
    /\ At("mark") /\ cmd = "kill"
    /\ arg' = job_lists[idx].pid
    /\ mpc' = "delete" /\ idx' = 0
    /\ UNCHANGED <<table, wait_child_flag, cmd, target, handler, pending, child,
                   bounds, dropped>>

DeleteSearch ==
    /\ At("delete")
    /\ \/ /\ idx \notin Used
          /\ mpc' = "prompt" /\ cmd' = "none" /\ target' = 0 /\ idx' = 0 /\ arg' = 0
       \/ /\ idx \in Used /\ job_lists[idx].pid # arg
          /\ idx' = idx + 1
          /\ UNCHANGED <<mpc, cmd, target, arg>>
       \/ /\ idx \in Used /\ job_lists[idx].pid = arg
          /\ mpc' = "shift" /\ idx' = idx + 1
          /\ UNCHANGED <<cmd, target, arg>>
    /\ UNCHANGED <<table, wait_child_flag, handler, pending, child, bounds,
                   dropped>>

DeleteShift ==
    /\ At("shift") /\ idx \in Used
    /\ job_lists' = [job_lists EXCEPT ![idx - 1] = job_lists[idx]]
    /\ idx' = idx + 1
    /\ UNCHANGED <<job_lists_size, wait_child_flag, mpc, cmd, target, arg, handler,
                   pending, child, bounds, dropped>>

DeleteDone ==
    /\ At("shift") /\ idx \notin Used
    /\ job_lists_size' = job_lists_size - 1
    /\ mpc' = "prompt" /\ cmd' = "none" /\ target' = 0 /\ idx' = 0 /\ arg' = 0
    /\ UNCHANGED <<job_lists, wait_child_flag, handler, pending, child, bounds,
                   dropped>>

Loop ==
    \/ EvalAddJob \/ AddBelowTable \/ WaitTest \/ WaitSuspend \/ WaitReset
    \/ Search \/ Signal \/ Mark
    \/ DeleteCall \/ DeleteSearch \/ DeleteShift \/ DeleteDone

-----------------------------------------------------------------------------
(* The children, and the keyboard. *)

Becomes(p, from, to) ==
    /\ child[p] = from
    /\ child' = [child EXCEPT ![p] = to]
    /\ UNCHANGED <<table, wait_child_flag, loop, handler, bounds, dropped>>

SetPgid(p) == Becomes(p, "born", "grouped") /\ UNCHANGED pending
Exec(p) == Becomes(p, "grouped", "running") /\ UNCHANGED pending
Exit(p) == Becomes(p, "running", "zombie") /\ pending' = pending \cup {"CHLD"}

Child(p) == SetPgid(p) \/ Exec(p) \/ Exit(p)

\* The terminal sends the signal to the shell; children are in other groups.
Key(sig) ==
    /\ keys < MaxKeys
    /\ keys' = keys + 1
    /\ pending' = pending \cup {sig}
    /\ UNCHANGED <<table, wait_child_flag, loop, handler, child, forks, builtins,
                   dropped>>

User ==
    \/ \E kind \in {"run_fg", "run_bg"} : EvalFork(kind)
    \/ \E n \in 0..NumPids : BgCommand(n) \/ FgCommand(n) \/ KillCommand(n)
    \/ \E sig \in {"INT", "TSTP"} : Key(sig)

-----------------------------------------------------------------------------
Next == Chld \/ SigTstp \/ SigInt \/ Loop \/ User \/ \E p \in Pids : Child(p)

Spec == Init /\ [][Next]_vars

(***************************************************************************)
(* The shell runs, an unblocked pending signal is handled, and a program   *)
(* that is not stopped ends.  Nothing makes the user type.                 *)
(***************************************************************************)
FairSpec ==
    /\ Spec
    /\ WF_vars(Chld) /\ WF_vars(SigTstp) /\ WF_vars(SigInt) /\ WF_vars(Loop)
    /\ \A p \in Pids : WF_vars(Child(p))

-----------------------------------------------------------------------------
(* Properties *)

\* Type invariant.
TypeOK ==
    /\ job_lists \in [Slots -> [pid : 0..NumPids, entry : 0..NumPids,
                                status : {"none", "f", "b", "s"}]]
    /\ job_lists_size \in (-1)..NumPids /\ wait_child_flag \in BOOLEAN
    /\ mpc \in {"prompt", "add", "test", "suspend", "suspended", "reset", "search",
                "signal", "mark", "delete", "shift", "undefined"}
    /\ cmd \in {"none", "run_fg", "run_bg", "bg", "fg", "kill"}
    /\ target \in 0..NumPids /\ idx \in 0..NumPids /\ arg \in 0..NumPids
    /\ hpc \in {"off", "wait", "update"} /\ got \in 0..NumPids
    /\ forks \in 0..NumPids /\ keys \in 0..MaxKeys /\ builtins \in 0..MaxBuiltins
    /\ pending \subseteq {"CHLD", "INT", "TSTP"}
    /\ child \in [Pids -> {"none", "born", "grouped", "running", "stopped",
                           "zombie", "reaped"}]
    /\ dropped \in [INT : SUBSET Pids, KILL : SUBSET Pids]

\* The children that eval has added, that are not reaped (or whose entry the
\* handler is about to delete), and that neither ctrl-C nor kill has taken off.
Tracked ==
    {p \in 1..(IF mpc = "add" THEN forks - 1 ELSE forks) :
        /\ p \notin dropped.INT \cup dropped.KILL
        /\ child[p] # "reaped" \/ (hpc = "update" /\ got = p)}

\* Until kill is typed, the table lists exactly the children there are to control,
\* each once and under a job_entry of its own: no child that ended before addjob ran
\* stays in the table, and no reaped one is left there.
TableMatchesChildren ==
    dropped.KILL = {} =>
      /\ {job_lists[i].pid : i \in Used} = Tracked
      /\ \A i, j \in Used : i # j =>
           /\ job_lists[i].pid # job_lists[j].pid
           /\ job_lists[i].entry # job_lists[j].entry

\* Until kill is typed, the shell waits for the one job that is in the foreground:
\* there is no other such job, and none while the shell prompts, whatever ctrl-C,
\* ctrl-Z and the ends of children interrupt.  (The deletejob of kill, run with nothing
\* blocked, can leave a pid in the table twice, and then one copy in the foreground
\* when the other has been taken off and its wait has ended.)
ForegroundIsAwaited ==
    dropped.KILL = {} /\ With("f") # {} =>
        /\ Cardinality(With("f")) = 1
        /\ wait_child_flag
        /\ mpc \in {"test", "suspend", "suspended"}

\* No child that has ended is forgotten, although signals do not queue and whatever
\* happens to the table: a SIGCHLD is still to be handled, or the handler that runs
\* will call waitpid again before it returns.
NoZombieForgotten ==
    (\E p \in Pids : child[p] = "zombie") => "CHLD" \in pending \/ hpc # "off"

\* shellex.c:348, "WITHOUT RACE", and shellex.c:15-16: wait_child_flag is cleared
\* when the awaited job has ended or stopped, and the shell prompts again.
ForegroundReturns ==
    mpc \in {"test", "suspend", "suspended"} ~> mpc = "prompt"

\* shellex.c:53-57: deletejob takes the job with the given pid off the table and
\* keeps the others: a child that neither ended nor was meant by ctrl-C or kill can
\* still be named by bg, fg and kill when the shell prompts.
OtherJobsKept ==
    mpc = "prompt" => \A p \in Tracked : OfPid(p) # {}

\* shellex.c:138, the comment in sig_int_handler: it finds the foreground job and does
\* away with its process group.  A job that ctrl-C has taken off the table runs no
\* program any more.
InterruptEndsJob == \A p \in dropped.INT : child[p] # "running"
=============================================================================
