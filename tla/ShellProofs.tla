---------------------------- MODULE ShellProofs ----------------------------
(***************************************************************************)
(* Job control, for any number of children, keys and commands: no zombie   *)
(* is forgotten; and, until kill is typed, the table lists the children    *)
(* there are and the shell waits for the one in the foreground.            *)
(***************************************************************************)
EXTENDS Shell, Counts

-----------------------------------------------------------------------------
(* The parts of the inductive invariant. *)

\* The children that addjob has put in the table.
Added == IF mpc = "add" THEN forks - 1 ELSE forks

\* What the table holds at its least: jobs that eval added, and no more of them; the
\* command that has found a job works on a slot that has held one.
TableOK ==
    /\ job_lists_size <= Added
    /\ job_lists_size = -1 => mpc \in {"prompt", "add", "undefined"}
    /\ \A i \in Slots : job_lists[i].pid <= Added
    /\ \A i \in Used : job_lists[i].pid # 0
    /\ mpc \in {"signal", "mark"} => idx \in Slots /\ job_lists[idx].pid # 0
    /\ dropped.INT \subseteq 1..Added

\* Between Fork and addjob no handler of SIGCHLD runs, so the child is not reaped.
AddOK == mpc = "add" => hpc = "off" /\ forks >= 1 /\ child[forks] # "reaped"

ReapOK == hpc = "update" => got \in Pids /\ child[got] = "reaped"

\* While no job has been killed the loop has not called deletejob.
KillOK == dropped.KILL = {} => /\ mpc \notin {"delete", "shift", "undefined"}
                               /\ mpc = "mark" => cmd # "kill"
                               /\ job_lists_size >= 0

Steady == TypeOK /\ TableOK /\ AddOK /\ ReapOK /\ KillOK

Awaiting == mpc \in {"test", "suspend", "suspended"}

\* At most one job is in the foreground, and only while it is awaited; the flag that
\* ends the wait is down only after the job has left the foreground and until reset.
Foreground ==
    dropped.KILL = {} =>
      /\ Awaiting \/ With("f") = {}
      /\ Awaiting \/ mpc = "reset" \/ wait_child_flag
      /\ With("f") # {} => wait_child_flag
      /\ \A i, j \in With("f") : i = j

-----------------------------------------------------------------------------
(* The operators of the model. *)

LEMMA LeastOfUsed ==
    ASSUME job_lists_size \in Int, NEW S \in SUBSET Used, S # {}
    PROVE  Least(S) \in S
<1>1. IsFiniteSet(Used) /\ Used \subseteq Int
  BY FS_Interval DEF Used
<1>2. IsFiniteSet(S) /\ S \in SUBSET Int
  BY <1>1, FS_Subset
<1>3. \E m \in S : \A x \in S : m <= x
  BY <1>2, LeastInteger
<1> QED  BY <1>3 DEF Least

\* The numbers 1..NumPids are more than the jobs of a table that is not full.
LEMMA FreeEntry ==
    ASSUME TypeOK, 0 <= job_lists_size, job_lists_size < NumPids
    PROVE  LET free == (1..NumPids) \ {job_lists[i].entry : i \in Used}
           IN  Least(free) \in free
<1> DEFINE entries == {job_lists[i].entry : i \in Used}
           free == (1..NumPids) \ entries
<1>1. IsFiniteSet(Used) /\ Cardinality(Used) = job_lists_size
  BY ShellAssumption, FS_Interval DEF Used, TypeOK
<1>2. IsFiniteSet(entries) /\ Cardinality(entries) <= job_lists_size
  <2> DEFINE f == [i \in Used |-> job_lists[i].entry]
  <2>1. f \in Surjection(Used, entries)
    BY DEF Surjection
  <2> QED  BY <1>1, <2>1, FS_Surjection
<1>3. IsFiniteSet(1..NumPids) /\ Cardinality(1..NumPids) = NumPids
  BY ShellAssumption, FS_Interval
<1>4. free # {}
  <2> SUFFICES ASSUME free = {} PROVE FALSE
    OBVIOUS
  <2>1. 1..NumPids \subseteq entries
    OBVIOUS
  <2>2. NumPids <= Cardinality(entries) /\ Cardinality(entries) \in Int
    <3>1. 1..NumPids \in SUBSET entries
      BY <2>1
    <3>2. Cardinality(1..NumPids) <= Cardinality(entries)
      BY <1>2, <3>1, FS_Subset
    <3>3. Cardinality(entries) \in Nat
      BY <1>2, FS_CardinalityType
    <3> QED  BY <1>3, <3>2, <3>3
  <2> QED  BY <1>2, <2>2, ShellAssumption DEF TypeOK
<1>5. IsFiniteSet(free) /\ free \in SUBSET Int
  <2>1. free \in SUBSET (1..NumPids) /\ 1..NumPids \in SUBSET Int
    OBVIOUS
  <2> QED  BY <1>3, <2>1, FS_Subset
<1>6. \E m \in free : \A x \in free : m <= x
  BY <1>4, <1>5, LeastInteger
<1> QED  BY <1>6 DEF Least

\* deletejob takes away one job of the pid, if there is one: what is left are the other
\* jobs, those after it one slot down.
Above(i, k) == IF k < i THEN k ELSE k + 1

Removed(i) ==
    /\ job_lists_size' = job_lists_size - 1
    /\ \A k \in Used' : /\ Above(i, k) \in Used \ {i}
                        /\ job_lists'[k] = job_lists[Above(i, k)]
    /\ \A j \in Used \ {i} : \E k \in Used' : Above(i, k) = j
    /\ \A k, l \in Used' : k # l => Above(i, k) # Above(i, l)

Typed == [Slots -> [pid : 0..NumPids, entry : 0..NumPids,
                    status : {"none", "f", "b", "s"}]]

LEMMA DeleteJobRemoves ==
    ASSUME TypeOK, NEW p, DeleteJob(p)
    PROVE  \/ OfPid(p) = {} /\ UNCHANGED table
           \/ \E i \in OfPid(p) : Removed(i)
<1>1. CASE OfPid(p) = {}
  BY <1>1 DEF DeleteJob
<1>2. CASE OfPid(p) # {}
  <2> DEFINE i == Least(OfPid(p))
  <2>1. i \in OfPid(p) /\ i \in Used /\ i \in Int
    <3>1. OfPid(p) \in SUBSET Used
      BY DEF OfPid
    <3> QED  BY <1>2, <3>1, LeastOfUsed DEF TypeOK, Used
  <2>2. /\ job_lists' = [k \in Slots |-> IF k \in i..(job_lists_size - 2)
                                          THEN job_lists[k + 1] ELSE job_lists[k]]
        /\ job_lists_size' = job_lists_size - 1
    BY <1>2 DEF DeleteJob
  <2> HIDE DEF i
  <2>3. job_lists_size \in Int /\ job_lists_size <= NumPids /\ NumPids \in Int
    BY ShellAssumption DEF TypeOK
  <2>4. Removed(i)
    <3>1. ASSUME NEW k \in Used'
          PROVE  /\ Above(i, k) \in Used \ {i}
                 /\ job_lists'[k] = job_lists[Above(i, k)]
      <4>1. k \in Int /\ 0 <= k /\ k <= job_lists_size - 2 /\ k \in Slots
        BY <2>2, <2>3 DEF Used, Slots
      <4>2. job_lists'[k] = IF k \in i..(job_lists_size - 2)
                            THEN job_lists[k + 1] ELSE job_lists[k]
        BY <2>2, <4>1
      <4> QED  BY <2>1, <2>3, <4>1, <4>2 DEF Above, Used
    <3>2. ASSUME NEW j \in Used \ {i} PROVE \E k \in Used' : Above(i, k) = j
      <4> DEFINE k == IF j < i THEN j ELSE j - 1
      <4>1. k \in Used' /\ Above(i, k) = j
        BY <2>1, <2>2, <2>3 DEF Above, Used
      <4> QED  BY <4>1
    <3>3. ASSUME NEW k \in Used', NEW l \in Used', k # l
          PROVE  Above(i, k) # Above(i, l)
      BY <2>1, <2>2, <2>3, <3>3 DEF Above, Used
    <3> QED  BY <2>2, <3>1, <3>2, <3>3 DEF Removed
  <2> QED  BY <2>1, <2>4
<1> QED  BY <1>1, <1>2

\* Nor does it write anything in the table but jobs of the table.
LEMMA DeleteJobTypes ==
    ASSUME TypeOK, NEW p, DeleteJob(p)
    PROVE  /\ job_lists' \in Typed
           /\ job_lists_size' \in (-1)..NumPids /\ job_lists_size' <= job_lists_size
           /\ job_lists_size < 0 => job_lists_size' = job_lists_size
           /\ job_lists_size >= 0 => job_lists_size' >= 0
           /\ \A k \in Slots : \/ job_lists'[k] = job_lists[k]
                               \/ \E j \in Used : job_lists'[k] = job_lists[j]
           /\ \A k \in Used' : \E j \in Used : job_lists'[k] = job_lists[j]
<1> USE DEF Typed
<1>0. job_lists \in Typed /\ job_lists_size \in (-1)..NumPids /\ NumPids \in Nat
  BY ShellAssumption DEF TypeOK
<1>1. CASE OfPid(p) = {}
  BY <1>0, <1>1 DEF DeleteJob, table, Used
<1>2. CASE OfPid(p) # {}
  <2> DEFINE i == Least(OfPid(p))
  <2>1. i \in Used /\ i \in Int /\ 0 <= i /\ i < job_lists_size
    <3>1. OfPid(p) \in SUBSET Used
      BY DEF OfPid
    <3> QED  BY <1>0, <1>2, <3>1, LeastOfUsed DEF Used
  <2>2. /\ job_lists' = [k \in Slots |-> IF k \in i..(job_lists_size - 2)
                                          THEN job_lists[k + 1] ELSE job_lists[k]]
        /\ job_lists_size' = job_lists_size - 1
    BY <1>2 DEF DeleteJob
  <2> HIDE DEF i
  <2>3. ASSUME NEW k \in Slots
        PROVE  \/ job_lists'[k] = job_lists[k]
               \/ \E j \in Used \cap Slots : job_lists'[k] = job_lists[j]
    <3>1. CASE k \in i..(job_lists_size - 2)
      <4>1. k + 1 \in Used /\ k + 1 \in Slots
        BY <1>0, <2>1, <3>1 DEF Used, Slots
      <4> QED  BY <2>2, <3>1, <4>1
    <3>2. CASE k \notin i..(job_lists_size - 2)
      BY <2>2, <3>2
    <3> QED  BY <3>1, <3>2
  <2>4. \A k \in Slots : job_lists'[k] \in [pid : 0..NumPids, entry : 0..NumPids,
                                             status : {"none", "f", "b", "s"}]
    BY <1>0, <2>3
  <2>5. job_lists' \in Typed
    BY <2>2, <2>4
  <2>6. Used' \subseteq Used /\ Used' \subseteq Slots
    BY <1>0, <2>2 DEF Used, Slots
  <2> QED  BY <1>0, <2>1, <2>2, <2>3, <2>5, <2>6
<1> QED  BY <1>1, <1>2

\* A signal changes the state of a child, and says so with a SIGCHLD, but reaps none.
LEMMA KillChild ==
    ASSUME TypeOK, NEW p \in Pids, NEW sig, NEW handled, Kill(p, sig, handled)
    PROVE  /\ child' \in [Pids -> {"none", "born", "grouped", "running", "stopped",
                                    "zombie", "reaped"}]
           /\ pending' \subseteq {"CHLD", "INT", "TSTP"}
           /\ \A q \in Pids : child'[q] = "reaped" <=> child[q] = "reaped"
           /\ \A q \in Pids :
                child'[q] = "zombie" => child[q] = "zombie" \/ "CHLD" \in pending'
           /\ "CHLD" \notin handled => ("CHLD" \in pending => "CHLD" \in pending')
<1>1. child \in [Pids -> {"none", "born", "grouped", "running", "stopped",
                          "zombie", "reaped"}]
      /\ pending \subseteq {"CHLD", "INT", "TSTP"}
  BY DEF TypeOK
<1>2. /\ After(child[p], sig) \in {"none", "born", "grouped", "running", "stopped",
                                   "zombie", "reaped"}
      /\ After(child[p], sig) = "reaped" <=> child[p] = "reaped"
  BY <1>1 DEF After
<1>3. /\ child' = [child EXCEPT ![p] = After(child[p], sig)]
      /\ pending' = (pending \ handled)
                      \cup (IF After(child[p], sig) # child[p] THEN {"CHLD"} ELSE {})
  BY DEF Kill
<1>4. pending' \subseteq {"CHLD", "INT", "TSTP"}
  BY <1>1, <1>3
<1>5. \A q \in Pids : child'[q] = IF q = p THEN After(child[p], sig) ELSE child[q]
  BY <1>1, <1>3
<1> QED  BY <1>1, <1>2, <1>3, <1>4, <1>5

LEMMA UsedSlots == TypeOK => Used \subseteq Slots /\ \A i \in Used : i \in Int
  BY ShellAssumption DEF TypeOK, Used, Slots

\* Taking a job off the table keeps what the table is at its least.
LEMMA DeleteJobTables ==
    ASSUME TypeOK, TableOK, NEW p, DeleteJob(p), UNCHANGED <<idx, forks>>,
           mpc' = mpc \/ (mpc = "suspended" /\ mpc' = "test"),
           dropped'.INT \subseteq 1..Added
    PROVE  TableOK'
<1>1. /\ job_lists' \in Typed
      /\ job_lists_size' \in (-1)..NumPids /\ job_lists_size' <= job_lists_size
      /\ job_lists_size < 0 => job_lists_size' = job_lists_size
      /\ job_lists_size >= 0 => job_lists_size' >= 0
      /\ \A k \in Slots : \/ job_lists'[k] = job_lists[k]
                          \/ \E j \in Used : job_lists'[k] = job_lists[j]
      /\ \A k \in Used' : \E j \in Used : job_lists'[k] = job_lists[j]
  BY DeleteJobTypes
<1>2. Added' = Added /\ Added \in Int /\ job_lists_size \in Int
  BY DEF Added, TypeOK
<1>3. job_lists_size' <= Added' /\ (job_lists_size' = -1 => mpc' \in {"prompt", "add", "undefined"})
  BY <1>1, <1>2 DEF TableOK
<1>4. \A k \in Slots : job_lists'[k].pid <= Added'
  BY <1>1, <1>2, UsedSlots DEF TableOK
<1>5. \A k \in Used' : job_lists'[k].pid # 0
  BY <1>1 DEF TableOK
<1>6. mpc' \in {"signal", "mark"} => idx' \in Slots /\ job_lists'[idx'].pid # 0
  BY <1>1 DEF TableOK
<1> QED  BY <1>2, <1>3, <1>4, <1>5, <1>6 DEF TableOK

-----------------------------------------------------------------------------
(* The types, the table and the loop. *)

LEMMA SteadyInit == Init => Steady
<1> SUFFICES ASSUME Init PROVE Steady
  OBVIOUS
<1>1. NoJob \in [pid : 0..NumPids, entry : 0..NumPids, status : {"none", "f", "b", "s"}]
  BY ShellAssumption DEF NoJob, Job
<1>2. TypeOK
  BY <1>1, ShellAssumption DEF Init, TypeOK
<1>3. TableOK
  BY ShellAssumption DEF Init, TableOK, Added, Used, NoJob, Job
<1> QED  BY <1>2, <1>3 DEF Init, Steady, AddOK, ReapOK, KillOK

\* The handler of SIGCHLD.
LEMMA SteadyChld == ASSUME Steady, Chld PROVE Steady'
<1> USE DEF Steady
<1> USE ShellAssumption
<1>1. ASSUME ChldStart PROVE Steady'
  BY <1>1 DEF ChldStart, TypeOK, TableOK, AddOK, ReapOK, KillOK, Added, Used, table, loop,
     bounds
<1>4. ASSUME ChldReturn PROVE Steady'
  BY <1>4 DEF ChldReturn, Woken, TypeOK, TableOK, AddOK, ReapOK, KillOK, Added, Used,
     table, bounds
<1>2. ASSUME ChldReap PROVE Steady'
  <2>1. PICK p \in Pids : child' = [child EXCEPT ![p] = "reaped"] /\ got' = p
    BY <1>2 DEF ChldReap
  <2>2. UNCHANGED <<table, wait_child_flag, loop, pending, bounds, dropped>>
        /\ hpc = "wait" /\ hpc' = "update"
    BY <1>2 DEF ChldReap
  <2>3. TypeOK'
    BY <2>1, <2>2 DEF TypeOK, Pids, table, loop, bounds
  <2>4. child'[p] = "reaped"
    BY <2>1 DEF TypeOK
  <2>5. mpc # "add"
    BY <2>2 DEF AddOK
  <2> QED  BY <2>1, <2>2, <2>3, <2>4, <2>5 DEF TableOK, AddOK, ReapOK, KillOK, Added, Used,
             table, loop, bounds
<1>3. ASSUME ChldUpdate PROVE Steady'
  <2>1. /\ DeleteJob(got)
        /\ wait_child_flag' = (wait_child_flag /\ With("f") \cap OfPid(got) = {})
        /\ hpc = "update" /\ hpc' = "wait" /\ got' = 0
        /\ UNCHANGED <<loop, pending, child, bounds, dropped>>
    BY <1>3 DEF ChldUpdate
  <2>2. TypeOK'
    <3>1. job_lists' \in Typed /\ job_lists_size' \in (-1)..NumPids
      BY <2>1, DeleteJobTypes
    <3>2. wait_child_flag' \in BOOLEAN
      BY <2>1
    <3> QED  BY <2>1, <3>1, <3>2 DEF TypeOK, Typed, loop, bounds
  <2>3. TableOK'
    BY <2>1, DeleteJobTables DEF TableOK, loop, bounds
  <2>4. KillOK'
    BY <2>1, DeleteJobTypes DEF KillOK, loop
  <2> QED  BY <2>1, <2>2, <2>3, <2>4 DEF AddOK, ReapOK, loop, bounds
<1> QED  BY <1>1, <1>2, <1>3, <1>4 DEF Chld

\* The job that ctrl-C and ctrl-Z are for.
LEMMA ForemostJob ==
    ASSUME Steady, With("f") # {}
    PROVE  LET i == Least(With("f")) IN
           /\ i \in With("f") /\ i \in Used /\ i \in Slots
           /\ job_lists[i].pid \in Pids /\ job_lists[i].pid \in 1..Added
<1> DEFINE i == Least(With("f"))
<1>1. i \in With("f") /\ i \in Used /\ i \in Slots
  <2>1. With("f") \in SUBSET Used
    BY DEF With
  <2>2. job_lists_size \in Int
    BY DEF Steady, TypeOK
  <2> QED  BY <2>1, <2>2, LeastOfUsed, UsedSlots DEF Steady
<1>2. job_lists[i].pid \in 0..NumPids /\ job_lists[i].pid # 0 /\ job_lists[i].pid <= Added
  BY <1>1 DEF Steady, TypeOK, TableOK
<1> QED  BY <1>1, <1>2, ShellAssumption DEF Added, Steady, TypeOK, Pids

\* ctrl-Z and ctrl-C.
LEMMA SteadyKeys == ASSUME Steady, SigTstp \/ SigInt PROVE Steady'
<1> USE DEF Steady
<1> USE ShellAssumption
<1>0. mpc' = mpc \/ (mpc = "suspended" /\ mpc' = "test")
  BY DEF SigTstp, SigInt, Resume, Woken
<1>1. CASE With("f") = {}
  BY <1>0, <1>1 DEF SigTstp, SigInt, TypeOK, TableOK, AddOK, ReapOK, KillOK, Added, Used,
     table, handler, bounds
<1>2. CASE With("f") # {}
  <2> DEFINE i == Least(With("f"))
             p == job_lists[i].pid
  <2>1. i \in With("f") /\ i \in Used /\ i \in Slots
    BY <1>2, ForemostJob
  <2>2. p \in Pids /\ p \in 1..Added
    BY <1>2, ForemostJob
  <2>3. ASSUME SigTstp PROVE Steady'
    <3>1. /\ wait_child_flag' = FALSE
          /\ Kill(p, "TSTP", {"TSTP"})
          /\ job_lists' = [job_lists EXCEPT ![i].status = "s"]
          /\ UNCHANGED <<job_lists_size, cmd, target, idx, arg, handler, bounds, dropped>>
      BY <1>2, <2>3 DEF SigTstp
    <3> HIDE DEF i
    <3>2. TypeOK'
      <4>1. job_lists' \in Typed
        BY <2>1, <3>1 DEF TypeOK, Typed
      <4>2. /\ child' \in [Pids -> {"none", "born", "grouped", "running", "stopped",
                                     "zombie", "reaped"}]
            /\ pending' \subseteq {"CHLD", "INT", "TSTP"}
        BY <2>2, <3>1, KillChild
      <4> QED  BY <1>0, <3>1, <4>1, <4>2 DEF TypeOK, Typed, handler, bounds
    <3>3. \A k \in Slots : job_lists'[k].pid = job_lists[k].pid
      BY <3>1 DEF TypeOK
    <3>4. TableOK'
      BY <1>0, <3>1, <3>3, UsedSlots DEF TableOK, Added, Used, bounds
    <3>5. \A q \in Pids : child'[q] = "reaped" <=> child[q] = "reaped"
      BY <2>2, <3>1, KillChild
    <3>6. AddOK'
      BY <1>0, <3>1, <3>5 DEF AddOK, TypeOK, Pids, handler, bounds
    <3>7. ReapOK'
      BY <3>1, <3>5 DEF ReapOK, handler
    <3>8. KillOK'
      BY <1>0, <3>1 DEF KillOK
    <3> QED  BY <3>2, <3>4, <3>6, <3>7, <3>8
  <2>4. ASSUME SigInt PROVE Steady'
    <3>1. /\ wait_child_flag' = FALSE
          /\ Kill(p, "INT", {"INT"})
          /\ DeleteJob(p)
          /\ dropped' = [dropped EXCEPT !.INT = @ \cup {p}]
          /\ UNCHANGED <<cmd, target, idx, arg, handler, bounds>>
      BY <1>2, <2>4 DEF SigInt
    <3> HIDE DEF p
    <3>2. TypeOK'
      <4>1. job_lists' \in Typed /\ job_lists_size' \in (-1)..NumPids
        BY <3>1, DeleteJobTypes
      <4>2. /\ child' \in [Pids -> {"none", "born", "grouped", "running", "stopped",
                                     "zombie", "reaped"}]
            /\ pending' \subseteq {"CHLD", "INT", "TSTP"}
        BY <2>2, <3>1, KillChild
      <4>3. dropped' \in [INT : SUBSET Pids, KILL : SUBSET Pids]
        BY <2>2, <3>1 DEF TypeOK
      <4> QED  BY <1>0, <3>1, <4>1, <4>2, <4>3 DEF TypeOK, Typed, handler, bounds
    <3>3. dropped'.INT = dropped.INT \cup {p} /\ dropped'.KILL = dropped.KILL
      BY <3>1 DEF TypeOK
    <3>4. TableOK'
      <4>1. dropped'.INT \subseteq 1..Added
        BY <2>2, <3>3 DEF TableOK
      <4> QED  BY <1>0, <3>1, <4>1, DeleteJobTables DEF bounds
    <3>5. \A q \in Pids : child'[q] = "reaped" <=> child[q] = "reaped"
      BY <2>2, <3>1, KillChild
    <3>6. AddOK'
      BY <1>0, <3>1, <3>5 DEF AddOK, TypeOK, Pids, handler, bounds
    <3>7. ReapOK'
      BY <3>1, <3>5 DEF ReapOK, handler
    <3>8. KillOK'
      BY <1>0, <3>1, <3>3, DeleteJobTypes DEF KillOK
    <3> QED  BY <3>2, <3>4, <3>6, <3>7, <3>8
  <2> QED  BY <2>3, <2>4
<1> QED  BY <1>1, <1>2

\* eval, and the waiting for the foreground.
LEMMA SteadyEval ==
    ASSUME Steady, EvalAddJob \/ AddBelowTable \/ WaitTest \/ WaitSuspend \/ WaitReset
                   \/ \E kind \in {"run_fg", "run_bg"} : EvalFork(kind)
    PROVE  Steady'
<1> USE DEF Steady, At
<1> USE ShellAssumption
<1>1. ASSUME WaitTest \/ WaitSuspend \/ WaitReset PROVE Steady'
  <2>1. /\ UNCHANGED <<table, target, idx, arg, handler, pending, child, bounds, dropped>>
        /\ hpc = "off"
        /\ mpc \in {"test", "suspend", "reset"}
        /\ mpc' \in {"suspend", "suspended", "reset", "prompt"}
        /\ wait_child_flag' \in {wait_child_flag, TRUE} /\ cmd' \in {cmd, "none"}
    BY <1>1 DEF WaitTest, WaitSuspend, WaitReset
  <2>2. TypeOK'
    BY <2>1 DEF TypeOK, table, handler, bounds
  <2> QED  BY <2>1, <2>2 DEF TableOK, AddOK, ReapOK, KillOK, Added, Used, table, handler,
             bounds
<1>2. ASSUME NEW kind \in {"run_fg", "run_bg"}, EvalFork(kind) PROVE Steady'
  <2>1. /\ mpc = "prompt" /\ hpc = "off" /\ forks < NumPids
        /\ forks' = forks + 1 /\ mpc' = "add" /\ cmd' = kind
        /\ child' = [child EXCEPT ![forks + 1] = "born"]
        /\ UNCHANGED <<table, wait_child_flag, target, idx, arg, handler, pending,
                       keys, builtins, dropped>>
    BY <1>2 DEF EvalFork
  <2>2. TypeOK'
    <3>1. child' \in [Pids -> {"none", "born", "grouped", "running", "stopped",
                               "zombie", "reaped"}]
      BY <2>1 DEF TypeOK
    <3>2. forks' \in 0..NumPids
      BY <2>1 DEF TypeOK
    <3> QED  BY <2>1, <3>1, <3>2 DEF TypeOK, table, handler
  <2>3. forks + 1 \in Pids /\ child'[forks + 1] = "born"
    BY <2>1 DEF TypeOK, Pids
  <2>4. Added' = Added /\ forks' >= 1
    BY <2>1 DEF TypeOK, Added
  <2> QED  BY <2>1, <2>2, <2>3, <2>4 DEF TableOK, AddOK, ReapOK, KillOK, Used, table,
             handler
<1>3. ASSUME EvalAddJob PROVE Steady'
  <2> DEFINE free == (1..NumPids) \ {job_lists[i].entry : i \in Used}
             e == Least(free)
             job == Job(forks, e, IF cmd = "run_fg" THEN "f" ELSE "b")
  <2>1. /\ mpc = "add" /\ hpc = "off" /\ job_lists_size >= 0
        /\ job_lists' = [job_lists EXCEPT ![job_lists_size] = job]
        /\ job_lists_size' = job_lists_size + 1
        /\ mpc' = IF cmd = "run_fg" THEN "test" ELSE "prompt"
        /\ cmd' = IF cmd = "run_fg" THEN cmd ELSE "none"
        /\ UNCHANGED <<wait_child_flag, target, idx, arg, handler, pending, child,
                       bounds, dropped>>
    BY <1>3 DEF EvalAddJob
  <2>2. /\ forks \in 1..NumPids /\ Added = forks - 1 /\ Added' = forks
        /\ job_lists_size \in 0..(forks - 1) /\ forks' = forks
    BY <2>1 DEF AddOK, TypeOK, TableOK, Added, bounds
  <2>3. e \in 1..NumPids
    <3>1. 0 <= job_lists_size /\ job_lists_size < NumPids
      BY <2>2
    <3> QED  BY <3>1, FreeEntry
  <2> HIDE DEF e
  <2>4. /\ job \in [pid : 0..NumPids, entry : 0..NumPids, status : {"none", "f", "b", "s"}]
        /\ job.pid = forks
    BY <2>2, <2>3 DEF Job
  <2> HIDE DEF job
  <2>5. job_lists' \in Typed /\ job_lists_size \in Slots
    BY <2>1, <2>2, <2>4 DEF TypeOK, Typed, Slots
  <2>6. TypeOK'
    BY <2>1, <2>2, <2>5 DEF TypeOK, Typed, handler, bounds
  <2>7. \A k \in Slots : job_lists'[k] = IF k = job_lists_size THEN job ELSE job_lists[k]
    BY <2>1 DEF TypeOK
  <2>8. \A k \in Slots : job_lists'[k].pid <= Added'
    <3>1. \A k \in Slots : job_lists[k].pid \in Int /\ job_lists[k].pid <= forks
      BY <2>2 DEF TypeOK, TableOK
    <3> QED  BY <2>2, <2>4, <2>7, <3>1
  <2>9. \A k \in Used' : job_lists'[k].pid # 0
    <3>1. \A k \in Used' : k \in Slots /\ (k \in Used \/ k = job_lists_size)
      BY <2>1, <2>2 DEF Used, Slots
    <3> QED  BY <2>2, <2>4, <2>7, <3>1 DEF TableOK
  <2>10. dropped'.INT \subseteq 1..Added'
    <3>1. dropped.INT \subseteq 1..(forks - 1)
      BY <2>2 DEF TableOK
    <3> QED  BY <2>1, <2>2, <3>1
  <2>11. TableOK'
    BY <2>1, <2>2, <2>8, <2>9, <2>10 DEF TableOK
  <2> QED  BY <2>1, <2>2, <2>6, <2>11 DEF AddOK, ReapOK, KillOK, handler
<1>4. ASSUME AddBelowTable PROVE Steady'
  <2>1. /\ mpc = "add" /\ hpc = "off" /\ job_lists_size < 0 /\ mpc' = "undefined"
        /\ UNCHANGED <<table, wait_child_flag, cmd, target, idx, arg, handler, pending,
                       child, bounds, dropped>>
    BY <1>4 DEF AddBelowTable
  <2>2. /\ forks \in 1..NumPids /\ Added = forks - 1 /\ Added' = forks
        /\ \A i \in Slots : job_lists[i].pid \in Int
    BY <2>1 DEF AddOK, TypeOK, Added, bounds
  <2>3. TypeOK'
    BY <2>1 DEF TypeOK, table, handler, bounds
  <2>4. TableOK'
    <3>1. dropped'.INT \subseteq 1..Added'
      BY <2>1, <2>2 DEF TableOK
    <3>2. \A i \in Slots : job_lists'[i].pid <= Added'
      BY <2>1, <2>2 DEF TableOK, table
    <3>3. job_lists_size' <= Added'
      BY <2>1, <2>2 DEF TableOK, table, TypeOK
    <3> QED  BY <2>1, <3>1, <3>2, <3>3 DEF TableOK, table, Used
  <2>5. dropped'.KILL # {}
    BY <2>1 DEF KillOK, TypeOK
  <2> QED  BY <2>1, <2>3, <2>4, <2>5 DEF AddOK, ReapOK, KillOK, handler
<1> QED  BY <1>1, <1>2, <1>3, <1>4

\* The searches of bg, fg and kill, which change neither the table nor the children.
LEMMA SteadySearch ==
    ASSUME Steady, \/ \E name \in {"bg", "fg", "kill"}, n \in Int : Command(name, n)
                   \/ Search \/ DeleteCall \/ DeleteSearch
    PROVE  Steady'
<1> USE DEF Steady, At
<1> USE ShellAssumption
<1>1. ASSUME NEW name \in {"bg", "fg", "kill"}, NEW n \in Int, Command(name, n)
      PROVE  Steady'
  <2>1. /\ mpc = "prompt" /\ builtins < MaxBuiltins /\ builtins' = builtins + 1
        /\ mpc' = "search" /\ cmd' = name /\ target' = n /\ idx' = 0
        /\ UNCHANGED <<table, wait_child_flag, arg, handler, pending, child, forks, keys,
                       dropped>>
        /\ Exists(n)
    BY <1>1 DEF Command
  <2>2. PICK i \in Used : job_lists[i].entry = n
    BY <2>1 DEF Exists
  <2>3. n \in 0..NumPids /\ job_lists_size # -1
    BY <2>2, UsedSlots DEF TypeOK, Used
  <2>4. TypeOK'
    BY <2>1, <2>3 DEF TypeOK, table, handler
  <2> QED  BY <2>1, <2>3, <2>4 DEF TableOK, AddOK, ReapOK, KillOK, Added, Used, table,
             handler
<1>2. ASSUME Search PROVE Steady'
  <2>1. /\ mpc = "search" /\ mpc' \in {"search", "signal", "prompt"}
        /\ UNCHANGED <<table, wait_child_flag, arg, handler, pending, child, bounds,
                       dropped>>
        /\ mpc' = "signal" => idx \in Used /\ idx' = idx
        /\ target' \in {target, 0} /\ cmd' \in {cmd, "none"}
        /\ idx' \in {0, idx} \/ (idx \in Used /\ idx' = idx + 1)
    BY <1>2 DEF Search
  <2>2. TypeOK'
    <3>1. idx' \in 0..NumPids
      BY <2>1, UsedSlots DEF TypeOK, Slots
    <3> QED  BY <2>1, <3>1 DEF TypeOK, table, handler, bounds
  <2> QED  BY <2>1, <2>2, UsedSlots DEF TableOK, AddOK, ReapOK, KillOK, Added, Used, table,
             handler, bounds
<1>3. ASSUME DeleteCall PROVE Steady'
  <2>1. /\ mpc = "mark" /\ cmd = "kill" /\ mpc' = "delete" /\ idx' = 0
        /\ arg' = job_lists[idx].pid
        /\ UNCHANGED <<table, wait_child_flag, cmd, target, handler, pending, child,
                       bounds, dropped>>
    BY <1>3 DEF DeleteCall
  <2>2. arg' \in 0..NumPids
    BY <2>1 DEF TypeOK, TableOK
  <2>3. TypeOK'
    BY <2>1, <2>2 DEF TypeOK, table, handler, bounds
  <2> QED  BY <2>1, <2>3 DEF TableOK, AddOK, ReapOK, KillOK, Added, Used, table, handler,
             bounds
<1>4. ASSUME DeleteSearch PROVE Steady'
  <2>1. /\ mpc = "delete" /\ mpc' \in {"delete", "shift", "prompt"}
        /\ UNCHANGED <<table, wait_child_flag, handler, pending, child, bounds, dropped>>
        /\ target' \in {target, 0} /\ cmd' \in {cmd, "none"} /\ arg' \in {arg, 0}
        /\ idx' = 0 \/ (idx \in Used /\ idx' = idx + 1)
    BY <1>4 DEF DeleteSearch
  <2>2. TypeOK'
    <3>1. idx' \in 0..NumPids
      BY <2>1, UsedSlots DEF TypeOK, Slots
    <3> QED  BY <2>1, <3>1 DEF TypeOK, table, handler, bounds
  <2> QED  BY <2>1, <2>2 DEF TableOK, AddOK, ReapOK, KillOK, Added, Used, table, handler,
             bounds
<1> QED  BY <1>1, <1>2, <1>3, <1>4

\* The steps of bg, fg and kill that act on a job.
LEMMA SteadyAct ==
    ASSUME Steady, Signal \/ Mark \/ DeleteShift \/ DeleteDone
    PROVE  Steady'
<1> USE DEF Steady, At
<1> USE ShellAssumption
<1>1. ASSUME Signal PROVE Steady'
  <2> DEFINE p == job_lists[idx].pid
  <2>1. /\ mpc = "signal" /\ mpc' = "mark" /\ hpc = "off"
        /\ UNCHANGED <<table, wait_child_flag, cmd, target, idx, arg, handler, bounds>>
        /\ \/ UNCHANGED <<child, pending>>
           \/ \E sig \in {"KILL", "CONT"} : Kill(p, sig, {})
        /\ dropped' = IF cmd = "kill" THEN [dropped EXCEPT !.KILL = @ \cup {p}]
                      ELSE dropped
    BY <1>1 DEF Signal
  <2>2. p \in Pids
    BY <2>1 DEF TableOK, TypeOK, Pids
  <2> HIDE DEF p
  <2>3. /\ child' \in [Pids -> {"none", "born", "grouped", "running", "stopped",
                                 "zombie", "reaped"}]
        /\ pending' \subseteq {"CHLD", "INT", "TSTP"}
    BY <2>1, <2>2, KillChild DEF TypeOK
  <2>4. /\ dropped' \in [INT : SUBSET Pids, KILL : SUBSET Pids]
        /\ dropped'.INT = dropped.INT
        /\ cmd = "kill" => dropped'.KILL # {}
    BY <2>1, <2>2 DEF TypeOK
  <2>5. TypeOK'
    BY <2>1, <2>3, <2>4 DEF TypeOK, table, handler, bounds
  <2> QED  BY <2>1, <2>4, <2>5 DEF TableOK, AddOK, ReapOK, KillOK, Added, Used, table,
             handler, bounds
<1>2. ASSUME Mark PROVE Steady'
  <2>1. /\ mpc = "mark" /\ mpc' \in {"prompt", "test"} /\ cmd' \in {cmd, "none"}
        /\ target' = 0 /\ idx' = 0
        /\ \E st \in {"b", "f"} : job_lists' = [job_lists EXCEPT ![idx].status = st]
        /\ UNCHANGED <<job_lists_size, wait_child_flag, arg, handler, pending, child,
                       bounds, dropped>>
    BY <1>2 DEF Mark
  <2>2. job_lists' \in Typed /\ \A k \in Slots : job_lists'[k].pid = job_lists[k].pid
    <3>1. PICK st \in {"b", "f"} : job_lists' = [job_lists EXCEPT ![idx].status = st]
      BY <2>1
    <3>2. idx \in Slots
      BY <2>1 DEF TableOK
    <3> QED  BY <3>1, <3>2 DEF TypeOK, Typed
  <2>3. TypeOK'
    BY <2>1, <2>2 DEF TypeOK, Typed, handler, bounds
  <2> QED  BY <2>1, <2>2, <2>3, UsedSlots DEF TableOK, AddOK, ReapOK, KillOK, Added, Used,
             handler, bounds
<1>3. ASSUME DeleteShift PROVE Steady'
  <2>1. /\ mpc = "shift" /\ idx \in Used /\ idx' = idx + 1
        /\ job_lists' = [job_lists EXCEPT ![idx - 1] = job_lists[idx]]
        /\ UNCHANGED <<job_lists_size, wait_child_flag, mpc, cmd, target, arg, handler,
                       pending, child, bounds, dropped>>
    BY <1>3 DEF DeleteShift
  <2>2. idx \in Slots /\ idx' \in 0..NumPids
    BY <2>1, UsedSlots DEF Slots, TypeOK
  <2>3. job_lists' \in Typed
    BY <2>1, <2>2 DEF TypeOK, Typed
  <2>4. \A k \in Slots : job_lists'[k] = job_lists[k] \/ job_lists'[k] = job_lists[idx]
    BY <2>1 DEF TypeOK
  <2>5. TypeOK'
    BY <2>1, <2>2, <2>3 DEF TypeOK, Typed, handler, bounds
  <2>6. TableOK'
    BY <2>1, <2>2, <2>4, UsedSlots DEF TableOK, Added, Used, bounds
  <2> QED  BY <2>1, <2>5, <2>6 DEF AddOK, ReapOK, KillOK, handler, bounds
<1>4. ASSUME DeleteDone PROVE Steady'
  <2>1. /\ mpc = "shift" /\ job_lists_size' = job_lists_size - 1
        /\ mpc' = "prompt" /\ cmd' = "none" /\ target' = 0 /\ idx' = 0 /\ arg' = 0
        /\ UNCHANGED <<job_lists, wait_child_flag, handler, pending, child, bounds,
                       dropped>>
    BY <1>4 DEF DeleteDone
  <2>2. job_lists_size' \in (-1)..NumPids /\ job_lists_size' <= Added'
        /\ Used' \subseteq Used /\ Added' = Added
    BY <2>1 DEF TypeOK, TableOK, Added, bounds, Used
  <2>3. TypeOK'
    BY <2>1, <2>2 DEF TypeOK, handler, bounds
  <2> QED  BY <2>1, <2>2, <2>3 DEF TableOK, AddOK, ReapOK, KillOK, handler, bounds
<1> QED  BY <1>1, <1>2, <1>3, <1>4

\* The children, and the keys.
LEMMA SteadyWorld ==
    ASSUME Steady, \/ \E p \in Pids : Child(p)
                   \/ \E sig \in {"INT", "TSTP"} : Key(sig)
    PROVE  Steady'
<1> USE DEF Steady
<1> USE ShellAssumption
<1>1. ASSUME NEW p \in Pids, Child(p) PROVE Steady'
  <2>1. PICK to \in {"grouped", "running", "zombie"} :
            child' = [child EXCEPT ![p] = to]
    BY <1>1 DEF Child, SetPgid, Exec, Exit, Becomes
  <2>2. /\ child[p] \in {"born", "grouped", "running"}
        /\ pending' \in {pending, pending \cup {"CHLD"}}
        /\ UNCHANGED <<table, wait_child_flag, loop, handler, bounds, dropped>>
    BY <1>1 DEF Child, SetPgid, Exec, Exit, Becomes
  <2>3. TypeOK'
    <3>1. child' \in [Pids -> {"none", "born", "grouped", "running", "stopped",
                               "zombie", "reaped"}]
      BY <2>1 DEF TypeOK
    <3>2. pending' \subseteq {"CHLD", "INT", "TSTP"}
      BY <2>2 DEF TypeOK
    <3> QED  BY <2>2, <3>1, <3>2 DEF TypeOK, table, loop, handler, bounds
  <2>4. \A q \in Pids : child'[q] = "reaped" <=> child[q] = "reaped"
    BY <2>1, <2>2 DEF TypeOK
  <2>5. TableOK'
    BY <2>2 DEF TableOK, Added, Used, table, loop, bounds
  <2>6. AddOK'
    BY <2>2, <2>4 DEF AddOK, TypeOK, Pids, loop, handler, bounds
  <2>7. ReapOK' /\ KillOK'
    BY <2>2, <2>4 DEF ReapOK, KillOK, table, loop, handler
  <2> QED  BY <2>3, <2>5, <2>6, <2>7
<1>2. ASSUME NEW sig \in {"INT", "TSTP"}, Key(sig) PROVE Steady'
  <2>1. /\ keys < MaxKeys /\ keys' = keys + 1 /\ pending' = pending \cup {sig}
        /\ UNCHANGED <<table, wait_child_flag, loop, handler, child, forks, builtins,
                       dropped>>
    BY <1>2 DEF Key
  <2>2. TypeOK'
    <3>1. pending' \subseteq {"CHLD", "INT", "TSTP"}
      BY <2>1 DEF TypeOK
    <3> QED  BY <2>1, <3>1 DEF TypeOK, table, loop, handler
  <2> QED  BY <2>1, <2>2 DEF TableOK, AddOK, ReapOK, KillOK, Added, Used, table, loop,
             handler
<1> QED  BY <1>1, <1>2

\* bg, fg and kill go on with a job_entry that is in the table.
LEMMA CommandIs ==
    ASSUME Steady, NEW n \in 0..NumPids, BgCommand(n) \/ FgCommand(n) \/ KillCommand(n)
    PROVE  \E name \in {"bg", "fg", "kill"}, m \in Int : Command(name, m)
<1>1. PICK name \in {"bg", "fg", "kill"}, m \in {n, Entry(n)} : Command(name, m)
  BY DEF BgCommand, FgCommand, KillCommand
<1>2. m \in Int
  <2>1. PICK i \in Used : job_lists[i].entry = m
    BY <1>1 DEF Command, Exists
  <2> QED  BY <2>1, UsedSlots, ShellAssumption DEF Steady, TypeOK
<1> QED  BY <1>1, <1>2

LEMMA SteadyNext == ASSUME Steady, [Next]_vars PROVE Steady'
<1>1. CASE Chld
  BY <1>1, SteadyChld
<1>2. CASE SigTstp \/ SigInt
  BY <1>2, SteadyKeys
<1>3. CASE Loop
  BY <1>3, SteadyEval, SteadySearch, SteadyAct DEF Loop
<1>4. CASE User
  BY <1>4, CommandIs, SteadyEval, SteadySearch, SteadyWorld DEF User
<1>5. CASE \E p \in Pids : Child(p)
  BY <1>5, SteadyWorld
<1>6. CASE UNCHANGED vars
  BY <1>6 DEF vars, table, loop, handler, bounds, Steady, TypeOK, TableOK, AddOK, ReapOK,
     KillOK, Added, Used
<1> QED  BY <1>1, <1>2, <1>3, <1>4, <1>5, <1>6 DEF Next

-----------------------------------------------------------------------------
(* No zombie is forgotten. *)

LEMMA ZombieNext ==
    ASSUME Steady, NoZombieForgotten, [Next]_vars PROVE NoZombieForgotten'
<1> USE DEF NoZombieForgotten
<1>1. CASE Chld
  BY <1>1 DEF Chld, ChldStart, ChldReap, ChldUpdate, ChldReturn
<1>2. CASE SigTstp \/ SigInt
  <2>1. CASE With("f") = {}
    BY <1>2, <2>1 DEF SigTstp, SigInt, handler
  <2>2. CASE With("f") # {}
    <3>1. PICK p \in Pids : Kill(p, "TSTP", {"TSTP"}) \/ Kill(p, "INT", {"INT"})
      BY <1>2, <2>2, ForemostJob DEF SigTstp, SigInt
    <3>2. /\ \A q \in Pids :
               child'[q] = "zombie" => child[q] = "zombie" \/ "CHLD" \in pending'
          /\ "CHLD" \in pending => "CHLD" \in pending'
      BY <3>1, KillChild DEF Steady
    <3> QED  BY <1>2, <3>2 DEF SigTstp, SigInt, handler
  <2> QED  BY <2>1, <2>2
<1>3. CASE Loop
  <2>1. CASE Signal
    <3>1. job_lists[idx].pid \in Pids
      BY <2>1, ShellAssumption DEF Signal, At, Steady, TableOK, TypeOK, Pids
    <3>2. PICK sig \in {"KILL", "CONT"} :
              UNCHANGED <<child, pending>> \/ Kill(job_lists[idx].pid, sig, {})
      BY <2>1 DEF Signal
    <3>3. /\ \A q \in Pids :
               child'[q] = "zombie" => child[q] = "zombie" \/ "CHLD" \in pending'
          /\ "CHLD" \in pending => "CHLD" \in pending'
      BY <3>1, <3>2, KillChild DEF Steady
    <3> QED  BY <2>1, <3>3 DEF Signal, handler
  <2>2. CASE ~Signal
    BY <1>3, <2>2 DEF Loop, EvalAddJob, AddBelowTable, WaitTest, WaitSuspend,
       WaitReset, Search, Mark, DeleteCall, DeleteSearch, DeleteShift, DeleteDone, handler
  <2> QED  BY <2>1, <2>2
<1>4. CASE User
  <2>1. ASSUME NEW kind, EvalFork(kind) PROVE NoZombieForgotten'
    <3>1. \A q \in Pids : child'[q] = "zombie" => child[q] = "zombie"
      BY <2>1 DEF EvalFork, Steady, TypeOK
    <3> QED  BY <2>1, <3>1 DEF EvalFork, handler
  <2> QED  BY <1>4, <2>1 DEF User, Command, BgCommand, FgCommand, KillCommand, Key, handler
<1>5. ASSUME NEW p \in Pids, Child(p) PROVE NoZombieForgotten'
  <2>1. /\ UNCHANGED handler
        /\ \/ child' = [child EXCEPT ![p] = "grouped"] /\ UNCHANGED pending
           \/ child' = [child EXCEPT ![p] = "running"] /\ UNCHANGED pending
           \/ "CHLD" \in pending'
    BY <1>5 DEF Child, SetPgid, Exec, Exit, Becomes
  <2> QED  BY <2>1 DEF handler, Steady, TypeOK
<1>6. CASE UNCHANGED vars
  BY <1>6 DEF vars, handler
<1> QED  BY <1>1, <1>2, <1>3, <1>4, <1>5, <1>6 DEF Next

-----------------------------------------------------------------------------
(* The table and the children, the foreground and its wait. *)

Listed == {job_lists[i].pid : i \in Used}
Distinct == \A i, j \in Used : i # j => /\ job_lists[i].pid # job_lists[j].pid
                                        /\ job_lists[i].entry # job_lists[j].entry

LEMMA MatchesIs == TableMatchesChildren <=> (dropped.KILL = {} => Listed = Tracked /\ Distinct)
  BY DEF TableMatchesChildren, Listed, Distinct

LEMMA TrackedIs ==
    Tracked = {p \in 1..Added : /\ p \notin dropped.INT \cup dropped.KILL
                                /\ child[p] # "reaped" \/ (hpc = "update" /\ got = p)}
  BY DEF Tracked, Added

LEMMA MatchesIsNext ==
    TableMatchesChildren' <=> (dropped'.KILL = {} => Listed' = Tracked' /\ Distinct')
  BY DEF TableMatchesChildren, Listed, Distinct

LEMMA TrackedIsNext ==
    Tracked' = {p \in 1..Added' : /\ p \notin dropped'.INT \cup dropped'.KILL
                                  /\ child'[p] # "reaped" \/ (hpc' = "update" /\ got' = p)}
  BY DEF Tracked, Added

\* deletejob takes the pid off the table, and the foreground with it if it was that job.
LEMMA DeleteJobLists ==
    ASSUME TypeOK, Distinct, NEW p, DeleteJob(p)
    PROVE  /\ Listed' = Listed \ {p} /\ Distinct'
           /\ (\A i, j \in With("f") : i = j) =>
                /\ \A i, j \in With("f")' : i = j
                /\ With("f") \cap OfPid(p) # {} => With("f")' = {}
           /\ With("f") = {} => With("f")' = {}
<1>1. CASE OfPid(p) = {} /\ UNCHANGED table
  BY <1>1 DEF Listed, Distinct, With, OfPid, Used, table
<1>2. ASSUME NEW i \in OfPid(p), Removed(i)
      PROVE  /\ Listed' = Listed \ {p} /\ Distinct'
             /\ (\A k, l \in With("f") : k = l) =>
                  /\ \A k, l \in With("f")' : k = l
                  /\ With("f") \cap OfPid(p) # {} => With("f")' = {}
             /\ With("f") = {} => With("f")' = {}
  <2>1. i \in Used /\ job_lists[i].pid = p
    BY DEF OfPid
  <2>2. \A j \in Used \ {i} : job_lists[j].pid # p
    BY <2>1 DEF Distinct
  <2>3. \A k \in Used' : /\ Above(i, k) \in Used \ {i}
                         /\ job_lists'[k] = job_lists[Above(i, k)]
    BY <1>2 DEF Removed
  <2>4. \A j \in Used \ {i} : \E k \in Used' : Above(i, k) = j
    BY <1>2 DEF Removed
  <2>5. \A k, l \in Used' : k # l => Above(i, k) # Above(i, l)
    BY <1>2 DEF Removed
  <2>6. Listed' = Listed \ {p}
    BY <2>1, <2>2, <2>3, <2>4 DEF Listed
  <2>7. Distinct'
    BY <2>3, <2>5 DEF Distinct
  <2>8. \A k \in With("f")' : k \in Used' /\ Above(i, k) \in With("f") \ {i}
    BY <2>3 DEF With
  <2>9. OfPid(p) = {i}
    BY <2>1, <2>2 DEF OfPid
  <2> QED  BY <2>5, <2>6, <2>7, <2>8, <2>9
<1> QED  BY <1>1, <1>2, DeleteJobRemoves

Control == TableMatchesChildren /\ Foreground

\* A step that leaves the table, the children listed and the flag alone.
LEMMA ControlFrame ==
    ASSUME Control, dropped.KILL = {}, UNCHANGED <<table, wait_child_flag>>,
           Tracked' = Tracked, Awaiting => Awaiting', mpc = "reset" => mpc' = "reset"
    PROVE  Control'
<1>1. Listed' = Listed /\ (Distinct <=> Distinct') /\ With("f")' = With("f")
  BY DEF Listed, Distinct, With, Used, table
<1>2. TableMatchesChildren'
  BY <1>1, MatchesIs, MatchesIsNext DEF Control
<1>3. Foreground'
  BY <1>1 DEF Control, Foreground
<1> QED  BY <1>2, <1>3 DEF Control

\* Writing a status keeps the pids and the entries of the table.
LEMMA StatusWritten ==
    ASSUME TypeOK, Distinct, NEW i \in Slots, NEW st,
           job_lists' = [job_lists EXCEPT ![i].status = st],
           job_lists_size' = job_lists_size
    PROVE  /\ Listed' = Listed /\ Distinct'
           /\ With("f")' \subseteq With("f") \cup {i}
           /\ st # "f" => i \notin With("f")'
<1>1. Used' = Used /\ Used \subseteq Slots
  BY UsedSlots DEF Used
<1>2. \A k \in Slots : k # i => job_lists'[k] = job_lists[k]
  BY DEF TypeOK
<1>3. job_lists'[i] = [job_lists[i] EXCEPT !.status = st]
  BY DEF TypeOK
<1>4. job_lists[i] \in [pid : 0..NumPids, entry : 0..NumPids,
                       status : {"none", "f", "b", "s"}]
  BY DEF TypeOK
<1>5. /\ job_lists'[i].pid = job_lists[i].pid
      /\ job_lists'[i].entry = job_lists[i].entry
      /\ job_lists'[i].status = st
  BY <1>3, <1>4
<1>6. \A k \in Used : /\ job_lists'[k].pid = job_lists[k].pid
                      /\ job_lists'[k].entry = job_lists[k].entry
  BY <1>1, <1>2, <1>5
<1>7. Listed' = Listed
  BY <1>1, <1>6 DEF Listed
<1>8. Distinct'
  BY <1>1, <1>6 DEF Distinct
<1>9. /\ With("f")' \subseteq With("f") \cup {i}
      /\ st # "f" => i \notin With("f")'
  BY <1>1, <1>2, <1>5 DEF With
<1> QED  BY <1>7, <1>8, <1>9

\* The handler of SIGCHLD takes off the table the child it has reaped, and ends the wait
\* for it.
LEMMA ControlChld ==
    ASSUME Steady, Control, dropped.KILL = {}, Chld PROVE Control'
<1>1. ASSUME ChldStart \/ ChldReturn PROVE Control'
  <2>1. /\ UNCHANGED <<table, wait_child_flag, child, bounds, dropped>>
        /\ hpc # "update" /\ hpc' # "update"
        /\ mpc' = mpc \/ (mpc = "suspended" /\ mpc' = "test")
    BY <1>1 DEF ChldStart, ChldReturn, Woken, loop
  <2>2. Added' = Added
    BY <2>1 DEF Added, bounds
  <2>3. Tracked' = Tracked
    BY <2>1, <2>2, TrackedIs, TrackedIsNext
  <2> QED  BY <2>1, <2>3, ControlFrame DEF Awaiting
<1>2. ASSUME ChldReap PROVE Control'
  <2>1. PICK p \in Pids : child' = [child EXCEPT ![p] = "reaped"] /\ got' = p
                         /\ child[p] = "zombie"
    BY <1>2 DEF ChldReap
  <2>2. /\ UNCHANGED <<table, wait_child_flag, loop, bounds, dropped>>
        /\ hpc = "wait" /\ hpc' = "update"
    BY <1>2 DEF ChldReap
  <2>3. \A q \in Pids : child'[q] = "reaped" <=> child[q] = "reaped" \/ q = p
    BY <2>1 DEF Steady, TypeOK
  <2>4. Added' = Added /\ 1..Added \subseteq Pids
    BY <2>2, ShellAssumption DEF Added, bounds, loop, Steady, TypeOK, Pids
  <2>5. Tracked' = Tracked
    BY <2>1, <2>2, <2>3, <2>4, TrackedIs, TrackedIsNext
  <2> QED  BY <2>2, <2>5, ControlFrame DEF Awaiting, loop
<1>3. ASSUME ChldUpdate PROVE Control'
  <2>1. /\ DeleteJob(got)
        /\ wait_child_flag' = (wait_child_flag /\ With("f") \cap OfPid(got) = {})
        /\ hpc = "update" /\ hpc' = "wait"
        /\ UNCHANGED <<loop, pending, child, bounds, dropped>>
    BY <1>3 DEF ChldUpdate
  <2>2. Listed = Tracked /\ Distinct
    BY MatchesIs DEF Control
  <2>3. /\ Listed' = Listed \ {got} /\ Distinct'
        /\ (\A i, j \in With("f") : i = j) =>
             /\ \A i, j \in With("f")' : i = j
             /\ With("f") \cap OfPid(got) # {} => With("f")' = {}
        /\ With("f") = {} => With("f")' = {}
    BY <2>1, <2>2, DeleteJobLists DEF Steady
  <2>4. Added' = Added /\ child[got] = "reaped"
    BY <2>1 DEF Added, bounds, loop, Steady, ReapOK
  <2>5. Tracked' = Tracked \ {got}
    BY <2>1, <2>4, TrackedIs, TrackedIsNext
  <2>6. TableMatchesChildren'
    BY <2>2, <2>3, <2>5, MatchesIsNext
  <2>7. Foreground'
    <3>1. mpc' = mpc
      BY <2>1 DEF loop
    <3>2. With("f") = {} => wait_child_flag' = wait_child_flag
      BY <2>1 DEF Steady, TypeOK
    <3> QED  BY <2>1, <2>3, <3>1, <3>2 DEF Control, Foreground, Awaiting
  <2> QED  BY <2>6, <2>7 DEF Control
<1> QED  BY <1>1, <1>2, <1>3 DEF Chld

\* ctrl-Z takes the job out of the foreground, ctrl-C takes it off the table.
LEMMA ControlKeys ==
    ASSUME Steady, Control, dropped.KILL = {}, SigTstp \/ SigInt PROVE Control'
<1>0. /\ mpc' = mpc \/ (mpc = "suspended" /\ mpc' = "test")
      /\ UNCHANGED <<handler, bounds>>
  BY DEF SigTstp, SigInt, Resume, Woken
<1>1. Added' = Added /\ 1..Added \subseteq Pids
  BY <1>0, ShellAssumption DEF Added, bounds, Steady, TypeOK, Pids
<1>2. CASE With("f") = {}
  <2>1. UNCHANGED <<table, wait_child_flag, child, dropped>>
    BY <1>2 DEF SigTstp, SigInt
  <2>2. Tracked' = Tracked
    BY <1>0, <1>1, <2>1, TrackedIs, TrackedIsNext DEF handler
  <2> QED  BY <1>0, <2>1, <2>2, ControlFrame DEF Awaiting
<1>3. CASE With("f") # {}
  <2> DEFINE i == Least(With("f"))
             p == job_lists[i].pid
  <2>1. i \in With("f") /\ i \in Used /\ i \in Slots /\ p \in Pids
    BY <1>3, ForemostJob
  <2>2. With("f") = {i} /\ Awaiting /\ Awaiting'
    BY <1>0, <1>3, <2>1 DEF Control, Foreground, Awaiting
  <2>3. Listed = Tracked /\ Distinct
    BY MatchesIs DEF Control
  <2>4. ASSUME SigTstp PROVE Control'
    <3>1. /\ Kill(p, "TSTP", {"TSTP"})
          /\ job_lists' = [job_lists EXCEPT ![i].status = "s"]
          /\ UNCHANGED <<job_lists_size, dropped>>
      BY <1>3, <2>4 DEF SigTstp
    <3> HIDE DEF i
    <3>2. \A q \in Pids : child'[q] = "reaped" <=> child[q] = "reaped"
      BY <2>1, <3>1, KillChild DEF Steady
    <3>3. Tracked' = Tracked
      BY <1>0, <1>1, <3>1, <3>2, TrackedIs, TrackedIsNext DEF handler
    <3>4. /\ Listed' = Listed /\ Distinct'
          /\ With("f")' \subseteq With("f") \cup {i} /\ i \notin With("f")'
      <4>1. TypeOK /\ job_lists_size' = job_lists_size
        BY <3>1 DEF Steady
      <4>2. PICK k \in Slots : k = i
        BY <2>1
      <4>3. job_lists' = [job_lists EXCEPT ![k].status = "s"]
        BY <3>1, <4>2
      <4>4. /\ Listed' = Listed /\ Distinct'
            /\ With("f")' \subseteq With("f") \cup {k}
            /\ "s" # "f" => k \notin With("f")'
        BY <2>3, <4>1, <4>3, StatusWritten
      <4> QED  BY <4>2, <4>4
    <3>5. With("f")' = {}
      BY <2>2, <3>4
    <3> QED  BY <2>2, <2>3, <3>3, <3>4, <3>5, MatchesIsNext DEF Control, Foreground
  <2>5. ASSUME SigInt PROVE Control'
    <3>1. /\ Kill(p, "INT", {"INT"})
          /\ DeleteJob(p)
          /\ dropped' = [dropped EXCEPT !.INT = @ \cup {p}]
      BY <1>3, <2>5 DEF SigInt
    <3>2. i \in OfPid(p)
      BY <2>1 DEF OfPid
    <3> HIDE DEF i, p
    <3>3. \A q \in Pids : child'[q] = "reaped" <=> child[q] = "reaped"
      BY <2>1, <3>1, KillChild DEF Steady
    <3>4. dropped'.INT = dropped.INT \cup {p} /\ dropped'.KILL = dropped.KILL
      BY <3>1 DEF Steady, TypeOK
    <3>5. Tracked' = Tracked \ {p}
      BY <1>0, <1>1, <3>3, <3>4, TrackedIs, TrackedIsNext DEF handler
    <3>6. Listed' = Listed \ {p} /\ Distinct' /\ With("f")' = {}
      BY <2>2, <2>3, <3>1, <3>2, DeleteJobLists DEF Steady
    <3> QED  BY <2>2, <2>3, <3>5, <3>6, MatchesIsNext DEF Control, Foreground
  <2> QED  BY <2>4, <2>5
<1> QED  BY <1>2, <1>3

\* eval lists the child it has forked, and waits for it in the foreground.
LEMMA ControlEval ==
    ASSUME Steady, Control, dropped.KILL = {},
           EvalAddJob \/ WaitTest \/ WaitSuspend \/ WaitReset
           \/ \E kind \in {"run_fg", "run_bg"} : EvalFork(kind)
    PROVE  Control'
<1> USE DEF At
<1>0. Listed = Tracked /\ Distinct
  BY MatchesIs DEF Control
<1>1. ASSUME WaitTest \/ WaitSuspend \/ WaitReset PROVE Control'
  <2>1. /\ UNCHANGED <<table, handler, child, bounds, dropped>>
        /\ mpc # "add" /\ mpc' # "add"
    BY <1>1 DEF WaitTest, WaitSuspend, WaitReset
  <2>2. Tracked' = Tracked
    <3>1. Added' = Added
      BY <2>1 DEF Added, bounds
    <3> QED  BY <2>1, <3>1, TrackedIs, TrackedIsNext DEF handler
  <2>3. Listed' = Listed /\ Distinct' /\ With("f")' = With("f")
    BY <1>0, <2>1 DEF Listed, Distinct, With, Used, table
  <2>4. TableMatchesChildren'
    BY <1>0, <2>2, <2>3, MatchesIsNext
  <2>5. Foreground'
    BY <1>1, <2>1, <2>3 DEF WaitTest, WaitSuspend, WaitReset, Control, Foreground, Awaiting
  <2> QED  BY <2>4, <2>5 DEF Control
<1>2. ASSUME NEW kind \in {"run_fg", "run_bg"}, EvalFork(kind) PROVE Control'
  <2>1. /\ mpc = "prompt" /\ forks' = forks + 1 /\ mpc' = "add"
        /\ child' = [child EXCEPT ![forks + 1] = "born"]
        /\ UNCHANGED <<table, wait_child_flag, handler, dropped>>
    BY <1>2 DEF EvalFork
  <2>2. Added' = Added /\ Added = forks /\ 1..Added \subseteq Pids
    BY <2>1, ShellAssumption DEF Steady, TypeOK, Added, Pids
  <2>3. \A q \in 1..Added : child'[q] = child[q]
    BY <2>1, <2>2 DEF Steady, TypeOK
  <2>4. Tracked' = Tracked
    BY <2>1, <2>2, <2>3, TrackedIs, TrackedIsNext DEF handler
  <2> QED  BY <2>1, <2>4, ControlFrame DEF Awaiting
<1>3. ASSUME EvalAddJob PROVE Control'
  <2> DEFINE free == (1..NumPids) \ {job_lists[i].entry : i \in Used}
             e == Least(free)
             status == IF cmd = "run_fg" THEN "f" ELSE "b"
             job == Job(forks, e, status)
             n == job_lists_size
  <2>1. /\ mpc = "add" /\ n >= 0
        /\ job_lists' = [job_lists EXCEPT ![n] = job] /\ n' = n + 1
        /\ mpc' = IF cmd = "run_fg" THEN "test" ELSE "prompt"
        /\ UNCHANGED <<wait_child_flag, handler, child, bounds, dropped>>
    BY <1>3 DEF EvalAddJob
  <2>2. /\ forks \in 1..NumPids /\ Added = forks - 1 /\ Added' = forks
        /\ n \in 0..(forks - 1)
    BY <2>1, ShellAssumption DEF Steady, AddOK, TypeOK, TableOK, Added, bounds
  <2>3. e \in free
    <3>1. 0 <= n /\ n < NumPids
      BY <2>2, ShellAssumption
    <3> QED  BY <3>1, FreeEntry DEF Steady
  <2> HIDE DEF e
  <2>4. job.pid = forks /\ job.entry = e /\ job.status = status
    BY DEF Job
  <2> HIDE DEF job
  <2>5. Used' = Used \cup {n} /\ n \notin Used /\ Used' \subseteq Slots
    BY <2>1, <2>2, ShellAssumption DEF Used, Slots
  <2>6. \A k \in Slots : job_lists'[k] = IF k = n THEN job ELSE job_lists[k]
    BY <2>1 DEF Steady, TypeOK
  <2>7. \A k \in Used : job_lists'[k] = job_lists[k]
    BY <2>5, <2>6
  <2>8. job_lists'[n] = job
    BY <2>5, <2>6
  <2>9. Listed' = Listed \cup {forks}
    BY <2>4, <2>5, <2>7, <2>8 DEF Listed
  <2>10. \A k \in Used : job_lists[k].pid # forks /\ job_lists[k].entry # e
    <3>1. \A k \in Used : job_lists[k].pid \in Int /\ job_lists[k].pid <= forks - 1
      BY <2>2, <2>5, ShellAssumption DEF Steady, TypeOK, TableOK
    <3> QED  BY <2>2, <2>3, <3>1
  <2>11. Distinct'
    BY <1>0, <2>4, <2>5, <2>7, <2>8, <2>10 DEF Distinct
  <2>12. Tracked' = Tracked \cup {forks}
    <3>1. forks \notin dropped.INT /\ child[forks] # "reaped"
      BY <2>1, <2>2 DEF Steady, TableOK, AddOK
    <3>2. 1..forks = (1..(forks - 1)) \cup {forks}
      BY <2>2
    <3> QED  BY <2>1, <2>2, <3>1, <3>2, TrackedIs, TrackedIsNext DEF handler
  <2>13. TableMatchesChildren'
    BY <1>0, <2>9, <2>11, <2>12, MatchesIsNext
  <2>14. With("f") = {} /\ wait_child_flag
    BY <2>1 DEF Control, Foreground, Awaiting
  <2>15. With("f")' \subseteq {n} /\ (cmd # "run_fg" => With("f")' = {})
    BY <2>4, <2>5, <2>7, <2>8, <2>14 DEF With
  <2>16. Foreground'
    BY <2>1, <2>14, <2>15 DEF Foreground, Awaiting
  <2> QED  BY <2>13, <2>16 DEF Control
<1> QED  BY <1>1, <1>2, <1>3

\* bg and fg, as long as no job is killed.
LEMMA ControlCommands ==
    ASSUME Steady, Control, dropped.KILL = {}, dropped'.KILL = {},
           \/ \E name \in {"bg", "fg", "kill"}, n \in Int : Command(name, n)
           \/ Search \/ Signal \/ Mark \/ DeleteCall \/ DeleteSearch \/ DeleteShift
           \/ DeleteDone
    PROVE  Control'
<1> USE DEF At
<1>1. ASSUME (\E name \in {"bg", "fg", "kill"}, n \in Int : Command(name, n)) \/ Search
      PROVE  Control'
  <2>1. /\ UNCHANGED <<table, wait_child_flag, handler, child, forks, dropped>>
        /\ mpc \in {"prompt", "search"} /\ mpc' \in {"prompt", "search", "signal"}
    BY <1>1 DEF Command, Search, bounds
  <2>2. Added' = Added
    BY <2>1 DEF Added
  <2>3. Tracked' = Tracked
    BY <2>1, <2>2, TrackedIs, TrackedIsNext DEF handler
  <2> QED  BY <2>1, <2>3, ControlFrame DEF Awaiting
<1>2. ASSUME Signal PROVE Control'
  <2> DEFINE p == job_lists[idx].pid
  <2>1. /\ mpc = "signal" /\ mpc' = "mark"
        /\ UNCHANGED <<table, wait_child_flag, handler, bounds>>
        /\ \/ UNCHANGED <<child, pending>>
           \/ \E sig \in {"KILL", "CONT"} : Kill(p, sig, {})
        /\ dropped' = IF cmd = "kill" THEN [dropped EXCEPT !.KILL = @ \cup {p}]
                      ELSE dropped
    BY <1>2 DEF Signal
  <2>2. p \in Pids
    BY <2>1, ShellAssumption DEF Steady, TableOK, TypeOK, Pids
  <2> HIDE DEF p
  <2>3. dropped' = dropped
    BY <2>1 DEF Steady, TypeOK
  <2>4. \A q \in Pids : child'[q] = "reaped" <=> child[q] = "reaped"
    BY <2>1, <2>2, KillChild DEF Steady
  <2>5. Added' = Added /\ 1..Added \subseteq Pids
    BY <2>1, ShellAssumption DEF Added, bounds, Steady, TypeOK, Pids
  <2>6. Tracked' = Tracked
    BY <2>1, <2>3, <2>4, <2>5, TrackedIs, TrackedIsNext DEF handler
  <2> QED  BY <2>1, <2>6, ControlFrame DEF Awaiting
<1>3. ASSUME Mark PROVE Control'
  <2>1. PICK st \in {"b", "f"} :
            /\ job_lists' = [job_lists EXCEPT ![idx].status = st]
            /\ st = "f" <=> mpc' = "test"
    BY <1>3 DEF Mark
  <2>2. /\ mpc = "mark" /\ mpc' \in {"prompt", "test"}
        /\ UNCHANGED <<job_lists_size, wait_child_flag, handler, child, bounds, dropped>>
    BY <1>3 DEF Mark
  <2>3. idx \in Slots
    BY <2>2 DEF Steady, TableOK
  <2>4. Added' = Added
    BY <2>2 DEF Added, bounds
  <2>5. Tracked' = Tracked
    BY <2>2, <2>4, TrackedIs, TrackedIsNext DEF handler
  <2>6. Listed = Tracked /\ Distinct
    BY MatchesIs DEF Control
  <2>7. /\ Listed' = Listed /\ Distinct'
        /\ With("f")' \subseteq With("f") \cup {idx}
        /\ st # "f" => idx \notin With("f")'
    <3>1. TypeOK /\ job_lists_size' = job_lists_size
      BY <2>2 DEF Steady
    <3>2. job_lists' = [job_lists EXCEPT ![idx].status = st]
      BY <2>1
    <3> QED  BY <2>3, <2>6, <3>1, <3>2, StatusWritten
  <2>8. With("f") = {} /\ wait_child_flag
    BY <2>2 DEF Control, Foreground, Awaiting
  <2>9. With("f")' \subseteq {idx} /\ (st # "f" => With("f")' = {})
    BY <2>7, <2>8
  <2>10. mpc' # "test" => With("f")' = {}
    <3>1. mpc' # "test" => st # "f"
      BY <2>1
    <3> QED  BY <2>9, <3>1
  <2>11. \A k, l \in With("f")' : k = l
    BY <2>9
  <2>12. wait_child_flag'
    BY <2>2, <2>8
  <2>13. Foreground'
    BY <2>10, <2>11, <2>12 DEF Foreground, Awaiting
  <2> QED  BY <2>5, <2>6, <2>7, <2>13, MatchesIsNext DEF Control
<1>4. ~(DeleteCall \/ DeleteSearch \/ DeleteShift \/ DeleteDone)
  BY DEF DeleteCall, DeleteSearch, DeleteShift, DeleteDone, Steady, KillOK
<1> QED  BY <1>1, <1>2, <1>3, <1>4

\* The children and the keyboard.
LEMMA ControlWorld ==
    ASSUME Steady, Control, dropped.KILL = {},
           \/ \E p \in Pids : Child(p)
           \/ \E sig \in {"INT", "TSTP"} : Key(sig)
           \/ UNCHANGED vars
    PROVE  Control'
<1>1. /\ UNCHANGED <<table, wait_child_flag, loop, handler, forks, dropped>>
      /\ \A q \in Pids : child'[q] = "reaped" <=> child[q] = "reaped"
  <2>1. ASSUME NEW p \in Pids, Child(p)
        PROVE  /\ UNCHANGED <<table, wait_child_flag, loop, handler, forks, dropped>>
               /\ \A q \in Pids : child'[q] = "reaped" <=> child[q] = "reaped"
    <3>1. PICK to \in {"grouped", "running", "zombie"} :
              child' = [child EXCEPT ![p] = to]
      BY <2>1 DEF Child, SetPgid, Exec, Exit, Becomes
    <3>2. /\ child[p] \in {"born", "grouped", "running"}
          /\ UNCHANGED <<table, wait_child_flag, loop, handler, bounds, dropped>>
      BY <2>1 DEF Child, SetPgid, Exec, Exit, Becomes
    <3> QED  BY <3>1, <3>2 DEF Steady, TypeOK, bounds
  <2> QED  BY <2>1 DEF Key, vars, bounds
<1>2. Added' = Added /\ 1..Added \subseteq Pids
  BY <1>1, ShellAssumption DEF Added, loop, Steady, TypeOK, Pids
<1>3. Tracked' = Tracked
  BY <1>1, <1>2, TrackedIs, TrackedIsNext DEF handler
<1> QED  BY <1>1, <1>3, ControlFrame DEF Awaiting, loop

-----------------------------------------------------------------------------
(* The theorems. *)

ShellInv == Steady /\ NoZombieForgotten /\ Control

LEMMA ShellInit == Init => ShellInv
<1> SUFFICES ASSUME Init PROVE ShellInv
  OBVIOUS
<1>1. Steady
  BY SteadyInit
<1>2. Used = {}
  BY DEF Init, Used
<1>3. TableMatchesChildren
  BY <1>2 DEF Init, TableMatchesChildren, Tracked
<1>4. Foreground
  BY <1>2 DEF Init, Foreground, With
<1>5. NoZombieForgotten
  BY DEF Init, NoZombieForgotten
<1> QED  BY <1>1, <1>3, <1>4, <1>5 DEF ShellInv, Control

LEMMA ShellNext == ShellInv /\ [Next]_vars => ShellInv'
<1> SUFFICES ASSUME ShellInv, [Next]_vars PROVE ShellInv'
  OBVIOUS
<1>1. Steady' /\ NoZombieForgotten'
  BY SteadyNext, ZombieNext DEF ShellInv
<1>2. ASSUME dropped'.KILL = {} PROVE Control'
  <2>1. dropped.KILL = {}
    <3>1. dropped.KILL \subseteq dropped'.KILL
      <4>1. CASE SigInt
        BY <4>1 DEF SigInt, ShellInv, Steady, TypeOK
      <4>2. CASE Signal
        BY <4>2 DEF Signal, ShellInv, Steady, TypeOK
      <4>3. CASE ~SigInt /\ ~Signal
        <5>1. UNCHANGED dropped
          BY <4>3 DEF Next, Chld, ChldStart, ChldReap, ChldUpdate, ChldReturn, SigTstp,
             Loop, EvalAddJob, AddBelowTable, WaitTest, WaitSuspend, WaitReset, Search, Mark,
             DeleteCall, DeleteSearch, DeleteShift, DeleteDone, User, EvalFork, BgCommand, FgCommand,
             KillCommand, Command, Key, Child, SetPgid, Exec, Exit, Becomes, vars
        <5> QED  BY <5>1
      <4> QED  BY <4>1, <4>2, <4>3
    <3> QED  BY <1>2, <3>1
  <2>2. ASSUME NEW n \in 0..NumPids, BgCommand(n) \/ FgCommand(n) \/ KillCommand(n)
        PROVE  Control'
    BY <1>2, <2>1, <2>2, CommandIs, ControlCommands DEF ShellInv
  <2>3. CASE Chld \/ SigTstp \/ SigInt
    BY <2>1, <2>3, ControlChld, ControlKeys DEF ShellInv
  <2>4. CASE Loop
    <3>1. ~AddBelowTable
      BY <2>1 DEF AddBelowTable, ShellInv, Steady, KillOK, TypeOK
    <3> QED  BY <1>2, <2>1, <2>4, <3>1, ControlEval, ControlCommands DEF ShellInv, Loop
  <2>5. CASE User
    BY <2>1, <2>2, <2>5, ControlEval, ControlWorld DEF ShellInv, User
  <2>6. CASE (\E p \in Pids : Child(p)) \/ UNCHANGED vars
    BY <2>1, <2>6, ControlWorld DEF ShellInv
  <2> QED  BY <2>3, <2>4, <2>5, <2>6 DEF Next
<1>3. ASSUME dropped'.KILL # {} PROVE Control'
  <2>1. TableMatchesChildren' /\ Foreground'
    BY <1>3 DEF TableMatchesChildren, Foreground
  <2> QED  BY <2>1 DEF Control
<1> QED  BY <1>1, <1>2, <1>3 DEF ShellInv

\* In every reachable state all parts of the invariant hold.
THEOREM ShellInvariant == Spec => []ShellInv
  BY ShellInit, ShellNext, PTL DEF Spec

\* The indices, pids and entries stay in their ranges, whatever the handlers and the
\* unprotected deletejob of kill do to the table.  The size may be -1, and is at most the
\* number of children ever forked (so a table of MAXJOBS slots holds fewer children).
THEOREM TypesCorrect == Spec => []TypeOK
<1>1. ShellInv => TypeOK
  BY DEF ShellInv, Steady
<1> QED  BY <1>1, ShellInvariant, PTL

\* The size is negative only after a kill.
THEOREM SizeIsNatural == Spec => [](job_lists_size < 0 => dropped.KILL # {})
<1>1. ShellInv => (job_lists_size < 0 => dropped.KILL # {})
  BY DEF ShellInv, Steady, KillOK, TypeOK
<1> QED  BY <1>1, ShellInvariant, PTL

\* sig_chld_handler loops until waitpid finds no zombie, and a child that ends later sends
\* SIGCHLD again: no zombie is forgotten, whatever kill does to the table.
THEOREM NoZombieIsForgotten == Spec => []NoZombieForgotten
<1>1. ShellInv => NoZombieForgotten
  BY DEF ShellInv
<1> QED  BY <1>1, ShellInvariant, PTL

\* Fork and addjob with SIGCHLD blocked, and deletejob in the handlers, keep the table
\* equal to the children there are, until kill runs deletejob with nothing blocked.
THEOREM TableMatchesTheChildren == Spec => []TableMatchesChildren
<1>1. ShellInv => TableMatchesChildren
  BY DEF ShellInv, Control
<1> QED  BY <1>1, ShellInvariant, PTL

\* The sigsuspend loop of eval and of fg: the shell waits exactly while there is a job in
\* the foreground, and there is never a second one.
THEOREM TheForegroundIsAwaited == Spec => []ForegroundIsAwaited
<1>1. ShellInv => ForegroundIsAwaited
  <2> SUFFICES ASSUME ShellInv, dropped.KILL = {}, With("f") # {}
               PROVE  Cardinality(With("f")) = 1 /\ wait_child_flag /\ Awaiting
    BY DEF ForegroundIsAwaited, Awaiting
  <2>1. Awaiting /\ wait_child_flag /\ \A i, j \in With("f") : i = j
    BY DEF ShellInv, Control, Foreground
  <2>2. PICK i : With("f") = {i}
    BY <2>1
  <2>3. Cardinality({i}) = 1
    BY FS_Singleton
  <2> QED  BY <2>1, <2>2, <2>3
<1> QED  BY <1>1, ShellInvariant, PTL

=============================================================================
