-------------------------- MODULE BasicShellProofs --------------------------
(***************************************************************************)
(* The loops of the three shells, for any lines, any number of them and    *)
(* any pipes: a prompt means that the foreground has been waited for.      *)
(***************************************************************************)
EXTENDS BasicShell, Counts

-----------------------------------------------------------------------------
(* The inductive invariant. *)

IsProc(p) == p = [at |-> p.at, args |-> p.args, in |-> p.in, out |-> p.out,
                  raw |-> p.raw, sent |-> p.sent]

Waiting == {"wait", "suspend", "suspended"}
Places == Waiting \cup {"prompt", "crashed", "exited"}

Table ==
    /\ phase \in 1..3 /\ typed \in 0..MaxLines
    /\ pc \in Places /\ wait_child_flag \in BOOLEAN
    /\ bg = [j \in Jobs |-> bg[j]]
    /\ lead = [j \in Jobs |-> lead[j]] /\ \A j \in Jobs : IsProc(lead[j])

\* Jobs are begun in the order they are typed.
Begun == \A j \in Jobs : j > typed => lead[j].at = "none"

\* Phase 3: whoever is left in the foreground is the last job, which eval awaits
\* and for which the flag is still set.
LastAwaited ==
    pc \in Waiting \cup {"prompt"} =>
      /\ \A j \in Left : bg[j] \/ (pc \in Waiting /\ j = typed /\ wait_child_flag)
      /\ pc = "prompt" => wait_child_flag

\* Phases 1 and 2: one wait for each foreground job.
OneWaitEach ==
    /\ pc \notin {"suspend", "suspended"}
    /\ pc \in {"prompt", "wait"} =>
         Cardinality(Left) = Cardinality(Behind) + (IF pc = "wait" THEN 1 ELSE 0)

WaitInv ==
    /\ Table /\ Begun
    /\ IF phase = 3 THEN LastAwaited ELSE OneWaitEach

LEMMA JobsFinite ==
    /\ MaxLines \in Nat /\ IsFiniteSet(Left) /\ IsFiniteSet(Behind) /\ Jobs \subseteq Int
<1>1. MaxLines \in Nat
  BY BasicShellAssumption
<1>2. IsFiniteSet(Jobs)
  BY <1>1, FS_Interval DEF Jobs
<1>3. IsFiniteSet(Left) /\ IsFiniteSet(Behind)
  BY <1>2, FS_Subset DEF Left, Behind
<1> QED  BY <1>1, <1>3 DEF Jobs

LEMMA InitWaitInv == Init => WaitInv
<1> SUFFICES ASSUME Init PROVE WaitInv
  OBVIOUS
<1>1. phase \in 1..3 /\ pc = "prompt" /\ wait_child_flag /\ typed = 0 /\ MaxLines \in Nat
      /\ wait_child_flag \in BOOLEAN
      /\ lead = [j \in Jobs |-> NoProc] /\ bg = [j \in Jobs |-> FALSE]
  BY BasicShellAssumption DEF Init
<1>2. NoProc.at = "none" /\ IsProc(NoProc)
  BY DEF NoProc, Proc, IsProc
<1>3. Table /\ Begun
  BY <1>1, <1>2 DEF Table, Begun, Places
<1>4. Left = {} /\ Behind = {}
  BY <1>1, <1>2 DEF Left, Behind
<1>5. LastAwaited /\ OneWaitEach
  <2>1. Cardinality({}) = 0
    BY FS_EmptySet
  <2> QED  BY <1>1, <1>4, <2>1 DEF LastAwaited, OneWaitEach
<1> QED  BY <1>3, <1>5 DEF WaitInv

-----------------------------------------------------------------------------
(* The processes of a job leave the loop and its table alone. *)

\* A process that runs still does, or has ended.
Lives(p) == IsProc(p) /\ p.at \notin {"none", "reaped"}

\* What the steps of job j make of its leader.
Leads(j) ==
    \/ lead' = lead
    \/ Lives(lead[j]) /\ \E p : Lives(p) /\ lead' = [lead EXCEPT ![j] = p]

LEMMA LeadsKeeps ==
    ASSUME WaitInv, NEW j \in Jobs, Leads(j), UNCHANGED Shell
    PROVE  WaitInv'
<1>1. CASE lead' = lead
  BY <1>1 DEF WaitInv, Table, Begun, LastAwaited, OneWaitEach, Left, Behind, IsProc, Shell
<1>2. CASE Lives(lead[j]) /\ \E p : Lives(p) /\ lead' = [lead EXCEPT ![j] = p]
  <2>1. PICK p : Lives(p) /\ lead' = [lead EXCEPT ![j] = p]
    BY <1>2
  <2>2. lead = [k \in Jobs |-> lead[k]] /\ \A k \in Jobs : IsProc(lead[k])
    BY DEF WaitInv, Table
  <2>3. /\ lead' = [k \in Jobs |-> lead'[k]] /\ lead'[j] = p
        /\ \A k \in Jobs : k # j => lead'[k] = lead[k]
    BY <2>1, <2>2
  <2>4. \A k \in Jobs : IsProc(lead'[k])
    BY <2>1, <2>2, <2>3 DEF Lives
  <2>5. Table'
    BY <2>3, <2>4 DEF WaitInv, Table, IsProc, Shell
  <2>6. \A k \in Jobs : /\ lead'[k].at = "none" <=> lead[k].at = "none"
                        /\ lead'[k].at \in {"none", "reaped"} <=> lead[k].at \in {"none", "reaped"}
    BY <1>2, <2>1, <2>3 DEF Lives
  <2>7. Left' = Left /\ Behind' = Behind
    BY <2>6 DEF Left, Behind, Shell
  <2>8. Begun'
    BY <2>6 DEF WaitInv, Begun, Shell
  <2> QED  BY <2>5, <2>7, <2>8 DEF WaitInv, LastAwaited, OneWaitEach, Shell
<1> QED  BY <1>1, <1>2 DEF Leads

LEMMA ExecLives ==
    ASSUME NEW p, IsProc(p), NEW args
    PROVE  Lives(Exec(p, args))
<1> DEFINE a == IF args # <<>> /\ args[1] \in Writers \cup {<<"f">>, <<"h">>}
                THEN "run" ELSE "zombie"
<1>1. a \in {"run", "zombie"}
  OBVIOUS
<1>2. Exec(p, args) = [p EXCEPT !.args = args, !.at = a]
  BY DEF Exec
<1> HIDE DEF a
<1>3. Exec(p, args) = [at |-> a, args |-> args, in |-> p.in, out |-> p.out,
                       raw |-> p.raw, sent |-> p.sent]
  BY <1>2 DEF IsProc
<1> QED  BY <1>1, <1>3 DEF Lives, IsProc

\* A process with another place, and with one or two other fields, is one.
LEMMA ProcWith ==
    ASSUME NEW p, IsProc(p), NEW at, at \notin {"none", "reaped"}, NEW x, NEW y
    PROVE  /\ Lives([p EXCEPT !.args = x, !.at = at])
           /\ Lives([p EXCEPT !.at = at, !.args = x])
           /\ Lives([p EXCEPT !.raw = x, !.at = at])
           /\ Lives([p EXCEPT !.in = x, !.raw = y, !.at = at])
           /\ Lives([p EXCEPT !.sent = x, !.at = at])
<1>1. PICK b, a, i, o, r, s :
        p = [at |-> b, args |-> a, in |-> i, out |-> o, raw |-> r, sent |-> s]
  BY DEF IsProc
<1>2. ASSUME NEW q, NEW c, NEW d, NEW e, NEW f, NEW g,
             q = [at |-> at, args |-> c, in |-> d, out |-> e, raw |-> f, sent |-> g]
      PROVE  Lives(q)
  BY <1>2 DEF Lives, IsProc
<1>3. ASSUME NEW q, q = [p EXCEPT !.args = x, !.at = at] PROVE Lives(q)
  <2>1. q = [at |-> at, args |-> x, in |-> i, out |-> o, raw |-> r, sent |-> s]
    BY ONLY <1>1, <1>3
  <2> QED  BY ONLY <1>2, <2>1
<1>4. ASSUME NEW q, q = [p EXCEPT !.at = at, !.args = x] PROVE Lives(q)
  <2>1. q = [at |-> at, args |-> x, in |-> i, out |-> o, raw |-> r, sent |-> s]
    BY ONLY <1>1, <1>4
  <2> QED  BY ONLY <1>2, <2>1
<1>5. ASSUME NEW q, q = [p EXCEPT !.raw = x, !.at = at] PROVE Lives(q)
  <2>1. q = [at |-> at, args |-> a, in |-> i, out |-> o, raw |-> x, sent |-> s]
    BY ONLY <1>1, <1>5
  <2> QED  BY ONLY <1>2, <2>1
<1>6. ASSUME NEW q, q = [p EXCEPT !.in = x, !.raw = y, !.at = at] PROVE Lives(q)
  <2>1. q = [at |-> at, args |-> a, in |-> x, out |-> o, raw |-> y, sent |-> s]
    BY ONLY <1>1, <1>6
  <2> QED  BY ONLY <1>2, <2>1
<1>7. ASSUME NEW q, q = [p EXCEPT !.sent = x, !.at = at] PROVE Lives(q)
  <2>1. q = [at |-> at, args |-> a, in |-> i, out |-> o, raw |-> r, sent |-> x]
    BY ONLY <1>1, <1>7
  <2> QED  BY ONLY <1>2, <2>1
<1> QED  BY <1>3, <1>4, <1>5, <1>6, <1>7

LEMMA StartLeads ==
    ASSUME WaitInv, NEW j \in Jobs, Start(j)
    PROVE  Leads(j) /\ UNCHANGED Shell
<1>1. lead = [k \in Jobs |-> lead[k]] /\ IsProc(lead[j]) /\ lead[j].at = "forked"
  BY DEF WaitInv, Table, Start
<1>2. Lives(lead[j])
  BY <1>1 DEF Lives
<1>3. CASE Piped(j)
  <2>1. PICK pp, first : lead' = [lead EXCEPT ![j].args = first.args,
                                     ![j].at = IF first.crash THEN "zombie" ELSE "stage"]
    BY <1>3 DEF Start
  <2> DEFINE a == IF first.crash THEN "zombie" ELSE "stage"
             p == [lead[j] EXCEPT !.args = first.args, !.at = a]
  <2>2. a \in {"zombie", "stage"}
    OBVIOUS
  <2>3. lead' = [lead EXCEPT ![j] = p]
    BY <1>1, <2>1
  <2> HIDE DEF a
  <2>4. Lives(p)
    BY <1>1, <2>2, ProcWith
  <2> QED  BY <1>2, <2>3, <2>4 DEF Leads, Start
<1>4. CASE ~Piped(j)
  <2>1. lead' = [lead EXCEPT ![j] = Exec(lead[j], lead[j].args)]
    BY <1>1, <1>4 DEF Start
  <2> QED  BY <1>1, <1>2, <2>1, ExecLives DEF Leads, Start
<1> QED  BY <1>3, <1>4

LEMMA StageLeads ==
    ASSUME WaitInv, NEW j \in Jobs, Stage(j)
    PROVE  Leads(j) /\ UNCHANGED Shell
<1> DEFINE n == Len(pipes[j]) + 1  ends == {<<n, "r">>, <<n, "w">>}
           p == [lead[j] EXCEPT !.raw = ends, !.at = "redirect"]
<1>1. lead = [k \in Jobs |-> lead[k]] /\ IsProc(lead[j]) /\ lead[j].at = "stage"
  BY DEF WaitInv, Table, Stage
<1>2. lead' = [lead EXCEPT ![j].raw = ends, ![j].at = "redirect"]
  BY DEF Stage
<1> HIDE DEF ends
<1>3. lead' = [lead EXCEPT ![j] = p]
  BY <1>1, <1>2
<1>4. Lives(p) /\ Lives(lead[j])
  BY <1>1, ProcWith DEF Lives
<1> QED  BY <1>3, <1>4 DEF Leads, Stage

LEMMA RedirectLeads ==
    ASSUME WaitInv, NEW j \in Jobs, Redirect(j)
    PROVE  Leads(j) /\ UNCHANGED Shell
<1>1. lead = [k \in Jobs |-> lead[k]] /\ IsProc(lead[j]) /\ lead[j].at = "redirect"
  BY DEF WaitInv, Table, Redirect
<1>2. PICK pp, first :
        lead' = [lead EXCEPT ![j].in = Len(pipes[j]), ![j].raw = {},
                   ![j].at = IF Rest(j).crash \/ first.crash THEN "zombie" ELSE "wait"]
  BY DEF Redirect
<1> DEFINE a == IF Rest(j).crash \/ first.crash THEN "zombie" ELSE "wait"
           n == Len(pipes[j])
           p == [lead[j] EXCEPT !.in = n, !.raw = {}, !.at = a]
<1>3. a \in {"zombie", "wait"}
  OBVIOUS
<1> HIDE DEF n
<1>4. lead' = [lead EXCEPT ![j] = p]
  BY <1>1, <1>2 DEF n
<1> HIDE DEF a
<1>5. Lives(p) /\ Lives(lead[j])
  BY <1>1, <1>3, ProcWith DEF Lives
<1> QED  BY <1>4, <1>5 DEF Leads, Redirect

LEMMA ProceedLeads ==
    ASSUME WaitInv, NEW j \in Jobs, lead[j].at = "wait", Proceed(j)
    PROVE  Leads(j)
<1>1. lead = [k \in Jobs |-> lead[k]] /\ IsProc(lead[j])
  BY DEF WaitInv, Table
<1>2. Lives(lead[j])
  BY <1>1 DEF Lives
<1>3. PICK rest :
        \/ lead' = [lead EXCEPT ![j] = Exec(@, rest.args)]
        \/ \E first : lead' = [lead EXCEPT ![j].at = "stage", ![j].args = first.args]
  <2>1. CASE "|" \notin Range(after[j])
    BY <2>1 DEF Proceed
  <2>2. CASE "|" \in Range(after[j])
    BY <2>2 DEF Proceed
  <2> QED  BY <2>1, <2>2
<1>4. CASE lead' = [lead EXCEPT ![j] = Exec(@, rest.args)]
  <2>1. lead' = [lead EXCEPT ![j] = Exec(lead[j], rest.args)]
    BY <1>1, <1>4
  <2> QED  BY <1>1, <1>2, <2>1, ExecLives DEF Leads
<1>5. ASSUME NEW first, lead' = [lead EXCEPT ![j].at = "stage", ![j].args = first.args]
      PROVE  Leads(j)
  <2> DEFINE p == [lead[j] EXCEPT !.at = "stage", !.args = first.args]
  <2>1. lead' = [lead EXCEPT ![j] = p]
    BY <1>1, <1>5
  <2>2. Lives(p)
    BY <1>1, ProcWith
  <2> QED  BY <1>2, <2>1, <2>2 DEF Leads
<1> QED  BY <1>3, <1>4, <1>5

LEMMA LeadWorksLeads ==
    ASSUME WaitInv, NEW j \in Jobs, LeadWorks(j)
    PROVE  Leads(j) /\ UNCHANGED Shell
<1>1. lead = [k \in Jobs |-> lead[k]] /\ IsProc(lead[j])
  BY DEF WaitInv, Table
<1>2. PICK s \in 0..(lead[j].sent + 1), a \in {"run", "zombie"} :
        LET next == [lead[j] EXCEPT !.sent = s, !.at = a] IN
        Works(j, lead[j], next) /\ lead' = [lead EXCEPT ![j] = next] /\ UNCHANGED Shell
  BY DEF LeadWorks
<1> DEFINE next == [lead[j] EXCEPT !.sent = s, !.at = a]
<1>3. Lives(next)
  BY <1>1, ProcWith
<1>4. lead[j].at = "run"
  BY <1>2 DEF Works
<1>5. Lives(lead[j])
  BY <1>1, <1>4 DEF Lives
<1> QED  BY <1>2, <1>3, <1>5 DEF Leads

LEMMA JobKeeps ==
    ASSUME WaitInv, NEW j \in Jobs, Leader(j) \/ KidWorks(j)
    PROVE  WaitInv'
<1>1. CASE Start(j)
  BY <1>1, StartLeads, LeadsKeeps
<1>2. CASE Stage(j)
  BY <1>2, StageLeads, LeadsKeeps
<1>3. CASE KidExec(j) \/ KidHandler3(j) \/ KidWorks(j)
  <2>1. CASE KidExec(j) \/ KidHandler3(j)
    BY <2>1, LeadsKeeps DEF KidExec, KidHandler3, Leads
  <2>2. CASE KidWorks(j)
    BY <2>2, LeadsKeeps DEF KidWorks, Leads
  <2> QED  BY <1>3, <2>1, <2>2
<1>4. CASE Redirect(j)
  BY <1>4, RedirectLeads, LeadsKeeps
<1>5. CASE WaitKid2(j) \/ WaitKid3(j)
  <2>1. lead[j].at = "wait" /\ Proceed(j) /\ UNCHANGED Shell
    BY <1>5 DEF WaitKid2, WaitKid3
  <2> QED  BY <2>1, ProceedLeads, LeadsKeeps
<1>6. CASE LeadWorks(j)
  BY <1>6, LeadWorksLeads, LeadsKeeps
<1> QED  BY <1>1, <1>2, <1>3, <1>4, <1>5, <1>6
           DEF Leader, PipeExecution2, PipeExecution3

-----------------------------------------------------------------------------
(* The loop. *)

\* A line that is no job.
LEMMA NoJobKeeps ==
    ASSUME WaitInv, EvalCrash \/ EvalNothing \/ EvalBuiltin
    PROVE  WaitInv'
<1>1. /\ pc = "prompt" /\ typed < MaxLines /\ typed' = typed + 1
      /\ UNCHANGED <<phase, wait_child_flag, jobs>>
      /\ pc' \in {"prompt", "crashed", "exited"}
  <2>1. CASE EvalCrash
    BY <2>1 DEF EvalCrash, Typed
  <2>2. CASE EvalNothing
    BY <2>2 DEF EvalNothing, Typed, WaitInv, Table
  <2>3. CASE EvalBuiltin
    <3>1. PICK l : LET p == Parseline(phase, l \o <<" ">>) IN
             /\ Typed(l, p)
             /\ \/ Head(p.args) = <<"x">> /\ pc' = "exited" /\ UNCHANGED cwd
                \/ UNCHANGED pc
      BY <2>3 DEF EvalBuiltin
    <3> QED  BY <2>3, <3>1 DEF EvalBuiltin, Typed
  <2> QED  BY <2>1, <2>2, <2>3
<1>2. lead' = lead /\ bg' = bg
  BY <1>1 DEF jobs
<1>3. MaxLines \in Nat /\ Jobs \subseteq Int
  BY JobsFinite
<1>4. Table' /\ Begun'
  BY <1>1, <1>2, <1>3 DEF WaitInv, Table, Begun, IsProc, Places
<1>5. Left' = Left /\ Behind' = Behind
  BY <1>2 DEF Left, Behind
<1>6. phase = 3 => LastAwaited'
  BY <1>1, <1>2, <1>5 DEF WaitInv, LastAwaited, Waiting
<1>7. phase # 3 => OneWaitEach'
  BY <1>1, <1>5 DEF WaitInv, OneWaitEach
<1> QED  BY <1>1, <1>4, <1>6, <1>7 DEF WaitInv

\* A job is begun: it is left, and awaited or behind.
LEMMA EvalKeeps ==
    ASSUME WaitInv, Eval
    PROVE  WaitInv'
<1> DEFINE j == typed + 1
<1>1. PICK p, l :
        /\ pc = "prompt" /\ typed < MaxLines /\ typed' = j
        /\ bg' = [bg EXCEPT ![j] = p.bg]
        /\ lead' = [lead EXCEPT ![j] = Proc("forked", p.args, 0, {})]
        /\ pc' = (IF p.bg THEN "prompt" ELSE "wait")
        /\ UNCHANGED <<phase, wait_child_flag>>
  BY DEF Eval, Typed
<1>2. /\ MaxLines \in Nat /\ IsFiniteSet(Left) /\ IsFiniteSet(Behind) /\ Jobs \subseteq Int
      /\ typed \in Nat /\ j \in Jobs
  BY <1>1, JobsFinite DEF WaitInv, Table, Jobs
<1>3. /\ bg = [k \in Jobs |-> bg[k]]
      /\ lead = [k \in Jobs |-> lead[k]] /\ \A k \in Jobs : IsProc(lead[k])
  BY DEF WaitInv, Table
<1>4. lead[j].at = "none" /\ j > typed
  BY <1>2 DEF WaitInv, Begun
<1> DEFINE f == Proc("forked", p.args, 0, {})
<1>5. f.at = "forked" /\ IsProc(f)
  BY DEF Proc, IsProc
<1> HIDE DEF f, j
<1>6. /\ lead' = [k \in Jobs |-> lead'[k]] /\ lead'[j] = f
      /\ \A k \in Jobs : k # j => lead'[k] = lead[k]
  BY <1>1, <1>2, <1>3 DEF f
<1>7. /\ bg' = [k \in Jobs |-> bg'[k]] /\ bg'[j] = p.bg
      /\ \A k \in Jobs : k # j => bg'[k] = bg[k]
  BY <1>1, <1>2, <1>3
<1>8. \A k \in Jobs : IsProc(lead'[k])
  BY <1>3, <1>5, <1>6
<1>9. Table'
  <2>1. typed' \in 0..MaxLines
    BY <1>1, <1>2 DEF Jobs
  <2>2. pc' \in Places
    BY <1>1 DEF Places, Waiting
  <2>3. phase' \in 1..3 /\ wait_child_flag' \in BOOLEAN
    BY <1>1 DEF WaitInv, Table
  <2> QED  BY <1>6, <1>7, <1>8, <2>1, <2>2, <2>3 DEF Table, IsProc
<1>10. Begun'
  <2>1. j = typed + 1
    BY DEF j
  <2> SUFFICES ASSUME NEW k \in Jobs, k > j PROVE lead'[k].at = "none"
    BY <1>1 DEF Begun
  <2>2. k > typed /\ k # j
    BY <1>2, <2>1
  <2> QED  BY <1>6, <2>2 DEF WaitInv, Begun
<1>11. Left' = Left \cup {j} /\ j \notin Left
  BY <1>2, <1>4, <1>5, <1>6 DEF Left
<1>12. Behind' \ {j} = Behind \ {j} /\ j \notin Behind /\ (j \in Behind' <=> p.bg)
  BY <1>2, <1>4, <1>5, <1>6, <1>7 DEF Behind
<1>13. CASE phase = 3
  <2>1. \A k \in Left : bg[k] /\ k # j /\ k \in Jobs
    BY <1>1, <1>11, <1>13 DEF WaitInv, LastAwaited, Left, Waiting
  <2>2. wait_child_flag' /\ (pc' # "prompt" => pc' \in Waiting)
    BY <1>1, <1>13 DEF WaitInv, LastAwaited, Waiting
  <2>3. \A k \in Left' : bg'[k] \/ (pc' \in Waiting /\ k = typed')
    BY <1>1, <1>7, <1>11, <2>1, <2>2
  <2> QED  BY <1>1, <1>9, <1>10, <1>13, <2>2, <2>3 DEF WaitInv, LastAwaited
<1>14. CASE phase # 3
  <2>1. /\ Cardinality(Left) \in Nat /\ Cardinality(Left') = Cardinality(Left) + 1
        /\ Cardinality(Behind) \in Nat
        /\ Cardinality(Behind') = Cardinality(Behind) + (IF p.bg THEN 1 ELSE 0)
    <3>1. /\ Cardinality(Left) \in Nat /\ Cardinality(Left') = Cardinality(Left) + 1
      BY <1>2, <1>11, FS_AddElement, FS_CardinalityType
    <3>2. /\ Cardinality(Behind) \in Nat
          /\ Cardinality(Behind') = Cardinality(Behind) + (IF p.bg THEN 1 ELSE 0)
      BY <1>2, <1>12, CountStep
    <3> QED  BY <3>1, <3>2
  <2>2. Cardinality(Left) = Cardinality(Behind)
    <3>1. pc = "prompt" /\ OneWaitEach
      BY <1>1, <1>14 DEF WaitInv
    <3> QED  BY <2>1, <3>1 DEF OneWaitEach
  <2>3. OneWaitEach'
    BY <1>1, <2>1, <2>2 DEF OneWaitEach
  <2> QED  BY <1>1, <1>9, <1>10, <1>14, <2>3 DEF WaitInv
<1> QED  BY <1>13, <1>14

\* Children are reaped.
LEMMA ReapIs ==
    ASSUME WaitInv, NEW js \in SUBSET Zombies, Reap(js), pc' \in Places,
           wait_child_flag' \in BOOLEAN
    PROVE  /\ Table' /\ Begun' /\ Left' = Left \ js /\ js \subseteq Left
           /\ Behind' = Behind /\ bg' = bg /\ typed' = typed /\ phase' = phase
<1>1. /\ lead = [k \in Jobs |-> lead[k]] /\ \A k \in Jobs : IsProc(lead[k])
      /\ js \subseteq Jobs /\ \A k \in js : lead[k].at = "zombie"
  BY DEF WaitInv, Table, Zombies
<1>2. lead' = [k \in Jobs |-> IF k \in js THEN [lead[k] EXCEPT !.at = "reaped"] ELSE lead[k]]
  BY DEF Reap
<1>3. ASSUME NEW k \in Jobs
      PROVE  /\ IsProc(lead'[k])
             /\ k \in js => lead'[k].at = "reaped"
             /\ k \notin js => lead'[k] = lead[k]
  <2> DEFINE p == [lead[k] EXCEPT !.at = "reaped"]
  <2>1. p.at = "reaped" /\ IsProc(p)
    BY <1>1 DEF IsProc
  <2> HIDE DEF p
  <2>2. lead'[k] = IF k \in js THEN p ELSE lead[k]
    BY <1>2 DEF p
  <2> QED  BY <1>1, <2>1, <2>2
<1>4. lead' = [k \in Jobs |-> lead'[k]]
  BY <1>2
<1>5. bg' = bg /\ typed' = typed /\ phase' = phase
  BY DEF Reap
<1>6. Table'
  BY <1>3, <1>4, <1>5 DEF WaitInv, Table
<1>7. Begun'
  BY <1>1, <1>3, <1>5 DEF WaitInv, Begun
<1>8. Left' = Left \ js /\ js \subseteq Left
  BY <1>1, <1>3 DEF Left
<1>9. Behind' = Behind
  BY <1>1, <1>3, <1>5 DEF Behind
<1> QED  BY <1>5, <1>6, <1>7, <1>8, <1>9

\* A wait for any child takes one.
LEMMA AnyChildKeeps ==
    ASSUME WaitInv, Wait1 \/ Wait2
    PROVE  WaitInv'
<1>1. PICK j \in Zombies : Reap({j})
  BY DEF Wait1, Wait2
<1>2. phase # 3 /\ pc = "wait" /\ pc' = "prompt" /\ wait_child_flag' = wait_child_flag
  BY DEF Wait1, Wait2
<1>3. /\ Table' /\ Begun' /\ Left' = Left \ {j} /\ j \in Left
      /\ Behind' = Behind /\ phase' = phase
  <2>1. pc' \in Places /\ wait_child_flag' \in BOOLEAN
    BY <1>2 DEF Places, WaitInv, Table
  <2> QED  BY <1>1, <2>1, ReapIs
<1>4. Cardinality(Left') = Cardinality(Left) - 1 /\ Cardinality(Left) \in Nat
      /\ Cardinality(Behind) \in Nat
  BY <1>3, JobsFinite, FS_RemoveElement, FS_CardinalityType
<1>5. OneWaitEach'
  BY <1>2, <1>3, <1>4 DEF WaitInv, OneWaitEach
<1> QED  BY <1>2, <1>3, <1>5 DEF WaitInv

\* The handler of phase 3 clears the flag exactly if it reaps the job awaited.
LEMMA HandlerKeeps ==
    ASSUME WaitInv, Handler3
    PROVE  WaitInv'
<1>1. /\ phase = 3 /\ Reap(Zombies) /\ pc \notin {"crashed", "exited"}
      /\ wait_child_flag' = (wait_child_flag /\ \A j \in Zombies : bg[j])
      /\ pc' = IF pc = "suspended" THEN "wait" ELSE pc
  BY DEF Handler3
<1>2. /\ Table' /\ Begun' /\ Left' = Left \ Zombies /\ Zombies \subseteq Left
      /\ bg' = bg /\ typed' = typed /\ phase' = phase
  <2>1. pc' \in Places /\ wait_child_flag' \in BOOLEAN
    BY <1>1 DEF Places, Waiting, WaitInv, Table
  <2> QED  BY <1>1, <2>1, ReapIs
<1>3. pc \in Waiting \cup {"prompt"} /\ LastAwaited
  BY <1>1 DEF WaitInv, Table, Places
<1>4. (pc' \in Waiting <=> pc \in Waiting) /\ (pc' = "prompt" <=> pc = "prompt")
  BY <1>1 DEF Waiting
<1>5. ASSUME NEW j \in Left'
      PROVE  bg'[j] \/ (pc' \in Waiting /\ j = typed' /\ wait_child_flag')
  <2>1. CASE bg[j]
    BY <1>2, <2>1
  <2>2. CASE ~bg[j]
    <3>1. pc \in Waiting /\ j = typed /\ wait_child_flag /\ j \notin Zombies
      BY <1>2, <1>3, <1>5, <2>2 DEF LastAwaited
    <3>2. \A z \in Zombies : bg[z]
      BY <1>2, <1>3, <3>1 DEF LastAwaited
    <3> QED  BY <1>1, <1>2, <1>4, <3>1, <3>2
  <2> QED  BY <2>1, <2>2
<1>6. pc' = "prompt" => wait_child_flag'
  <2> SUFFICES ASSUME pc = "prompt" PROVE wait_child_flag'
    BY <1>4
  <2>1. pc \notin Waiting
    BY DEF Waiting
  <2> QED  BY <1>1, <1>2, <1>3, <2>1 DEF LastAwaited
<1>7. LastAwaited'
  BY <1>5, <1>6 DEF LastAwaited
<1> QED  BY <1>1, <1>2, <1>7 DEF WaitInv

\* The test of the flag, and sigsuspend.
LEMMA TestKeeps ==
    ASSUME WaitInv, Wait3 \/ Suspend3
    PROVE  WaitInv'
<1>1. /\ phase = 3 /\ pc \in Waiting /\ LastAwaited
      /\ lead' = lead /\ bg' = bg /\ typed' = typed /\ phase' = phase
  BY DEF Wait3, Suspend3, jobs, Waiting, WaitInv
<1>2. \/ pc' \in Waiting /\ wait_child_flag' = wait_child_flag
      \/ pc' = "prompt" /\ ~wait_child_flag /\ wait_child_flag'
  BY DEF Wait3, Suspend3, Waiting, WaitInv, Table
<1>3. Left' = Left /\ Begun'
  BY <1>1 DEF Left, WaitInv, Begun
<1>4. pc' \in Places /\ wait_child_flag' \in BOOLEAN
  BY DEF Wait3, Suspend3, Waiting, Places, WaitInv, Table
<1>5. Table'
  BY <1>1, <1>4 DEF WaitInv, Table, IsProc
<1>6. "prompt" \notin Waiting
  BY DEF Waiting
<1>7. LastAwaited'
  BY <1>1, <1>2, <1>3, <1>6 DEF LastAwaited
<1> QED  BY <1>1, <1>3, <1>5, <1>7 DEF WaitInv

LEMMA NextWaitInv == WaitInv /\ [Next]_vars => WaitInv'
<1> SUFFICES ASSUME WaitInv, [Next]_vars PROVE WaitInv'
  OBVIOUS
<1>1. CASE UNCHANGED vars
  <2>1. lead' = lead /\ UNCHANGED <<phase, pc, cwd, wait_child_flag, typed, line, bg>>
    BY <1>1 DEF vars, jobs
  <2> QED  BY <2>1 DEF WaitInv, Table, Begun, LastAwaited, OneWaitEach, Left, Behind, IsProc
<1>2. CASE Loop
  BY <1>2, NoJobKeeps, EvalKeeps, AnyChildKeeps, HandlerKeeps, TestKeeps DEF Loop, Waits
<1>3. CASE \E j \in Jobs : Leader(j) \/ KidWorks(j)
  BY <1>3, JobKeeps
<1> QED  BY <1>1, <1>2, <1>3 DEF Next

\* The invariant of the loops holds in every reachable state.
THEOREM WaitInvariant == Spec => []WaitInv
<1> QED  BY InitWaitInv, NextWaitInv, PTL DEF Spec

\* Phase 3 prompts only when its handler has reaped the foreground job, whatever
\* other children end while it waits and wherever the handler interrupts the wait;
\* phases 1 and 2 do unless a job was begun in the background, and wait only when
\* there is a child to wait for.
THEOREM PromptFollowsForeground == Spec => []PromptAfterForeground
<1>1. ASSUME WaitInv PROVE PromptAfterForeground
  <2>1. phase = 3 => ForegroundAwaited
    <3>1. "prompt" \notin Waiting
      BY DEF Waiting
    <3> QED  BY <1>1, <3>1 DEF WaitInv, LastAwaited, ForegroundAwaited
  <2>2. /\ IsFiniteSet(Left) /\ IsFiniteSet(Behind)
        /\ Cardinality(Left) \in Nat /\ Cardinality(Behind) \in Nat
    BY JobsFinite, FS_CardinalityType
  <2>3. ASSUME phase # 3, pc = "prompt", Behind = {} PROVE ForegroundAwaited
    <3>1. Cardinality(Left) = 0
      BY <1>1, <2>2, <2>3, FS_EmptySet DEF WaitInv, OneWaitEach
    <3>2. Left = {}
      BY <2>2, <3>1, FS_EmptySet
    <3> QED  BY <3>2 DEF ForegroundAwaited
  <2>4. ASSUME phase # 3, pc = "wait" PROVE Left # {}
    <3>1. Cardinality(Left) # 0
      BY <1>1, <2>2, <2>4 DEF WaitInv, OneWaitEach
    <3> QED  BY <3>1, FS_EmptySet
  <2> QED  BY <2>1, <2>3, <2>4 DEF PromptAfterForeground, ForegroundAwaited
<1> QED  BY <1>1, WaitInvariant, PTL
=============================================================================
