----------------------------- MODULE BasicShell -----------------------------
(***************************************************************************)
(* proj1/phase1, phase2 and phase3 shellex.c: the command loop, the child  *)
(* that runs a line, and the pipelines of phases 2 and 3.  The child of a  *)
(* pipeline, its leader, starts one command after the other, each with its *)
(* output in a new pipe, waits for its end, and becomes the last command.  *)
(*                                                                         *)
(* The job control of phase 3 is the module Shell; here its loop waits by   *)
(* wait_child_flag and sigsuspend, and its SIGCHLD handler, which a leader  *)
(* inherits, reaps children at any time.  Commands are what a pipeline can tell apart: *)
(* w writes Written items, b one more than a pipe holds, f copies its input, *)
(* h copies one item, and any other name is not found.  The terminal as     *)
(* input is at its end.                                                     *)
(***************************************************************************)
EXTENDS CommandLine, FiniteSets

CONSTANTS
    Phases,          \* the phases whose shell is run, of 1 .. 3
    Lines(_),        \* the lines the user may type as the first, second ... one
    MaxLines,        \* bound of the model: lines typed
    Written,         \* items a command w writes
    PipeCap,         \* items a pipe holds
    Dirs             \* the directories, as sequences of names from HOME

ASSUME BasicShellAssumption ==
    /\ Phases \subseteq 1..3 /\ MaxLines \in Nat
    /\ Written \in Nat /\ PipeCap \in Nat \ {0}
    /\ <<>> \in Dirs /\ \A d \in Dirs : d # <<>> => Front(d) \in Dirs

Jobs == 1..MaxLines

VARIABLES
    phase,           \* which shell it is
    pc, cwd,         \* the loop, and its directory
    wait_child_flag, \* phase 3: the foreground job has not been reaped
    typed,           \* lines typed; the last one is a job or a built-in command
    line, bg,        \* of each job: its line, and whether it is in the background
    lead, kid,       \* the leader of a job and the command of a pipeline it waits for
    after,           \* of each leader: the text of the commands to come
    pipes,           \* of each job: the contents of its pipes
    tty              \* of each job: what it has written to the terminal

jobs == <<line, bg, lead, kid, after, pipes, tty>>
vars == <<phase, pc, cwd, wait_child_flag, typed, jobs>>

\* A process: where it is, its words, the pipe (0: the terminal) of its standard
\* input and output, the pipe ends it holds besides, and the items it has written.
Proc(at, args, in, raw) ==
    [at |-> at, args |-> args, in |-> in, out |-> 0, raw |-> raw, sent |-> 0]
NoProc == Proc("none", <<>>, 0, {})

Writers == {<<"w">>, <<"b">>}
Items(name) == IF name = <<"w">> THEN Written ELSE PipeCap + 1

Init ==
    /\ phase \in Phases
    /\ pc = "prompt" /\ cwd = <<>> /\ wait_child_flag = TRUE /\ typed = 0
    /\ line = [j \in Jobs |-> <<>>] /\ bg = [j \in Jobs |-> FALSE]
    /\ lead = [j \in Jobs |-> NoProc] /\ kid = [j \in Jobs |-> NoProc]
    /\ after = [j \in Jobs |-> <<>>]
    /\ pipes = [j \in Jobs |-> <<>>] /\ tty = [j \in Jobs |-> <<>>]

-----------------------------------------------------------------------------
(* The loop: eval and the built-in commands. *)

\* A first word & is a command that does nothing.
Builtin(args) == Head(args) \in {<<"x">>, <<"c">>, <<"&">>}

Typed(l, p) == pc = "prompt" /\ typed < MaxLines /\ l \in Lines(typed + 1)
               /\ p = Parseline(phase, l \o <<" ">>)

\* parseline writes through NULL: the shell is gone.
EvalCrash ==
    /\ \E l \in Lines(typed + 1) : Typed(l, Crash)
    /\ pc' = "crashed" /\ typed' = typed + 1
    /\ UNCHANGED <<phase, cwd, wait_child_flag, jobs>>

\* An empty line, or one that is only &.
EvalNothing ==
    /\ \E l \in Lines(typed + 1) : \E b \in BOOLEAN : Typed(l, Parsed(<<>>, b))
    /\ typed' = typed + 1
    /\ UNCHANGED <<phase, pc, cwd, wait_child_flag, jobs>>

\* exe_cd_command enters the directories that are its words, one after the other;
\* one that does not exist sends it back to origin_path.  That is what getcwd made
\* of an uninitialized pointer: the directory, or NULL and chdir does nothing.
Cd(words, origin) ==
    LET cd[n \in 0..Len(words)] ==
            IF n = 0 THEN cwd
            ELSE IF SubSeq(words, 1, n - 1) # <<>> /\ cd[n - 1] = <<"failed">> THEN <<"failed">>
            ELSE IF Append(cd[n - 1], words[n]) \in Dirs THEN Append(cd[n - 1], words[n])
            ELSE <<"failed">>
        entered == {n \in 0..Len(words) : cd[n] # <<"failed">>}
    IN IF words = <<>> THEN <<>>
       ELSE IF cd[Len(words)] # <<"failed">> THEN cd[Len(words)]
       ELSE IF origin = "known" THEN cwd ELSE cd[CHOOSE n \in entered : n + 1 \notin entered]

EvalBuiltin ==
    /\ \E l \in Lines(typed + 1) :
         LET p == Parseline(phase, l \o <<" ">>) IN
         /\ Typed(l, p) /\ p.args # <<>> /\ Builtin(p.args)
         /\ \/ Head(p.args) = <<"x">> /\ pc' = "exited" /\ UNCHANGED cwd
            \/ /\ Head(p.args) = <<"c">> /\ UNCHANGED pc
               /\ \E origin \in {"known", "NULL"} :
                    cwd' = Cd(Tail(p.args), origin)
            \/ Head(p.args) = <<"&">> /\ UNCHANGED <<pc, cwd>>
    /\ typed' = typed + 1
    /\ UNCHANGED <<phase, wait_child_flag, jobs>>

\* Fork; the loop then waits, unless the job is in the background.
Eval ==
    \E l \in Lines(typed + 1) :
      LET p == Parseline(phase, l \o <<" ">>)  j == typed + 1 IN
      /\ Typed(l, p) /\ p.args # <<>> /\ ~Builtin(p.args)
      /\ typed' = j
      /\ line' = [line EXCEPT ![j] = l] /\ bg' = [bg EXCEPT ![j] = p.bg]
      /\ lead' = [lead EXCEPT ![j] = Proc("forked", p.args, 0, {})]
      /\ pc' = IF p.bg THEN "prompt" ELSE "wait"
      /\ UNCHANGED <<phase, cwd, wait_child_flag, kid, after, pipes, tty>>

Zombies == {j \in Jobs : lead[j].at = "zombie"}

Reap(js) ==
    /\ lead' = [j \in Jobs |-> IF j \in js THEN [lead[j] EXCEPT !.at = "reaped"] ELSE lead[j]]
    /\ UNCHANGED <<phase, cwd, typed, line, bg, kid, after, pipes, tty>>

\* Wait(&status): any child.
Wait1 == /\ phase = 1 /\ pc = "wait" /\ pc' = "prompt"
         /\ \E j \in Zombies : Reap({j})
         /\ UNCHANGED wait_child_flag

\* Waitpid(pid, &status, 0) with the pid 0 that pid=Fork()==0 leaves: any child.
Wait2 == /\ phase = 2 /\ pc = "wait" /\ pc' = "prompt"
         /\ \E j \in Zombies : Reap({j})
         /\ UNCHANGED wait_child_flag

\* Mutant: the handler clears the flag for whatever child has ended.
AnyChildEndsWait ==
    /\ phase = 3 /\ pc \notin {"crashed", "exited"} /\ Zombies # {}
    /\ Reap(Zombies)
    /\ wait_child_flag' = FALSE
    /\ pc' = IF pc = "suspended" THEN "wait" ELSE pc

\* SIGCHLD: the handler reaps every child that has ended, clears the flag if the
\* foreground job is one of them, and ends a sigsuspend.
Handler3 ==
    /\ phase = 3 /\ pc \notin {"crashed", "exited"} /\ Zombies # {}
    /\ Reap(Zombies)
    /\ wait_child_flag' = (wait_child_flag /\ \A j \in Zombies : bg[j])
    /\ pc' = IF pc = "suspended" THEN "wait" ELSE pc

\* while(wait_child_flag): the test, with SIGCHLD not blocked.
Wait3 ==
    /\ phase = 3 /\ pc = "wait"
    /\ pc' = IF wait_child_flag THEN "suspend" ELSE "prompt"
    /\ wait_child_flag' = TRUE
    /\ UNCHANGED <<phase, cwd, typed, jobs>>

\* Sigsuspend, after the test: a SIGCHLD that came in between does not end it.
Suspend3 ==
    /\ phase = 3 /\ pc = "suspend" /\ pc' = "suspended"
    /\ UNCHANGED <<phase, cwd, wait_child_flag, typed, jobs>>

Waits == Wait1 \/ Wait2 \/ Handler3 \/ Wait3 \/ Suspend3

Loop == EvalCrash \/ EvalNothing \/ EvalBuiltin \/ Eval \/ Waits

-----------------------------------------------------------------------------
(* The leader of job j. *)

Shell == <<phase, pc, cwd, wait_child_flag, typed, line, bg>>
Piped(j) == phase # 1 /\ "|" \in Range(line[j])

\* Execvp: a name that is not found ends the process.
Exec(p, args) ==
    [p EXCEPT !.args = args,
              !.at = IF args # <<>> /\ args[1] \in Writers \cup {<<"f">>, <<"h">>}
                     THEN "run" ELSE "zombie"]

\* In the child: the first command of a pipeline, or the command.
Start(j) ==
    /\ lead[j].at = "forked"
    /\ IF Piped(j)
       THEN \E pp \in {Parsepipe(lead[j].args)} : \E first \in {Parseline(phase, pp.first)} :
            /\ lead' = [lead EXCEPT ![j].args = first.args,
                                    ![j].at = IF first.crash THEN "zombie" ELSE "stage"]
            /\ after' = [after EXCEPT ![j] = pp.after]
       ELSE lead' = [lead EXCEPT ![j] = Exec(@, @.args)] /\ UNCHANGED after
    /\ UNCHANGED <<Shell, kid, pipes, tty>>

\* pipe_execution: Pipe and Fork.
Stage(j) ==
    LET n == Len(pipes[j]) + 1  ends == {<<n, "r">>, <<n, "w">>} IN
    /\ lead[j].at = "stage"
    /\ pipes' = [pipes EXCEPT ![j] = Append(@, <<>>)]
    /\ kid' = [kid EXCEPT ![j] = Proc("forked", lead[j].args, lead[j].in, ends)]
    /\ lead' = [lead EXCEPT ![j].raw = ends, ![j].at = "redirect"]
    /\ UNCHANGED <<Shell, after, tty>>

\* In the command: its output goes to the pipe, it closes both ends, and Execvp.
KidExec(j) ==
    LET k == kid[j]  n == CHOOSE n \in DOMAIN pipes[j] : <<n, "w">> \in k.raw IN
    /\ k.at = "forked"
    /\ kid' = [kid EXCEPT ![j] = Exec([k EXCEPT !.out = n, !.raw = {}], k.args)]
    /\ UNCHANGED <<Shell, lead, after, pipes, tty>>

Rest(j) == Parseline(phase, after[j])

\* Mutant: the leader keeps the end of the pipe that is written.
RedirectKeepsEnd(j) ==
    /\ lead[j].at = "redirect"
    /\ \E rest \in {Rest(j)} : \E pp \in {Parsepipe(rest.args)} :
       \E first \in {Parseline(phase, pp.first)} :
         lead' = [lead EXCEPT ![j].in = Len(pipes[j]),
                    ![j].at = IF rest.crash \/ first.crash THEN "zombie" ELSE "wait"]
    /\ UNCHANGED <<Shell, kid, after, pipes, tty>>

\* In the leader: its input comes from the pipe, it closes both ends, and parses
\* the text of the other commands.
Redirect(j) ==
    /\ lead[j].at = "redirect"
    /\ \E rest \in {Rest(j)} : \E pp \in {Parsepipe(rest.args)} :
       \E first \in {Parseline(phase, pp.first)} :
         lead' = [lead EXCEPT ![j].in = Len(pipes[j]), ![j].raw = {},
                    ![j].at = IF rest.crash \/ first.crash THEN "zombie" ELSE "wait"]
    /\ UNCHANGED <<Shell, kid, after, pipes, tty>>

\* The command has ended: the leader becomes the last one, or goes on.
Proceed(j) ==
    \E rest \in {Rest(j)} :
      IF "|" \notin Range(after[j])
      THEN lead' = [lead EXCEPT ![j] = Exec(@, rest.args)] /\ UNCHANGED after
      ELSE \E pp \in {Parsepipe(rest.args)} : \E first \in {Parseline(phase, pp.first)} :
             /\ lead' = [lead EXCEPT ![j].at = "stage", ![j].args = first.args]
             /\ after' = [after EXCEPT ![j] = pp.after]

WaitKid2(j) ==
    /\ phase = 2 /\ lead[j].at = "wait" /\ kid[j].at = "zombie"
    /\ kid' = [kid EXCEPT ![j] = NoProc]
    /\ Proceed(j)
    /\ UNCHANGED <<Shell, pipes, tty>>

\* The leader's own SIGCHLD handler may reap the command before waitpid does.
KidHandler3(j) ==
    /\ phase = 3 /\ lead[j].at \in {"redirect", "wait"} /\ kid[j].at = "zombie"
    /\ kid' = [kid EXCEPT ![j] = NoProc]
    /\ UNCHANGED <<Shell, lead, after, pipes, tty>>

\* Mutant: waitpid that finds no child ends the leader.
WaitKidStrict(j) ==
    /\ phase = 3 /\ lead[j].at = "wait" /\ kid[j].at \in {"zombie", "none"}
    /\ kid' = [kid EXCEPT ![j] = NoProc]
    /\ IF kid[j].at = "none" THEN lead' = [lead EXCEPT ![j].at = "zombie"] /\ UNCHANGED after
       ELSE Proceed(j)
    /\ UNCHANGED <<Shell, pipes, tty>>

\* waitpid returns the command, or ECHILD.
WaitKid3(j) ==
    /\ phase = 3 /\ lead[j].at = "wait" /\ kid[j].at \in {"zombie", "none"}
    /\ kid' = [kid EXCEPT ![j] = NoProc]
    /\ Proceed(j)
    /\ UNCHANGED <<Shell, pipes, tty>>

-----------------------------------------------------------------------------
(* The commands that run, p being lead[j] or kid[j]. *)

Holders(j) == {p \in {lead[j], kid[j]} : p.at \notin {"none", "zombie", "reaped"}}
Held(j, n, end) ==
    \E p \in Holders(j) : <<n, end>> \in p.raw \/ n = IF end = "r" THEN p.in ELSE p.out

Eof(j, p) == IF p.in = 0 THEN TRUE ELSE pipes[j][p.in] = <<>> /\ ~Held(j, p.in, "w")
HasInput(j, p) == p.in # 0 /\ pipes[j][p.in] # <<>>

\* p writes the item x, having read it if it is not a writer.
Copy(j, p, x) ==
    LET read == IF HasInput(j, p) /\ p.args[1] \notin Writers
                THEN [pipes[j] EXCEPT ![p.in] = Tail(@)] ELSE pipes[j]
    IN IF p.out = 0
       THEN tty' = [tty EXCEPT ![j] = Append(@, x)] /\ pipes' = [pipes EXCEPT ![j] = read]
       ELSE /\ Len(pipes[j][p.out]) < PipeCap /\ Held(j, p.out, "r")
            /\ pipes' = [pipes EXCEPT ![j] = [read EXCEPT ![p.out] = Append(@, x)]]
            /\ UNCHANGED tty

\* One item, or the end: of its work, of its input, or by SIGPIPE.
Works(j, p, next) ==
    /\ p.at = "run"
    /\ \/ /\ p.args[1] \in Writers /\ p.sent < Items(p.args[1])
          /\ Copy(j, p, p.sent + 1) /\ next = [p EXCEPT !.sent = @ + 1]
       \/ /\ p.args[1] \notin Writers /\ HasInput(j, p)
          /\ p.args[1] = <<"h">> => p.sent = 0
          /\ Copy(j, p, Head(pipes[j][p.in])) /\ next = [p EXCEPT !.sent = @ + 1]
       \/ /\ \/ p.args[1] \in Writers /\ p.sent = Items(p.args[1])
             \/ p.args[1] \notin Writers /\ Eof(j, p)
             \/ p.args[1] = <<"h">> /\ p.sent = 1
             \/ p.out # 0 /\ ~Held(j, p.out, "r")
          /\ next = [p EXCEPT !.at = "zombie"]
          /\ UNCHANGED <<pipes, tty>>

LeadWorks(j) ==
    \E s \in 0..(lead[j].sent + 1), a \in {"run", "zombie"} :
      LET next == [lead[j] EXCEPT !.sent = s, !.at = a] IN
        /\ Works(j, lead[j], next) /\ lead' = [lead EXCEPT ![j] = next]
        /\ UNCHANGED <<Shell, kid, after>>

KidWorks(j) ==
    \E s \in 0..(kid[j].sent + 1), a \in {"run", "zombie"} :
      LET next == [kid[j] EXCEPT !.sent = s, !.at = a] IN
        /\ Works(j, kid[j], next) /\ kid' = [kid EXCEPT ![j] = next]
        /\ UNCHANGED <<Shell, lead, after>>

PipeExecution2(j) == phase = 2 /\ (Stage(j) \/ KidExec(j) \/ Redirect(j) \/ WaitKid2(j))
PipeExecution3(j) ==
    phase = 3 /\ (Stage(j) \/ KidExec(j) \/ Redirect(j) \/ KidHandler3(j) \/ WaitKid3(j))

Leader(j) == Start(j) \/ PipeExecution2(j) \/ PipeExecution3(j) \/ LeadWorks(j)

-----------------------------------------------------------------------------
Next == Loop \/ \E j \in Jobs : Leader(j) \/ KidWorks(j)

Spec == Init /\ [][Next]_vars

(***************************************************************************)
(* A process that can run does, and the loop returns from a wait that is   *)
(* over; the user does not have to type.                                   *)
(***************************************************************************)
Fairness ==
    /\ WF_vars(Waits)
    /\ \A j \in Jobs : WF_vars(Leader(j)) /\ WF_vars(KidWorks(j))

FairSpec == Spec /\ Fairness

-----------------------------------------------------------------------------
(* Properties *)

(***************************************************************************)
(* What a line is to mean, stated apart from the code: the commands between *)
(* the bars, each applied to the output of the one before.  It is stated    *)
(* for lines without &, whose quotes are double and enclose whole words.    *)
(***************************************************************************)
Unquoted(l) == SelectSeq(l, LAMBDA ch : ch # "q")

Plain(l) ==
    LET qs == {i \in DOMAIN l : l[i] = "q"}
        Nth(i) == Cardinality({k \in qs : k <= i})
    IN /\ "s" \notin Range(l) /\ "&" \notin Range(l) /\ Cardinality(qs) % 2 = 0
       /\ \A i \in qs : IF Nth(i) % 2 = 1 THEN i = 1 \/ l[i - 1] = " "
                                          ELSE i = Len(l) \/ l[i + 1] \in {" ", "|"}
       /\ \A i \in DOMAIN l : l[i] \in {" ", "|"} => Nth(i) % 2 = 0

FirstWord(part) ==
    LET from == Min({i \in DOMAIN part : part[i] # " "})
        to == Min({i \in from..(Len(part) + 1) : i = Len(part) + 1 \/ part[i] = " "})
    IN IF Range(part) \subseteq {" "} THEN <<>> ELSE SubSeq(part, from, to - 1)

Output(name, input) ==
    CASE name \in Writers -> [i \in 1..Items(name) |-> i]
      [] name = <<"f">> -> input
      [] name = <<"h">> -> SubSeq(input, 1, IF input = <<>> THEN 0 ELSE 1)
      [] OTHER -> <<>>

Meaning(l) ==
    LET text == Unquoted(l) \o <<"|">>
        bars == IF phase = 1 THEN {Len(text)} ELSE {i \in DOMAIN text : text[i] = "|"}
        Part(b) == SubSeq(text, 1 + Max({0} \cup {a \in bars : a < b}), b - 1)
        out[b \in bars \cup {0}] ==
            IF b = 0 THEN <<>>
            ELSE Output(FirstWord(Part(b)), out[Max({0} \cup {a \in bars : a < b})])
    IN out[Max(bars)]

Over(j) == lead[j].at \in {"zombie", "reaped"}

\* A line does what it says: its job ends with the output of the composition of its
\* commands, however they are spaced and double-quoted; such a line crashes no shell.
LineMeansPipeline ==
    /\ \A j \in Jobs : Over(j) /\ Plain(line[j]) => tty[j] = Meaning(line[j])
    /\ \A l \in Lines(typed + 1) :
         pc = "prompt" /\ typed = 0 /\ Plain(l) => ~Parseline(phase, l \o <<" ">>).crash

\* "Parent waits for foreground job to terminate" (phase1/shellex.c:88,
\* phase2/shellex.c:89, phase3/shellex.c:385): at the prompt, the jobs that run or
\* are to be reaped are those of the background.
Left == {j \in Jobs : lead[j].at \notin {"none", "reaped"}}
Behind == {j \in Jobs : lead[j].at # "none" /\ bg[j]}

ForegroundAwaited == pc = "prompt" => \A j \in Left : bg[j]

\* What the three loops keep of it.  Phase 3 does, whatever children of the
\* background end while it waits; phases 1 and 2, which wait for any child, do as
\* long as no job was begun in the background; and their wait always has a child
\* to wait for, or the wrapper would end the shell.
PromptAfterForeground ==
    /\ phase = 3 \/ Behind = {} => ForegroundAwaited
    /\ phase # 3 /\ pc = "wait" => Left # {}

\* The command the leader waits for writes to a full pipe that only the leader,
\* which waits, would read.
Stuck(j) ==
    /\ lead[j].at = "wait" /\ kid[j].at = "run"
    /\ Len(pipes[j][kid[j].out]) = PipeCap
    /\ IF kid[j].args[1] \in Writers THEN kid[j].sent < Items(kid[j].args[1])
       ELSE HasInput(j, kid[j])

\* The foreground job was reaped between the test of the flag and sigsuspend.
LostWakeup == phase = 3 /\ pc = "suspended" /\ ~wait_child_flag

\* A wait of the loop ends, whatever the pipeline and whoever reaps its commands,
\* but for two things.  A command before the last may write more than a pipe
\* holds: the leader starts the reader after the end of the writer.  And in phase
\* 3 the wakeup may be lost: no other child that ends clears the flag too early,
\* and none fails to end a sigsuspend that was in time.
EveryWaitEnds ==
    pc \in {"wait", "suspend", "suspended"} ~>
      (pc \notin {"wait", "suspend", "suspended"} \/ LostWakeup \/ \E j \in Jobs : Stuck(j))
=============================================================================
