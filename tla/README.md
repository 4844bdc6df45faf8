# Models and proofs of the sogang-system-programming projects

TLA+ modules, TLC configurations and TLAPS proofs for the three course projects
of this repository: a shell with job control (`proj1`), a concurrent stock server
(`proj2`) and a malloc package (`proj3`). Paths below are relative to `src/`.

## 1. Inventory

| Part | State it keeps | Operations | What makes it right |
|---|---|---|---|
| **sbuf** `proj2/task2/sbuf.c` | ring `buf`, counters `front`, `rear`, semaphores `mutex`, `slots`, `items` | `sbuf_init`, `sbuf_insert`, `sbuf_remove` | a bounded FIFO queue under any interleaving; no slot overwritten, no wakeup lost |
| **thread-pool server** `proj2/task2/stockserver.c`, `reqres.c` | the tree of stocks, `read_tree`, `byte_cnt`, semaphores `w_tree`, `mutex_read_tree`, `mutex_byte_cnt`, the once-control, `stock.txt` | `main` (load, accept, insert), 30 workers (`thread`, `carryout_client_cmd`), `sig_int_handler` | readers exclude writers, trades are atomic, every request is answered, SIGINT saves the book |
| **event-driven server** `proj2/task1/stockserver.c` | `pool` of descriptors with one Rio buffer each | `init_pool`, `add_client`, `check_clients`, `carryout_client_cmd` | the pool follows the open descriptors, the loop reads only clients that sent something, a line is one atomic request |
| **clients** `multiclient.c`, `stockclient.c` | one connection, the request in flight | connect, send, receive, close | one reply for each request |
| **Rio** `csapp.c` | a read buffer with a count and a position | `rio_read`, `rio_readlineb`, `rio_readnb`, `rio_writen` | lines and records come out as they went in, however the stream is cut |
| **treap** `treap.c` | nodes with priorities and sizes | `insert`, `erase`, `split`, `merge`, `find_key`, traversals | a search tree that is a heap of priorities, for every order of keys and every priorities |
| **shell, job control** `proj1/phase3/shellex.c` | `job_lists`, `job_lists_size`, `wait_child_flag`, the children | `eval`, `addjob`, `deletejob`, `bg`, `fg`, `kill`, `jobs`, handlers of SIGCHLD, SIGINT, SIGTSTP | the table lists the children there are; the shell waits exactly while a job is in the foreground; every child is reaped |
| **shell, pipelines and parsing** `phase2`, `phase3` | pipe descriptors, argument vectors | `pipe_execution`, `parsepipe`, `parseline`, `cd` | a line means the pipeline it spells; every command of a pipeline runs and ends |
| **shell phases 1 and 2** | the child being waited for | `eval` | the parent waits for its child |
| **malloc package** `proj3/mm.c` | heap words (tags, links, payload), `free_root` | `mm_init`, `mm_malloc`, `mm_free`, `mm_realloc` | live blocks are aligned, disjoint and keep their bytes; no space is lost |
| **memlib** `proj3/memlib.c` | `mem_brk` in a fixed area | `mem_init`, `mem_sbrk`, `mem_reset_brk` | the break only grows inside the area |
| **mdriver** `proj3/mdriver.c` | the trace's blocks, the list of ranges | `eval_mm_valid`, `add_range`, `remove_range`, `eval_mm_util`, `eval_mm_speed` | accepts a package only when its blocks are apart and keep their data |
| **timing** `fcyc.c`, `ftimer.c`, `fsecs.c`, `clock.c` | the K best samples, a reading of the counter, two interval timers | `init_fsecs`, `fsecs`, `fcyc`, `ftimer_itimer`, `ftimer_gettod`, `mhz` | the time reported is the time that passed, through wraps and borrows |

**How the parts interact.** In `proj2/task2` main accepts a connection and hands
its descriptor to a worker through sbuf; the worker reads requests with Rio,
takes the reader or writer side of the tree's lock, and replies on the
connection; SIGINT runs `sig_int_handler` in whichever thread it lands on and
writes the tree to `stock.txt` without any lock. In `proj2/task1` one thread does all
of this between two calls of `select`, and the handler interrupts it. In `proj1/phase3` the command loop and
three signal handlers share the job table; children change state on their own and
SIGCHLD reports it. A pipeline is a child
(its leader) that forks the commands before the last one and waits for each. In
`proj3` mdriver calls the package, the package calls memlib, mdriver times a replay of
the trace through fsecs, and tags, links and the owner's bytes share one array.

**What is hard.** Interleavings of threads around two-step reads and writes;
handlers that run between any two steps of the code they interrupt; signals that
do not queue; descriptors and slots that are reused; a process that ends at any
moment with its state in a file; and long call sequences on a heap in which the
package's own data and its users' are next to each other. The list, line by line, is
`hazards` in `PROJECT.json`.

## 2. Modules

| Module | Models | Extends / instantiates |
|---|---|---|
| `Csapp` | `P` and `V` | |
| `BoundedQueue` | abstract: what sbuf promises | |
| `Sbuf` | `sbuf.c`, one step per semaphore call or access to a shared counter | `Csapp`; refines `BoundedQueue` |
| `StockRequests` | requests, replies and the arithmetic of a trade | |
| `StockBook` | abstract: one book on which each request takes effect at one moment | `StockRequests` |
| `StockServer` | main, workers, handler, clients, `stock.txt` | `Csapp`, `StockRequests`; uses `BoundedQueue` for the buffer; refines `StockBook` |
| `Shell` | job control of phase 3, the children, the keyboard | |
| `Treap` | `treap.c`: operators from a table of nodes and a root to another | |
| `EventServer` | `proj2/task1`: the select loop, the pool, Rio, the handler and a restart, the clients | `StockRequests`, `Treap`; refines `StockBook` |
| `CommandLine` | `parseline` and `parsepipe` of the three shells | |
| `BasicShell` | the loops of the three shells, `cd`, pipelines and the processes in them | `CommandLine` |
| `Allocator` | abstract: what a malloc package promises | |
| `MMHeap` | `mm.c` on `memlib.c`, driven like `eval_mm_valid` | refines `Allocator` |
| `KBest` | `clock.c`'s subtraction and `fcyc.c`'s samples, as operators | |
| `Timing` | `fsecs` with the three timers `config.h` can select | `KBest` |
| `MDriver` | `mdriver.c` on an arbitrary package | `Timing` |
| `MCSbuf`, `MCStockServer`, `MCEventServer`, `MCShell`, `MCBasicShell`, `MCMMHeap`, `MCMDriver` | instances for TLC | |
| `Counts` | lemmas: how a cardinality changes when one thread moves; least elements; recursive functions; sums over finite sets | |
| `SbufProofs` | theorems about `Sbuf`: its state; its owners and the refinement of `BoundedQueue` | |
| `StockServerProofs` | theorems about `StockServer`: the lock and the rest of its state; the refinement of `StockBook` | |
| `EventServerProofs` | lemmas: what each function of `treap.c` makes of any treap; theorems about `EventServer`: the pool, the treap, the connections; the refinement of `StockBook` | |
| `BasicShellProofs` | theorems about `BasicShell`: the waits of its loops | |
| `ShellProofs` | theorems about `Shell` | |
| `MMHeapProofs` | theorems about `MMHeap`: its heap; the refinement of `Allocator` | |
| `MDriverProofs` | theorems about `MDriver` and the `Timing` and `KBest` in it: its list of payloads; its verdict; the time and the space it measures | |

### Correspondence with the code

*Sbuf.* `pc[t]` is the next line of `sbuf_insert` or `sbuf_remove`. `++rear` is a
load into `reg` and a store, so that the mutex has something to protect. The
callers belong to the model: a producer inserts a descriptor that is not open
already, as `Accept` returns one, and a worker closes its descriptor before it
removes the next. The program has one producer; the model allows several.

*StockServer.* One action per semaphore call, per access to `read_tree` and
`byte_cnt` (loads and stores apart where an update can be lost), per node of a
traversal, per message. The buffer is `BoundedQueue`, whose steps are the
linearization points of `sbuf.c`, which the run `sbuf` justifies. The shape of the
tree never changes after it is loaded, so the tree is the function `stock`,
visited in key order; loading it is step by step (`Load`), since the handler is
installed before. A SIGINT picks any thread that is not inside the handler already
and suspends it; the handler reads node by node, then opens (which truncates), then
closes (which writes), then exits. A client that is killed while it waits makes the
next read fail, and the wrapper ends the server (`ReqReset`). In a trade the search with the test of
`left_stock` (`WriteFind`), the load (`WriteLoad`) and the store (`WriteStore`) are three steps, so that
without the lock two buyers can both pass the test. Each client has a descriptor of its
own here; the reuse of descriptors is in `Sbuf`. The handler also takes the locks inside `malloc` and
stdio, which are not in the model.

*Treap.* A pointer is the key of its node, which is unique, so a tree is a function
from keys to node records and a root. The C functions update nodes in place
and return roots; an operator takes the table and returns it with the root. `rand()` is a
choice from `Priorities`. `TreapOK` checks, for every order of insertion and all
priorities, the order of the keys, the heap, the `size` of every node and what
`find_key` and `erase` would do with each key. The server never erases.

*EventServer.* A step is one system call or the local work between two. A line
is two pieces, its head and its newline, that may arrive apart or with more; a
reply is `ReplyLen` pieces of the 8192 bytes `res` writes, and a socket holds
`SockBuf` of them, so `rio_writen` can block. `rio` is the local copy of
`pool.clientrio[i]` that `check_clients` makes (line 106): it begins empty and is dropped
afterwards, with what it holds. `select`, `accept`, the slots and the
descriptors, which are reused lowest first, are explicit. The client that
is killed in the middle of a line leaves a line without its end, from which
`parseline` takes the last character (line 43): `Cuts` says what request that
may be. A client killed before it has read its reply makes its kernel send a reset, and
the next read or write ends the server. SIGINT can come at `select` and in the
middle of a reply; it writes the tree and exits; a restart loads what it
wrote.

*Shell.* The loop's accesses to the table are separate steps because nothing is
blocked there; `addjob` runs with signals blocked and is one step, and so is each
of the SIGINT and SIGTSTP handlers, which block every signal. The SIGCHLD handler
has a step between `waitpid` and the update of the table. A child is
`none -> born -> grouped (setpgid) -> running (exec) -> zombie -> reaped`, and can be
stopped. `pending` is a set: signals do not queue. `dropped` is a history variable
used only by the properties: what ctrl-C and what `kill` took off the table. `bg`, `fg` and `kill` (`Command`) act on the index they found. When two deletions of one job have made
`job_lists_size` negative, the next `addjob` writes in front of the array: the loop of the model
then stops in the state `undefined` (`AddBelowTable`), since what is overwritten depends on the layout of
the data, while children, keys and handlers go on.

*CommandLine, BasicShell.* A buffer is its characters, with the tests of the code on
quotes, bars and `&`; a write through NULL is the outcome `Crash`. In `BasicShell` a
job is a leader and at most one other process (`kid`), as `pipe_execution` has no more;
pipes are bounded queues of items and each process holds its ends, so end of input
and SIGPIPE come from the descriptors that are open. Commands are the ones a
pipeline can tell apart: `w` and `b` write little and more than a pipe holds, `f` copies,
`h` copies one item, any other name is not found. The SIGCHLD handler that a
leader of phase 3 inherits may reap the command before `waitpid` does
(`KidHandler3`). The wait of phase 3 has its flag: the SIGCHLD handler (`Handler3`) reaps whoever
has ended and clears `wait_child_flag` for the foreground job, the loop tests it (`Wait3`) and then
suspends (`Suspend3`), and the handler may run between the two. Stopped jobs, bg, fg and kill are in `Shell` only. `origin_path` in `cd` comes from an
uninitialised pointer, so both outcomes of `getcwd` are possible.

*KBest, Timing.* Time is one number. `AccessCounter` cuts it in two words and
`GetCounter` subtracts them with the borrow. `Timing` has the steps of `fsecs` for each of
the timers: `fcyc` (clearing the cache, calibration, samples, convergence), the interval
timer (the real one ends the process when it reaches zero) and the time of day, which is
the one `config.h` selects; the others are alternatives of `timer`.

*MDriver.* The package is arbitrary: it answers any address and extends the heap as it likes, in every
request; a realloc carries the bytes over or leaves what is there; and each request may overwrite bytes
anywhere in the heap, in one of the ways of the constant `Scribbles` (the theorems hold for every set of them;
the run has nothing, one zero byte anywhere, and two zero bytes at once). A trace has the
identifiers `Ids`, 0 to `NumIds - 1`, for any `NumIds`. The package only answers the same
to the same trace, so `eval_mm_util` and the timed runs replay `answers`. `breach` is a
history variable with what the package did wrong, stated with sets of addresses, so that
the verdict of the driver can be compared with it. `VerdictExact` says where they
differ: a payload that strictly contains another one is not seen, nor
is a byte overwritten in a block that is never moved, and a right package is refused when the
low byte of a block's index is above 127 and the block is moved, because `char` is signed.
Option `-l` runs the C library request by request, which may fail at each.

*MMHeap.* The functions of `mm.c` are operators from a heap to a heap; a call of
the owner is an action. The heap is its array of 4-byte words and the owner's
bytes are written into the same array, so that a tag written in the wrong place destroys data
and data written past a block destroys a tag. `SizeRange` is 2^32 in the program:
`Asize` computes modulo it, and `mem_sbrk` refuses what is negative as an int. The
owner continues after a call that failed, where mdriver ends the trace. The tests of
`heap_listp == 0` are left out: mdriver always calls `mm_init` first. `checkblock` is part
of `WellFormed`; `checkheap`, which nothing calls, is left out. The build
is the 32-bit one that the macros assume (`proj3/Makefile` says `-32`; with pointers
of eight bytes the two links of a free block would overlap).

## 3. Runs

`CHECK_DEADLOCK FALSE` is set everywhere: a server with no clients, a shell at its
prompt and an owner that asks for nothing more may stop, and the bounds on
requests, signals and children end every behaviour.

| Run | Instance | Shows |
|---|---|---|
| `sbuf` | 2 producers, 2 consumers, 3 descriptors, 2 slots, 4 inserts | types, `Accounting`, `NoOverflow`, `OneOwner`; implements `BoundedQueue`; every inserted descriptor is served |
| `server_safety` | 2 workers, 2 clients with 2 requests each, 2 stocks, all kinds of requests (also an unknown stock), one client may be killed | `LockInv`, `TreeExclusion`, `ByteCountExact`, `OneServer`, `NeverOversold`; implements `StockBook`, that is, requests are linearizable |
| `server_live` | 2 workers, 2 clients with 1 request, one SIGINT, fairness | `EveryRequestAnswered`, `SigintTerminates`, `SavedComplete` |
| `event` | 3 clients for a pool of 2, 3 stocks, one client may be killed, one SIGINT, a restart, fairness | `TreapOK`, `PoolConsistent`, `ReadyExact`; implements `StockBook` across pieces, cut lines and a restart; `EveryRequestAnswered` |
| `shell_jobs` | 3 children, 2 keys, two of bg, fg and kill | `TableMatchesChildren`, `ForegroundIsAwaited`, `NoZombieForgotten` |
| `shell_wakeup` | violation | the shell suspends for ever after its child has ended |
| `shell_kill` | violation | `kill` takes a running job, which nobody killed, off the table |
| `shell_interrupt` | violation | ctrl-C takes a job off the table whose program then runs on |
| `basic_shell` | the 3 phases, two lines, fairness | `LineMeansPipeline`, `PromptAfterForeground`, `EveryWaitEnds` |
| `basic_foreground` | violation: phases 1 and 2, two lines | the shell prompts while the foreground job runs |
| `heap` | 3 blocks, sizes 0, 1, 28, 44, 300, chunks of 48 bytes, heap of 136, `SizeRange` 512 | `WellFormed`, `FreeListExact`, `Coalesced`, `NoLeak`, `DataIntact`, `GrowsWhenNeeded`; implements `Allocator` |
| `mdriver` | traces of up to 5 requests and 5 identifiers, a heap of 6 bytes, bytes modulo 4, the three timers | `RangesExact`, `VerdictExact`, `MeasuresExact` (of space and of time) |

### Why the bounds are enough

* *sbuf*: two threads on each side are what a race needs; two slots and four inserts
  wrap the index and meet both the full and the empty buffer; a descriptor is
  reused.
* *server*: two workers give reader-reader, reader-writer and writer-writer
  overlap, with the first and the last reader being different threads; the queue of
  one slot makes main wait; one request after another lets a client see its
  own effects and those of the other. One SIGINT meets every step of every thread.
* *shell*: three children make the table move entries down while another handler
  looks for one; two keys let one interrupt the effect of the other;
  two commands let the second meet what the first left. `TableMatchesChildren` and
  `ForegroundIsAwaited` end with the first `kill`, which breaks the table (`shell_kill`); the
  other properties hold whatever it does. `VIEW` identifies states that differ only in values
  the program does not read again, like table slots past the size whose index nobody holds.
* *event*: three clients for two slots give reuse of slots and descriptors, a full pool and the
  `Too many clients` end. Two pieces per line and per reply, with a socket of one piece, cut
  streams at every place the code can notice. Three keys with two priorities give every shape
  of a treap of three nodes, ties included. The amount 12 becomes 1 when its last digit
  is cut. `HalfRange` 64 keeps sums below the overflow (the clients send amounts up to
  10). `VIEW` forgets the treap's shape once it is loaded; every later operation goes by
  key.
* *basic_shell*: the first line is any line of up to three of six characters, or one of some
  pipelines of two and three commands, quoted, spaced, in the background, or one that
  writes more than a pipe holds; the second one is a command, a pipeline or `cd`, while the
  first may still run.
* *mdriver*: ten traces, each built for one way to be wrong (overlap at either end, a payload that
  contains another, a move in place, a refilled block, an index with a high low byte, two indexes with the same
  low byte, a bad header); the trace that fills the heap varies the timing only. A word of 4 and a second of 4
  units wrap and borrow in a few steps; `MAX_ETIME` of 5 seconds expires in the longest
  samples. `VIEW` forgets the readings of a measurement that is over; it keeps
  whether they were exact.
* *heap*: a chunk holds three of the smallest blocks, so all four cases of `coalesce`,
  splitting into a remainder of exactly 16 bytes, not splitting at 8, extending by a
  chunk and by a larger block, and running out of memory all occur. 300 is
  negative as an int of the model's width. `VIEW` identifies heaps that differ only in words
  that hold neither tags, nor links, nor kept data: no operation depends on such a
  word. Without it the contents of old blocks would multiply the states.

### Fairness

Threads are scheduled (weak fairness of each thread's steps); a semaphore that
stays positive wakes some waiter. In `Sbuf` a P is fair for the group of waiters,
which is all that `sem_wait` gives. A client reads its reply and goes on until it
closes; no client must connect, no signal must arrive, no user must type. In `EventServer` the
one thread runs, and a client that began a line goes on to its end, reads and leaves: one
that stopped for ever in the middle would stop the server, which reads to the end of a
line. In `BasicShell` every process that can run does, and a loop that waits takes its next step. In `Shell`
an unblocked pending signal is delivered and a program that is not stopped
ends. Nothing is assumed about which of two concurrent readers or writers wins:
`EveryRequestAnswered` holds because each client has finitely many requests, and
is no statement about starvation by an endless stream of readers.

### Findings

1. `proj1/phase3/shellex.c:388`: `wait_child_flag` is tested with SIGCHLD
   unblocked, and then the shell suspends. A child that ends in between leaves the
   shell asleep with nothing to wake it (`shell_wakeup`). With SIGCHLD
   blocked around the test, and the old mask given to `Sigsuspend`, the window is gone.
2. `proj1/phase3/shellex.c:306`: `kill` deletes from the table with nothing
   blocked, and the SIGCHLD handler deletes the same job: another job vanishes, or the
   size drops below zero (`shell_kill`).
3. `proj1/phase3/shellex.c:143`: ctrl-C signals the group of the foreground job, which only
   the child itself makes (line 369). Before that, `kill` fails and nobody looks at its
   result; before `Execvp` the child has the shell's handlers. The job leaves
   the table and its program runs (`shell_interrupt`). A `setpgid` in the parent too, and default
   handlers in the child before it unblocks signals, would close both windows.
4. `proj1/phase2/shellex.c:92`, `proj1/phase1/shellex.c:91`: "Parent waits for foreground job to
   terminate", says the comment. Phase 1 waits for any child; phase 2 means to wait for `pid`, but
   `if((pid=Fork()==0))` (line 74) stores the comparison in it, so that it calls `Waitpid(0, ...)`,
   any child again. After a job in the background the prompt can come back while the foreground job runs
   (`basic_foreground`). `PromptAfterForeground` says what remains true.

`fg` (line 262) has a race of the same kind as the second: the job may end after the
search has found it, and then fg marks another slot and waits for a job that is gone. The model
has it; no property says which job fg marks or that its wait ends: `ForegroundIsAwaited` says only that, before a `kill`, no job
of the table is in the foreground unawaited. After a `kill` even that is false: its `deletejob`,
overtaken by the handler's, copies a later job over an earlier one, so that a pid is in the table
twice; `fg` marks one copy, and the SIGCHLD handler that deletes the other ends the wait and leaves
a job in the foreground that nobody awaits. It takes six background jobs, one
`kill` and one `fg` (TLC finds it in 32 steps from a state with the six jobs running),
more than `shell_jobs` has, which is why the run passes without the restriction
too; the attempt to prove the property for any number of children brought it to light.

## 4. Theorems

Proved with TLAPS for all values of the constants that satisfy the `ASSUME`s of the
modules: finite sets of threads and connections, positive sizes, and values that are no thread's
or connection's name. Every inductive invariant was checked with TLC on the instance of the
run before it was proved. The safety of `Sbuf`, `StockServer`, `EventServer`, `Shell`, `MMHeap` and `MDriver` (with the
clocks of `Timing`) is proved completely: each invariant of their passing runs is a theorem, and so are the four refinements.

**Sbuf.**

* `SbufProofs!AccountingCorrect`, `TypesCorrect`, `NeverOverflows`. The inductive invariant is
  `IInv == TypeOK /\ Accounting`. Neither half is inductive alone: the types of the
  semaphores (0..N, 0..1) need the counts of `Accounting`, and the counts need the
  types of `pc` and of the counters. Each action moves one thread from one set of labels
  to another, and `Counts!CountStep` says what that does to a cardinality.
  The one interesting clause is that a loaded counter is still current when it is
  stored back; it holds because the critical section has one thread (`CriticalAlone`).
* `SbufProofs!DescriptorHasOneOwner`. `OwnerInv` adds to `OneOwner` who has a descriptor
  (`item[t] # NoItem` exactly at the labels of `Holds`) and that the slots in use hold one. With
  the counts of `IInv` a store never meets a slot in use: two positions less than N apart are
  different slots (`SlotsDiffer`, from `NoMultipleBetween`).
* `SbufProofs!SbufImplementsQueue`. The mapping reads the queue from `front + 1` to `rear`
  modulo N. The store in `sbuf_insert` is the abstract put, the load out of the slot in
  `sbuf_remove` the take, `Close` the release, and every other step a stutter.

**StockServer.**

* `StockServerProofs!LockInvariant`, `TreeIsExclusive`. The inductive invariant
  is `LockTypes /\ LockInv`; `TreeExclusion` alone is not inductive, since it does not
  know who holds `w_tree` on behalf of the readers. `LockInv` names the sets of
  workers that are counted, that share the hold and that are between the mutex's P and V,
  and says that the first one in is alone counted and the last one out alone shares.
  There is one lemma per step of the protocol; every other action leaves the
  protocol's labels alone.
* `StockServerProofs!ServerInvariant`. `ServerInv` is a conjunction of parts that need each other
  and the lock's invariant: `Placed` (an open connection is in one place), `Lifecycle` (which labels
  have a request, and which a reply, while the client waits), `TreeData` (a reader has copied a
  part of the tree as it is; a trader's register is the stock's current number; both from
  `TreeExclusion`), `CountAll` (`mutex_byte_cnt` and the exact count) and `HandlerInv`
  (what a handler has printed). From it: `TypesCorrect`, `ConnectionHasOneServer`,
  `EveryRequestIsCounted`, `OneSigintSavesEveryStock`.
* `StockServerProofs!StocksStayNatural` proves `NeverOversold` under the hypothesis
  `SmallAmounts(M)`: amounts are natural numbers up to M, and all the requests there can be do
  not add up to an overflow. The code tests neither (line 149 is listed as a hazard), and without it
  the statement is false; the instance of `server_safety` satisfies it with M = 4. Each
  stock is bounded by its initial number and M for each request that has taken effect.
* `StockServerProofs!ServerImplementsBook`: linearizability. A show takes effect when its reader has
  copied the last node, a trade when it stores or is refused; `TheView` says what a client
  sees in terms of the one worker that has its request, and each
  action has a lemma that it is one step of the book, seen by one client, or none.

**Shell.** `ShellProofs!ShellInvariant` and its four consequences.

* `Steady` (types, `TableOK`, `AddOK`, `ReapOK`, `KillOK`) holds whatever is typed. The types are
  not inductive alone: that `addjob` writes inside the table needs that the table has no more
  jobs than eval has added; that a `job_entry` is free, that 1..NumPids are more than the jobs
  (`FreeEntry`); that `kill` is never called on the pid 0, that a slot which once held a job
  holds one for ever. `job_lists_size` can reach -1, and not less, and only
  after a `kill` (`SizeIsNatural`); that it is at most the number of children is why a table with room
  for all of them is enough, which the model assumes.
  From it `TypesCorrect`, and with `ZombieNext` `NoZombieIsForgotten`.
* `Control` (`TableMatchesChildren` and `Foreground`) holds until a job is killed.
  `DeleteJobLists` says what `deletejob` in a handler does to the list of pids and to the
  foreground when no pid is there twice. `Foreground` strengthens `ForegroundIsAwaited`: the flag
  is down only between the end of the wait and its reset, so that `eval` and `fg` begin to wait
  with the flag up. From it `TableMatchesTheChildren`, `TheForegroundIsAwaited`.

**EventServer.** `EventServerProofs!PoolInvariant`, and from it `PoolIsConsistent` and
`NreadyIsExact`. `PoolInv` has to say, besides the two, where a connection is at all: `Placed`
(one that has not begun is nowhere, and none is both in the backlog and under a
descriptor), and `StayReady`: a client that was ready in `select` is ready until the loop
reaches it, since only the server takes bytes out of its socket and a client that is gone
stays gone. `nready` (`Counted`) is then the number of slots from `i` on that are in `ready_set`: `Accept` takes
the listening descriptor off the count, and a slot the loop has passed is never counted
again, because a closed one is emptied. TLC checked `PoolInv` on the 151 965 states of the
instance.

**Treap.** The lemmas of `EventServerProofs` on `treap.c`. Its functions of `treap.c` are recursive functions on the nodes of a table.

* `Recursion`, and from it `TreeRecursion`, gives each of them its recursive equation on
  every table whose nodes nest (`Forest`): a node lies in a larger set of nodes than its subtrees, so that
  the depth the recursion needs is bounded by the number of nodes, and `LeastNatural` stands
  in for the induction. `merge`, which goes down two trees at a time, has a recursion on pairs.
* `Tree(t, n, K)` says that what hangs under n is a treap with just the keys K and the right sizes;
  `Decompose` and `Compose` take it apart at its root and put it together.
  `TreeInduction`, from `MinimalSet` (a family of finite sets has a minimal one), is
  the induction over trees.
* Each C function is then what it makes of K: `SplitIs` (the keys below and above, both treaps),
  `InsertIs` (K and the new key), `MergeIs`, `EraseIs` (K without the key), `FindKeyIs` (found
  if and only if in K), `InOrderIs` and `KeysOfIs` (the traversal shows every key once, in
  order). Those that relink say as well that no node outside K changes its links, which is
  what lets the two halves of a split be trees of the same table.

**EventServer, the rest.** `EventServerInvariant`: `ServerInv` is `PoolInv`, `BookTypes`, `NetTypes` and `Protocols`.

* `BookTypes` says that the nodes in memory are one tree under `root` with the keys read so far, whatever
  the priorities, with stocks in the width of an `int`. From it `TreapIsOK`, by `FindKeyIs` and
  `ErasedTreap`, and with `NetTypes` `EventServerTypes`.
* `Protocol(c)` says, for each state of a client, what is on its way between it and the server: nothing,
  the head of a line, the whole line, or the pieces of one reply, of which those unwritten,
  those in the socket and those received are always `ReplyLen`. The line of a killed
  client is there in full, without its end, or not at all.
* `EventServerImplementsBook`: a client's request is asked when its line is complete, or cut by its
  death; it takes effect when `parseline` runs on it, and is seen when its last piece is
  received. The pieces in `line`, in `rio` and in the socket are one stream, so that moving
  them is a stutter (`Streams`). `Saved` says where the whole book is: in `stock.txt` while the
  file is loaded, in the treap afterwards, and in both once the process has ended by SIGINT; so a
  restart changes no stock. The hypothesis is that no SIGINT comes while the file
  is loaded (`"load" \notin SigintAt`): the handler would save the part of the book read
  so far, and the rest would be lost. The instance of `event` satisfies it.

**BasicShell.** `BasicShellProofs!WaitInvariant`, `PromptFollowsForeground`. In phase 3 the invariant says
that while the loop waits, the only foreground job left is the last one typed, and that the flag is still
set as long as it is (`LastAwaited`): the handler clears it for this job alone, so the
children of the background that end during the wait do not end it. In phases 1 and 2 a fork adds
one child and one wait, or one child in the background; a wait takes one child, whichever it is
(`OneWaitEach`), so that with nothing in the background the prompt finds no child left, and a wait always finds
one. Jobs get their numbers in order (`Begun`), no step of a pipeline changes the set of children left
(`Leads`), and nothing is assumed of the parser. What the lines mean, and that a wait ends, stay with TLC.

**MMHeap.** `MMHeapProofs!HeapInvariant` and its consequences.

* A heap is described by three values the code does not keep: the blocks B, their sizes S and the
  set E of the free ones. `Good` says that B are laid out from the prologue to the break without a
  gap (`Layout`), that header and footer of each say its size and whether it is in E (`Tagged`), that
  the links go through E in the order of some sequence (`Linked`), and that sizes and addresses are multiples of
  eight. `WellFormed`, `FreeListExact` and `Coalesced` are consequences and not inductive without them.
* There is one lemma for each function of `mm.c`: what it makes of B, S and E, and which words it leaves
  `Untouched`. `coalesce` has a lemma for each of its four cases. `Holds` adds the
  owner: each block in use is a block outside E whose payload has room for the size and holds the byte
  of its owner. A call of the owner changes the words of one block and of free ones, so that the others keep
  their bytes (`DataStayIntact`).
* From `HeapInv`: `HeapTypes`, `HeapIsWellFormed`, `FreeListIsExact`, `FreeSpaceIsMerged`,
  `NothingLeaks`, `DataStayIntact`, `HeapGrowsWhenNeeded` and `HeapImplementsAllocator`;
  `LiveBlocksAreDisjoint` is what the layout gives the owner: blocks apart, aligned and inside the heap.
* Each has the hypothesis `NoWrap`: no size the owner asks for is so near the end of `size_t` that
  rounding it up wraps. Without it `mm_malloc` returns a block that is too small (the hazard at
  `mm.c:197`) and `NothingLeaks` is false. mdriver's traces satisfy it, and so does the
  instance of `heap` (`SizesDoNotWrap`).
* `Chain` and `FreeList` are recursive functions on the heap's own addresses; that they yield the
  blocks and the list follows from the first place where they would differ (`ChainLeads`, `FreeListIs`).
* TLC checked `HeapInv` on the 9 360 states of the instance.

**MDriver.** `MDriverProofs!DriverInvariant` and `GradeInvariant`.

* The hypothesis is `TracesOK`: a trace allocates what is not in use, frees and moves what is, and
  asks for more than nothing. `read_trace` does not test this; the generated traces are so, and
  TLC evaluates it on the instance (`TracesAreOK`). The number of identifiers is any number. Nothing is assumed of the package:
  `Scribbles` is any set of writes to memory.
* `DriverInv` says that the list is the payloads of the blocks in use, each once (`Listed`), and
  that no two of them begin at the same address. The second is what makes `remove_range`, which
  searches by the low end, take off the right one, and it follows from the overlap test although that test
  lets a payload around another one pass. From it `TheRangesAreExact`.
* `GradeInv` adds `Stored` (memory holds bytes, and what is in use lies on its addresses), `Truthful` (while nobody has overwritten anything and no payload
  shares bytes with another one, every block in use holds its byte) and `Sums` (how many results and errors
  there are, by where `main` is). `SignedByte` is the comparison of a byte with a signed `char`. From it
  `TheVerdictIsExact`.
* A first proof failed on `NextTrace`: its `CASE` had two guards that are true together, of which TLC
  takes the first and the logic takes any. The guards are now apart.
* TLC checked `DriverInv` and `GradeInv`, and the invariants of time and space below, on the
  instance of `mdriver`.

**Timing.** `MDriverProofs!TimeInvariant`, and from it `TheTimesAreExact`.

* The hypothesis is `CounterFits`: neither a call nor the sleep of `mhz` takes more cycles than
  two words can count (2^64 cycles in the code). Without it `GetCounter` returns the
  remainder. The instance satisfies it (`CountersFit`) with calls whose low word borrows.
* `CounterDifference`: `GetCounter` of two readings is the time between them, from
  whichever reading of the clock, through the borrow and the wrap of both words. `Elapses` says the same
  of seconds and microseconds.
* `AddSampleBest`: the values of a sampler stay the K best of the samples. The invariant of the
  insertion is a ranking (`Ranked`): the k-th value is at most x exactly if at least k
  samples are. It says at once that the values are in order and that they are the best,
  with repetitions, and a new sample only adds one to some of the counts (`OneMore`).
* `TimeInv` says of the counter that it was read now when the function starts, and of the timers
  that what the interval timer has lost, and what the time of day has gained, is the sum of the
  calls so far (`ByTimer`). `MaxSamples` is not zero: the loop of fcyc takes a sample before it tests it.

**Utilization.** `MDriverProofs!SpaceInvariant`, and with `TheTimesAreExact` from it
`TheMeasuresAreExact`, under `TracesOK` and `CounterFits`.

* While a trace is checked, payloads none of which is answered around another lie side
  by side inside the heap (`SideBySide`), so their sizes add up to no more than it
  (`SideBySideFits`). That has to be carried over to `eval_mm_util`, which runs later and knows of the
  check only the answers: `Fits` states it of the trace alone, for whatever function gives
  each block the size of its last request (`IsSize`), for every prefix of the trace and the
  end of the heap now, which only rises. In the replay the total is the sum of just that function.
* That no overlap goes unseen but a payload around another is `GradeInv`; this is where the exception of
  the property comes from.
* Sums and `FoldLeft` are recursive functions of the community modules. `Counts!TotalsAdd`
  shows that the order in which a finite set is summed does not matter; `SetFoldIsSum` and `SeqFoldIsSum`
  that the folds are such sums. The function exists by `Counts!Recursion`.

**Induction.** The library's induction theorems take an operator as a parameter and cannot be
used. `Counts!LeastNatural` and `LeastInteger` (a finite set of integers has a least element, from
the well-foundedness of < on Nat) stand in for them where `Least` chooses a job or a key.

**Only model-checked**: every liveness property (the prover has neither
fairness nor `ENABLED`), and the meaning of a line in `BasicShell` (`LineMeansPipeline`): that
the parser, whose words and quotes are recursive functions over the characters of a line, makes
of every line what the reference definition says is an induction over data.

## 5. Not modelled, and the plan

Not modelled, and why:

* The csapp wrappers that call one function and exit on its error carry no state; most are
  called by no program. `open_clientfd` and `open_listenfd` look addresses up
  and try them in turn, outside the program's own logic. `sbuf_deinit`, `rio_readn`,
  `mem_deinit`, `mem_pagesize`, `checkheap`, `printblock`, `ovhd` and the setters of the cache
  sizes are never called; `checkheap` would also read a word before the heap.
* Printing, option parsing, name lookup, and `byte_cnt` of task1, which is only printed.
* Buffers of a fixed size: words of more than 128 characters, lines of more than
  MAXLINE, more than 300 jobs (`MAXJOBS`, listed as a hazard), and `parsepipe` on an empty
  rest, which writes in front of its buffer.
* Descriptors of FD_SETSIZE and more, for which `add_client` of task1 would write out of the set, and `Accept`
  when no descriptor is left; the locks inside `malloc` and stdio that the SIGINT handler of task2 takes.
* `stock.txt` when clients leave: the project description (`proj2/prj2_desc.pdf`, slide 21) asks for it to be
  up to date when every connection is closed, and slide 11 at the end of the server. The code writes it in the
  SIGINT handler only, so a statement of this would fail by the shape of the program, and none is made.
* Errors that lose trades: a server that ends by `unix_error` does not save, and is not
  restarted in the model; a SIGINT while `stock.txt` is loaded in task1 (it saves
  the part that is loaded). Restart happens with no request in flight, since what
  the network drops then is no matter of this code.
* The Alpha counter and the stubs for other machines in `clock.c`.
* Traces, reports, sample data and build files.

What is left is `LineMeansPipeline` for lines of any length.
