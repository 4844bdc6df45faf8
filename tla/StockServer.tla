---------------------------- MODULE StockServer ----------------------------
(***************************************************************************)
(* proj2/task2/stockserver.c: the thread-pool stock server with its        *)
(* clients, its SIGINT handler and the file stock.txt.                     *)
(*                                                                         *)
(* Threads are main and the workers.  A step is one semaphore call, one    *)
(* access to a shared integer (a read-modify-write is a load and a store), *)
(* one node of a traversal of the tree, or one message of a connection.    *)
(* The tree's shape never changes once it is loaded, so it is the function *)
(* `stock' from keys to left_stock, visited in key order.  The buffer of   *)
(* descriptors is the queue that Sbuf implements.  Dead locals are reset.  *)
(***************************************************************************)
EXTENDS Csapp, StockRequests, Sequences, FiniteSets

CONSTANTS
    Workers, main,       \* the threads
    Conns, NoConn,       \* connections (each client connects once)
    Keys,                \* the stocks of stock.txt, integers
    InitStock,           \* left_stock of each when the server starts
    QueueSize,           \* MAX_CLIENT
    Requests,            \* the requests clients send
    MaxRequests,         \* bound of the model: requests of one connection
    MaxSigints,          \* bound of the model: SIGINTs sent to the server
    MayAbort             \* the clients that may be killed while they wait

\* What a worker may print, and what it may reply.
Ints == (-HalfRange)..(HalfRange - 1)
Books == UNION {[S -> Ints] : S \in SUBSET Keys}
Replies == [kind : {"show", "success", "short", "nosuch", "invalid"}, book : Books]

ASSUME StockServerAssumption ==
    /\ main \notin Workers /\ IsFiniteSet(Workers)
    /\ NoConn \notin Conns /\ IsFiniteSet(Conns)
    /\ QueueSize \in Nat \ {0} /\ MaxRequests \in Nat /\ MaxSigints \in Nat
    /\ Keys \subseteq Int /\ IsFiniteSet(Keys) /\ Keys # {}
    /\ InitStock \in [Keys -> (-HalfRange)..(HalfRange - 1)]
    /\ Requests \subseteq [op : Ops, key : Int, n : Int]
    /\ None \notin Requests \cup Replies
    /\ MayAbort \subseteq Conns

Threads == Workers \cup {main}

VARIABLES
    stock, read_tree, byte_cnt, once,              \* shared by the workers
    w_tree, mutex_read_tree, mutex_byte_cnt,       \* the semaphores
    queue, held,                                   \* sbuf, and connfd of each worker
    pc, cur, reg, seen, res,                       \* locals of carryout_client_cmd
    mpc, accepted,                                 \* main, and its connfd
    hpc, hbuf, sigints,                            \* the handler in each thread
    stock_txt, exited,                             \* the file; how the process ended
    backlog, client, inbox, outbox, asked          \* the connections

locks == <<w_tree, mutex_read_tree, mutex_byte_cnt>>
tree == <<stock, read_tree, byte_cnt, once>>
locals == <<cur, reg, seen, res>>
net == <<backlog, client, inbox, outbox, asked>>
mainvars == <<mpc, accepted>>
sigvars == <<hpc, hbuf, sigints, stock_txt, exited>>
rest == <<queue, held, mainvars, sigvars, net>>    \* what few worker steps touch
vars == <<tree, locks, queue, held, pc, locals, mainvars, sigvars, net>>

Sbuf == INSTANCE BoundedQueue WITH
    Consumers <- Workers, Items <- Conns, NoItem <- NoConn, N <- QueueSize

Init ==
    /\ stock = EmptyBook /\ read_tree = 0 /\ byte_cnt = 0 /\ once = FALSE
    /\ w_tree = 0 /\ mutex_read_tree = 0 /\ mutex_byte_cnt = 0
    /\ Sbuf!Init
    /\ pc = [w \in Workers |-> "remove"]
    /\ cur = [w \in Workers |-> None] /\ res = [w \in Workers |-> None]
    /\ reg = [w \in Workers |-> 0] /\ seen = [w \in Workers |-> EmptyBook]
    /\ mpc = "load" /\ accepted = NoConn
    /\ hpc = [t \in Threads |-> "off"] /\ hbuf = [t \in Threads |-> EmptyBook]
    /\ sigints = 0 /\ stock_txt = InitStock /\ exited = "no"
    /\ backlog = {} /\ client = [c \in Conns |-> "off"]
    /\ inbox = [c \in Conns |-> None] /\ outbox = [c \in Conns |-> None]
    /\ asked = [c \in Conns |-> 0]

Extend(f, k, v) == [x \in DOMAIN f \cup {k} |-> IF x = k THEN v ELSE f[x]]

\* The next node of an in-order traversal that has seen the keys in S.
NextKey(S) == CHOOSE k \in DOMAIN stock \ S :
                  \A x \in DOMAIN stock \ S : k <= x

-----------------------------------------------------------------------------
(* main.  A thread whose handler runs does nothing else. *)

Running(t) == exited = "no" /\ hpc[t] = "off"

\* One line of stock.txt becomes a node.
Load ==
    /\ Running(main) /\ mpc = "load"
    /\ \E k \in Keys \ DOMAIN stock : stock' = Extend(stock, k, stock_txt[k])
    /\ UNCHANGED <<read_tree, byte_cnt, once, locks, pc, locals, rest>>

\* The file is read; the threads are created and main starts to accept.
Listen ==
    /\ Running(main) /\ mpc = "load" /\ DOMAIN stock = Keys
    /\ mpc' = "accept"
    /\ UNCHANGED <<tree, locks, queue, held, pc, locals, accepted, sigvars,
                   net>>

Accept ==
    /\ Running(main) /\ mpc = "accept"
    /\ \E c \in backlog : accepted' = c /\ backlog' = backlog \ {c}
    /\ mpc' = "insert"
    /\ UNCHANGED <<tree, locks, queue, held, pc, locals, sigvars, client,
                   inbox, outbox, asked>>

\* Mutant: main forgets that it has inserted the descriptor.
InsertTwice ==
    /\ Running(main) /\ mpc = "insert"
    /\ Sbuf!Put(accepted)
    /\ UNCHANGED mainvars
    /\ UNCHANGED <<tree, locks, pc, locals, sigvars, net>>

SbufInsert ==
    /\ Running(main) /\ mpc = "insert"
    /\ Sbuf!Put(accepted)
    /\ mpc' = "accept" /\ accepted' = NoConn
    /\ UNCHANGED <<tree, locks, pc, locals, sigvars, net>>

Main == Load \/ Listen \/ Accept \/ SbufInsert

-----------------------------------------------------------------------------
(* The workers. *)

Goto(w, from, to) ==
    Running(w) /\ pc[w] = from /\ pc' = [pc EXCEPT ![w] = to]

SbufRemove(w) ==
    /\ mpc # "load"
    /\ Goto(w, "remove", "once")
    /\ Sbuf!Take(w)
    /\ UNCHANGED <<tree, locks, locals, mainvars, sigvars, net>>

\* Mutant: init_carryout_client_cmd is called by every worker.
OncePerWorker(w) ==
    /\ Goto(w, "once", "req")
    /\ once' = TRUE /\ byte_cnt' = 0 /\ read_tree' = 0
    /\ w_tree' = 1 /\ mutex_read_tree' = 1 /\ mutex_byte_cnt' = 1
    /\ UNCHANGED <<stock, locals, rest>>

\* Pthread_once(&once, init_carryout_client_cmd); Rio_readinitb.
Once(w) ==
    /\ Goto(w, "once", "req")
    /\ once' = TRUE
    /\ IF once THEN UNCHANGED <<byte_cnt, read_tree, locks>>
       ELSE /\ byte_cnt' = 0 /\ read_tree' = 0
            /\ w_tree' = 1 /\ mutex_read_tree' = 1 /\ mutex_byte_cnt' = 1
    /\ UNCHANGED <<stock, locals, rest>>

\* req: one line of the connection.
Req(w) ==
    /\ Goto(w, "req", "cnt_lock")
    /\ inbox[held[w]] # None
    /\ cur' = [cur EXCEPT ![w] = inbox[held[w]]]
    /\ inbox' = [inbox EXCEPT ![held[w]] = None]
    /\ UNCHANGED <<tree, locks, queue, held, reg, seen, res, mainvars, sigvars,
                   backlog, client, outbox, asked>>

\* req returns 0: the client has closed the connection.
ReqEof(w) ==
    /\ Goto(w, "req", "close")
    /\ inbox[held[w]] = None
    /\ client[held[w]] \in {"closed", "killed"}
    /\ UNCHANGED <<tree, locks, locals, rest>>

\* The last reply met a client that was gone, and the connection is reset:
\* Rio_readlineb calls unix_error, which ends the process.
ReqReset(w) ==
    /\ Goto(w, "req", "req")
    /\ inbox[held[w]] = None
    /\ client[held[w]] = "killed"
    /\ exited' = "error"
    /\ UNCHANGED <<tree, locks, queue, held, locals, mainvars, hpc, hbuf,
                   sigints, stock_txt, net>>

CntLock(w) ==
    /\ Goto(w, "cnt_lock", "cnt_load")
    /\ P(mutex_byte_cnt)
    /\ UNCHANGED <<tree, w_tree, mutex_read_tree, locals, rest>>

CntLoad(w) ==
    /\ Goto(w, "cnt_load", "cnt_store")
    /\ reg' = [reg EXCEPT ![w] = byte_cnt]
    /\ UNCHANGED <<tree, locks, cur, seen, res, rest>>

\* byte_cnt += n; every request counts for one.
CntStore(w) ==
    /\ Goto(w, "cnt_store", "cnt_unlock")
    /\ byte_cnt' = reg[w] + 1
    /\ reg' = [reg EXCEPT ![w] = 0]
    /\ UNCHANGED <<stock, read_tree, once, locks, cur, seen, res, rest>>

\* V(&mutex_byte_cnt), and the branch on the parsed request.
Branch(op) ==
    CASE op = "show" -> "r_lock_in"
      [] op \in {"buy", "sell"} -> "w_lock"
      [] op = "exit" -> "close"
      [] OTHER -> "res"

CntUnlock(w) ==
    /\ Goto(w, "cnt_unlock", Branch(cur[w].op))
    /\ V(mutex_byte_cnt)
    /\ cur' = [cur EXCEPT ![w] = IF @.op = "exit" THEN None ELSE @]
    /\ res' = [res EXCEPT ![w] = IF cur[w].op = "invalid" THEN Answer("invalid") ELSE @]
    /\ UNCHANGED <<tree, w_tree, mutex_read_tree, reg, seen, rest>>

\* show: the entry section of the readers.
ReadLockIn(w) ==
    /\ Goto(w, "r_lock_in", "r_enter")
    /\ P(mutex_read_tree)
    /\ UNCHANGED <<tree, w_tree, mutex_byte_cnt, locals, rest>>

\* Mutant: read_tree is tested before it is incremented.
FirstReaderTestsEarly(w) ==
    /\ Goto(w, "r_enter", IF read_tree = 1 THEN "r_first" ELSE "r_unlock_in")
    /\ read_tree' = read_tree + 1
    /\ UNCHANGED <<stock, byte_cnt, once, locks, locals, rest>>

ReadEnter(w) ==
    /\ Goto(w, "r_enter", IF read_tree + 1 = 1 THEN "r_first" ELSE "r_unlock_in")
    /\ read_tree' = read_tree + 1
    /\ UNCHANGED <<stock, byte_cnt, once, locks, locals, rest>>

\* Mutant: the first reader does not wait for w_tree.
ReadWithoutLock(w) ==
    /\ Goto(w, "r_first", "r_unlock_in")
    /\ UNCHANGED w_tree
    /\ UNCHANGED <<tree, mutex_read_tree, mutex_byte_cnt, locals, rest>>

ReadFirst(w) ==
    /\ Goto(w, "r_first", "r_unlock_in")
    /\ P(w_tree)
    /\ UNCHANGED <<tree, mutex_read_tree, mutex_byte_cnt, locals, rest>>

ReadUnlockIn(w) ==
    /\ Goto(w, "r_unlock_in", "r_scan")
    /\ V(mutex_read_tree)
    /\ UNCHANGED <<tree, w_tree, mutex_byte_cnt, locals, rest>>

\* print_in_buf: one node; with the last one the reply is complete.
ReadScan(w) ==
    LET k == NextKey(DOMAIN seen[w])
        book == Extend(seen[w], k, stock[k])
        done == DOMAIN book = DOMAIN stock
    IN /\ Goto(w, "r_scan", IF done THEN "r_lock_out" ELSE "r_scan")
       /\ seen' = [seen EXCEPT ![w] = IF done THEN EmptyBook ELSE book]
       /\ res' = [res EXCEPT ![w] = IF done THEN ShowAnswer(book) ELSE None]
       /\ UNCHANGED <<tree, locks, cur, reg, rest>>

ReadLockOut(w) ==
    /\ Goto(w, "r_lock_out", "r_leave")
    /\ P(mutex_read_tree)
    /\ UNCHANGED <<tree, w_tree, mutex_byte_cnt, locals, rest>>

\* Mutant: every reader that leaves gives w_tree back.
EveryReaderIsLast(w) ==
    /\ Goto(w, "r_leave", "r_last")
    /\ read_tree' = read_tree - 1
    /\ UNCHANGED <<stock, byte_cnt, once, locks, locals, rest>>

\* Mutant: the last reader keeps w_tree.
NoReaderIsLast(w) ==
    /\ Goto(w, "r_leave", "r_unlock_out")
    /\ read_tree' = read_tree - 1
    /\ UNCHANGED <<stock, byte_cnt, once, locks, locals, rest>>

ReadLeave(w) ==
    /\ Goto(w, "r_leave", IF read_tree - 1 = 0 THEN "r_last" ELSE "r_unlock_out")
    /\ read_tree' = read_tree - 1
    /\ UNCHANGED <<stock, byte_cnt, once, locks, locals, rest>>

ReadLast(w) ==
    /\ Goto(w, "r_last", "r_unlock_out")
    /\ V(w_tree)
    /\ UNCHANGED <<tree, mutex_read_tree, mutex_byte_cnt, locals, rest>>

ReadUnlockOut(w) ==
    /\ Goto(w, "r_unlock_out", "res")
    /\ V(mutex_read_tree)
    /\ UNCHANGED <<tree, w_tree, mutex_byte_cnt, locals, rest>>

\* Mutant: a buy or a sell does not take w_tree.
WriteWithoutLock(w) ==
    /\ Goto(w, "w_lock", "w_find")
    /\ UNCHANGED w_tree
    /\ UNCHANGED <<tree, mutex_read_tree, mutex_byte_cnt, locals, rest>>

\* buy and sell: P(&w_tree).
WriteLock(w) ==
    /\ Goto(w, "w_lock", "w_find")
    /\ P(w_tree)
    /\ UNCHANGED <<tree, mutex_read_tree, mutex_byte_cnt, locals, rest>>

\* find_key fails, or the stock left does not suffice.
WriteRefuse(w) ==
    /\ Goto(w, "w_find", "w_res")
    /\ \/ /\ cur[w].key \notin DOMAIN stock
          /\ res' = [res EXCEPT ![w] = Answer("nosuch")]
       \/ /\ cur[w].key \in DOMAIN stock
          /\ cur[w].op = "buy" /\ stock[cur[w].key] < cur[w].n
          /\ res' = [res EXCEPT ![w] = Answer("short")]
    /\ UNCHANGED <<tree, locks, cur, reg, seen, rest>>

\* find_key succeeds; a buy tests left_stock, which is its first access to it.
WriteFind(w) ==
    /\ Goto(w, "w_find", "w_load")
    /\ cur[w].key \in DOMAIN stock
    /\ cur[w].op = "buy" => stock[cur[w].key] >= cur[w].n
    /\ UNCHANGED <<tree, locks, locals, rest>>

\* The load of left_stock in -= or +=, after the test.
WriteLoad(w) ==
    /\ Goto(w, "w_load", "w_store")
    /\ reg' = [reg EXCEPT ![w] = stock[cur[w].key]]
    /\ UNCHANGED <<tree, locks, cur, seen, res, rest>>

\* The store of left_stock.
WriteStore(w) ==
    /\ Goto(w, "w_store", "w_res")
    /\ stock' = [stock EXCEPT ![cur[w].key] =
                    IF cur[w].op = "buy" THEN Wrap(reg[w] - cur[w].n)
                                         ELSE Wrap(reg[w] + cur[w].n)]
    /\ reg' = [reg EXCEPT ![w] = 0]
    /\ res' = [res EXCEPT ![w] = Answer("success")]
    /\ UNCHANGED <<read_tree, byte_cnt, once, locks, cur, seen, rest>>

\* res: the reply goes to the connection, or nowhere if the client is gone.
SendReply(w) ==
    /\ outbox' = [outbox EXCEPT ![held[w]] =
                     IF client[held[w]] = "waiting" THEN res[w] ELSE None]
    /\ cur' = [cur EXCEPT ![w] = None] /\ res' = [res EXCEPT ![w] = None]

\* The reply to a buy or a sell is sent before V(&w_tree).
WriteRes(w) ==
    /\ Goto(w, "w_res", "w_unlock")
    /\ SendReply(w)
    /\ UNCHANGED <<tree, locks, queue, held, reg, seen, mainvars, sigvars,
                   backlog, client, inbox, asked>>

WriteUnlock(w) ==
    /\ Goto(w, "w_unlock", "req")
    /\ V(w_tree)
    /\ UNCHANGED <<tree, mutex_read_tree, mutex_byte_cnt, locals, rest>>

Res(w) ==
    /\ Goto(w, "res", "req")
    /\ SendReply(w)
    /\ UNCHANGED <<tree, locks, queue, held, reg, seen, mainvars, sigvars,
                   backlog, client, inbox, asked>>

\* Close(connfd); what the client still sends is discarded.
CloseConn(w) ==
    /\ Goto(w, "close", "remove")
    /\ Sbuf!Release(w)
    /\ client' = [client EXCEPT ![held[w]] = "closed"]
    /\ inbox' = [inbox EXCEPT ![held[w]] = None]
    /\ UNCHANGED <<tree, locks, locals, mainvars, sigvars, backlog, outbox,
                   asked>>

Show(w) ==
    \/ ReadLockIn(w) \/ ReadEnter(w) \/ ReadFirst(w) \/ ReadUnlockIn(w)
    \/ ReadScan(w)
    \/ ReadLockOut(w) \/ ReadLeave(w) \/ ReadLast(w) \/ ReadUnlockOut(w)

Write(w) ==
    \/ WriteLock(w) \/ WriteRefuse(w) \/ WriteFind(w) \/ WriteLoad(w)
    \/ WriteStore(w) \/ WriteRes(w) \/ WriteUnlock(w)

Worker(w) ==
    \/ SbufRemove(w) \/ Once(w) \/ Req(w) \/ ReqEof(w) \/ ReqReset(w)
    \/ CntLock(w) \/ CntLoad(w) \/ CntStore(w) \/ CntUnlock(w)
    \/ Show(w) \/ Write(w) \/ Res(w) \/ CloseConn(w)

-----------------------------------------------------------------------------
(* SIGINT: the kernel delivers it to some thread that does not block it. *)

Sigint(t) ==
    /\ exited = "no" /\ sigints < MaxSigints
    /\ t \in Workers => mpc # "load"
    /\ hpc[t] = "off"
    /\ hpc' = [hpc EXCEPT ![t] = "scan"]
    /\ sigints' = sigints + 1
    /\ UNCHANGED <<tree, locks, queue, held, pc, locals, mainvars, hbuf,
                   stock_txt, exited, net>>

Handling(t, from, to) ==
    /\ exited = "no" /\ hpc[t] = from
    /\ hpc' = [hpc EXCEPT ![t] = to]
    /\ UNCHANGED <<tree, locks, queue, held, pc, locals, mainvars, sigints,
                   net>>

\* Mutant: the handler waits for w_tree.
LockingHandlerScan(t) ==
    /\ w_tree > 0
    /\ Handling(t, "scan", "scan")
    /\ DOMAIN hbuf[t] # DOMAIN stock
    /\ LET k == NextKey(DOMAIN hbuf[t]) IN
         hbuf' = [hbuf EXCEPT ![t] = Extend(hbuf[t], k, stock[k])]
    /\ UNCHANGED <<stock_txt, exited>>

\* print_in_buf(root, buff), one node at a time, with no lock.
HandlerScan(t) ==
    /\ Handling(t, "scan", "scan")
    /\ DOMAIN hbuf[t] # DOMAIN stock
    /\ LET k == NextKey(DOMAIN hbuf[t]) IN
         hbuf' = [hbuf EXCEPT ![t] = Extend(hbuf[t], k, stock[k])]
    /\ UNCHANGED <<stock_txt, exited>>

\* Mutant: the process exits with the text in the stream's buffer.
ExitBeforeClose(t) ==
    /\ Handling(t, "scan", "exit")
    /\ DOMAIN hbuf[t] = DOMAIN stock
    /\ stock_txt' = EmptyBook
    /\ UNCHANGED <<hbuf, exited>>

\* Fopen("stock.txt", "w") truncates the file.
HandlerOpen(t) ==
    /\ Handling(t, "scan", "close")
    /\ DOMAIN hbuf[t] = DOMAIN stock
    /\ stock_txt' = EmptyBook
    /\ UNCHANGED <<hbuf, exited>>

\* Fputs fills the stream's buffer and Fclose writes it.
HandlerClose(t) ==
    /\ Handling(t, "close", "exit")
    /\ stock_txt' = hbuf[t]
    /\ UNCHANGED <<hbuf, exited>>

HandlerExit(t) ==
    /\ Handling(t, "exit", "exit")
    /\ exited' = "sigint"
    /\ UNCHANGED <<hbuf, stock_txt>>

Handler(t) == HandlerScan(t) \/ HandlerOpen(t) \/ HandlerClose(t) \/ HandlerExit(t)

-----------------------------------------------------------------------------
(* The clients: stockclient and multiclient send a request, wait for its    *)
(* reply, and close the connection.                                         *)

Connect(c) ==
    /\ client[c] = "off" /\ mpc # "load" /\ exited = "no"
    /\ client' = [client EXCEPT ![c] = "idle"]
    /\ backlog' = backlog \cup {c}
    /\ UNCHANGED <<tree, locks, queue, held, pc, locals, mainvars, sigvars,
                   inbox, outbox, asked>>

Send(c) ==
    /\ client[c] = "idle" /\ asked[c] < MaxRequests
    /\ \E r \in Requests : inbox' = [inbox EXCEPT ![c] = r]
    /\ client' = [client EXCEPT ![c] = "waiting"]
    /\ asked' = [asked EXCEPT ![c] = @ + 1]
    /\ UNCHANGED <<tree, locks, queue, held, pc, locals, mainvars, sigvars,
                   backlog, outbox>>

Receive(c) ==
    /\ client[c] = "waiting" /\ outbox[c] # None
    /\ client' = [client EXCEPT ![c] = "idle"]
    /\ outbox' = [outbox EXCEPT ![c] = None]
    /\ UNCHANGED <<tree, locks, queue, held, pc, locals, mainvars, sigvars,
                   backlog, inbox, asked>>

Leave(c) ==
    /\ client[c] = "idle"
    /\ client' = [client EXCEPT ![c] = "closed"]
    /\ UNCHANGED <<tree, locks, queue, held, pc, locals, mainvars, sigvars,
                   backlog, inbox, outbox, asked>>

\* The client is killed between its request and the reply.
Abort(c) ==
    /\ c \in MayAbort /\ client[c] = "waiting"
    /\ client' = [client EXCEPT ![c] = "killed"]
    /\ outbox' = [outbox EXCEPT ![c] = None]
    /\ UNCHANGED <<tree, locks, queue, held, pc, locals, mainvars, sigvars,
                   backlog, inbox, asked>>

Client(c) == Connect(c) \/ Send(c) \/ Receive(c) \/ Leave(c) \/ Abort(c)

-----------------------------------------------------------------------------
Next ==
    \/ Main
    \/ \E w \in Workers : Worker(w)
    \/ \E t \in Threads : Sigint(t) \/ Handler(t)
    \/ \E c \in Conns : Client(c)

Spec == Init /\ [][Next]_vars

(***************************************************************************)
(* Every thread is scheduled, and a thread that waits for a semaphore that *)
(* stays positive gets it.  A client reads its replies and, as multiclient *)
(* does, goes on until it closes the connection; no client has to connect  *)
(* and no signal has to arrive.                                            *)
(***************************************************************************)
Fairness ==
    /\ WF_vars(Main)
    /\ \A w \in Workers : WF_vars(Worker(w))
    /\ \A t \in Threads : WF_vars(Handler(t))
    /\ \A c \in Conns : WF_vars(Receive(c)) /\ WF_vars(Send(c) \/ Leave(c))

FairSpec == Spec /\ Fairness

-----------------------------------------------------------------------------
(* Properties *)

Labels == {"remove", "once", "req", "cnt_lock", "cnt_load", "cnt_store",
           "cnt_unlock", "r_lock_in", "r_enter", "r_first", "r_unlock_in",
           "r_scan", "r_lock_out", "r_leave", "r_last", "r_unlock_out",
           "w_lock", "w_find", "w_load", "w_store", "w_res", "w_unlock", "res", "close"}

\* Where a worker holds mutex_read_tree, is counted in read_tree, shares the
\* readers' hold of w_tree, and holds w_tree as a writer.
Entering == {"r_enter", "r_first", "r_unlock_in", "r_leave", "r_last", "r_unlock_out"}
Counted == {"r_first", "r_unlock_in", "r_scan", "r_lock_out", "r_leave"}
Sharing == {"r_unlock_in", "r_scan", "r_lock_out", "r_leave", "r_last"}
Writing == {"w_find", "w_load", "w_store", "w_res", "w_unlock"}

\* Type invariant.
TypeOK ==
    /\ {stock, stock_txt} \subseteq Books
    /\ read_tree \in Nat /\ byte_cnt \in Nat /\ once \in BOOLEAN
    /\ {w_tree, mutex_read_tree, mutex_byte_cnt} \subseteq 0..1
    /\ queue \in Seq(Conns) /\ held \in [Workers -> Conns \cup {NoConn}]
    /\ pc \in [Workers -> Labels]
    /\ cur \in [Workers -> Requests \cup {None}]
    /\ res \in [Workers -> Replies \cup {None}]
    /\ reg \in [Workers -> Int] /\ seen \in [Workers -> Books]
    /\ hbuf \in [Threads -> Books]
    /\ mpc \in {"load", "accept", "insert"} /\ accepted \in Conns \cup {NoConn}
    /\ hpc \in [Threads -> {"off", "scan", "close", "exit"}]
    /\ exited \in {"no", "sigint", "error"} /\ sigints \in 0..MaxSigints
    /\ client \in [Conns -> {"off", "idle", "waiting", "closed", "killed"}]
    /\ backlog \subseteq Conns
    /\ inbox \in [Conns -> Requests \cup {None}]
    /\ outbox \in [Conns -> Replies \cup {None}]
    /\ asked \in [Conns -> 0..MaxRequests]

\* "While a thread modifies the treap nobody else reads or writes it": no worker
\* is between its P and its V of a buy or a sell while another one writes or
\* prints the tree (stockserver.c:65-70).
TreeExclusion ==
    \A v, w \in Workers :
        v # w /\ pc[v] \in Writing => pc[w] \notin Writing \cup {"r_scan"}

\* Why: the protocol of the two semaphores of the tree.  The first reader in takes
\* w_tree for all of them, with nobody else counted; the last one out, and only
\* the last one, gives it back; the count is exact; and nothing is held by anybody
\* before the one initialisation by Pthread_once.
At(labels) == {w \in Workers : pc[w] \in labels}

LockInv ==
    /\ ~once => /\ w_tree = 0 /\ mutex_read_tree = 0
                /\ \A w \in Workers : pc[w] \in {"remove", "once"}
    /\ read_tree = Cardinality(At(Counted))
    /\ \A v, w \in At(Entering) : v = w
    /\ At(Entering) # {} => mutex_read_tree = 0
    /\ \A v, w \in At(Writing) : v = w
    /\ At(Writing) # {} => At(Sharing) = {}
    /\ At(Writing) \cup At(Sharing) # {} => w_tree = 0
    /\ \A w \in Workers :
         /\ pc[w] = "r_first" => At(Counted) = {w}
         /\ pc[w] = "r_last" => At(Sharing) = {w}

Sent == {r \in Conns \X (1..MaxRequests) : r[2] <= asked[r[1]]}

\* Each request is counted once in byte_cnt: no update of two workers is lost.
ByteCountExact ==
    Cardinality(Sent) =
        byte_cnt + Cardinality({c \in Conns : inbox[c] # None})
                 + Cardinality({w \in Workers :
                                  pc[w] \in {"cnt_lock", "cnt_load", "cnt_store"}})

\* An open connection is in one place: the backlog of the listening socket, main's
\* connfd, one slot of the buffer, or the hands of the one worker that serves it.
Open(c) == client[c] \in {"idle", "waiting", "killed"}
Slots(c) == {i \in DOMAIN queue : queue[i] = c}
Holders(c) == {w \in Workers : held[w] = c}

OneServer ==
    \A c \in Conns :
        /\ Open(c) => c \in backlog \cup {accepted} \/ Slots(c) # {} \/ Holders(c) # {}
        /\ c \in backlog => c # accepted
        /\ c \in backlog \cup {accepted} => Slots(c) = {} /\ Holders(c) = {}
        /\ Slots(c) # {} => Holders(c) = {}
        /\ \A i, j \in Slots(c) : i = j
        /\ \A v, w \in Holders(c) : v = w

\* What the clients see: a request is pending until its one commit step.
Serving(c) == {w \in Workers : held[w] = c /\ cur[w] # None}
Server(c) == CHOOSE w \in Serving(c) : TRUE
Pending(c) ==
    IF inbox[c] # None THEN inbox[c]
    ELSE IF Serving(c) # {} /\ res[Server(c)] = None THEN cur[Server(c)] ELSE None
Replied(c) ==
    IF outbox[c] # None THEN outbox[c]
    ELSE IF Serving(c) # {} THEN res[Server(c)] ELSE None

Book == INSTANCE StockBook WITH
    book <- [k \in Keys |-> IF k \in DOMAIN stock THEN stock[k] ELSE InitStock[k]],
    asked <- [c \in Conns |-> Pending(c)],
    reply <- [c \in Conns |-> Replied(c)]

\* Every request takes effect at one moment between its sending and its reply:
\* a show is a consistent copy of the whole tree, and no buy or sell is lost.
ImplementsBook == Book!Spec

\* A stock never goes below zero by buys and sells of natural amounts: what the
\* test of left_stock found (stockserver.c:124) still holds when it is loaded
\* again and the difference is stored, whatever other workers do in between.
NeverOversold == \A k \in DOMAIN stock : stock[k] >= 0

\* After one SIGINT outside the loading of the file, the file left behind lists
\* every stock: the process does not end between the truncation and the write.
SavedComplete ==
    exited = "sigint" /\ sigints = 1 /\ mpc # "load" => DOMAIN stock_txt = Keys

\* A client that waits is answered, unless the process ends or the client is
\* killed: the four semaphores lose no wakeup and deadlock with nobody.
EveryRequestAnswered ==
    \A c \in Conns : client[c] = "waiting" ~> (client[c] # "waiting" \/ exited # "no")

\* A SIGINT ends the process, whatever the interrupted thread holds.
SigintTerminates == sigints > 0 ~> exited # "no"
=============================================================================
