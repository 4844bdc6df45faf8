---------------------------- MODULE EventServer ----------------------------
(***************************************************************************)
(* proj2/task1/stockserver.c: the event-driven stock server, one thread that *)
(* waits in select and then serves, slot by slot, the clients that are ready *)
(* to be read, with the Rio functions of csapp.c it reads and writes with,  *)
(* its clients, its SIGINT handler and a restart from stock.txt.            *)
(*                                                                          *)
(* A line is two pieces, its head and its newline, which may arrive apart;  *)
(* a reply is ReplyLen pieces of the MAXLINE bytes that res writes, and a   *)
(* socket holds SockBuf of them.  A step is one system call, or the local   *)
(* work between two.  byte_cnt, which is only printed, is left out.         *)
(***************************************************************************)
EXTENDS StockRequests, Treap, FiniteSets, FiniteSetsExt

CONSTANTS
    Conns, NoConn,       \* connections (each client connects once)
    StockKeys,           \* the stocks of stock.txt, integers
    InitStock,           \* left_stock of each in the first stock.txt
    Priorities,          \* what rand() returns
    RequestsOf,          \* the requests each client may send
    FD_SETSIZE,          \* slots of the pool
    ReplyLen, SockBuf,
    MaxRequests,         \* bound of the model: requests of one connection
    MaxSigints,          \* bound of the model: SIGINTs
    SigintAt,            \* where main may be when one comes
    MayAbort             \* the clients that may be killed

\* What parseline and atoi make of a line, and what res writes.
AnyRequest == [op : Ops, key : Int, n : Int]
ReplyKinds == {"show", "invalid", "nosuch", "short", "success"}
AnyReply == [kind : ReplyKinds,
             book : UNION {[K -> Int] : K \in SUBSET StockKeys}]

ASSUME EventServerAssumption ==
    /\ StockKeys \subseteq Int /\ IsFiniteSet(StockKeys) /\ Priorities \subseteq Nat
    /\ InitStock \in [StockKeys -> (-HalfRange)..(HalfRange - 1)]
    /\ FD_SETSIZE \in Nat \ {0} /\ ReplyLen \in Nat \ {0} /\ SockBuf \in Nat \ {0}
    /\ NoConn \notin Conns /\ MayAbort \subseteq Conns
    /\ \A c \in Conns : RequestsOf[c] \subseteq AnyRequest
    /\ NULL \notin StockKeys /\ None \notin AnyRequest \cup AnyReply

\* Descriptors: 0 to 2 are the standard streams, and a new one is the lowest free.
listenfd == 3
Fds == (listenfd + 1)..(listenfd + FD_SETSIZE + 1)
Slots == 0..(FD_SETSIZE - 1)

VARIABLES
    nodes, root,                                   \* the treap
    clientfd, read_set, ready_set, nready, maxi, maxfd,   \* the pool
    pc, i, rio, line, left,        \* main, the loop and locals of check_clients
    conn,                          \* the kernel's table of the open descriptors
    stock_txt, exited, sigints,    \* the file; how the process ended
    backlog, client, asked,        \* the connections: what their clients do,
    inbox, answer, outbox, got,    \*   the streams to and from the server,
    reset                          \*   and those a reset packet has arrived on

treap == <<nodes, root>>
pool == <<clientfd, read_set, ready_set, nready, maxi, maxfd>>
locals == <<i, rio, line, left>>
process == <<stock_txt, exited, sigints>>
net == <<backlog, client, asked, inbox, answer, outbox, got, reset>>
vars == <<treap, pool, pc, locals, conn, process, net>>

NoTree == [k \in {} |-> InitNode(0, 0)]

Init ==
    /\ nodes = NoTree /\ root = NULL
    /\ clientfd = [s \in Slots |-> -1] /\ read_set = {} /\ ready_set = {}
    /\ nready = 0 /\ maxi = -1 /\ maxfd = listenfd
    /\ pc = "load" /\ i = 0 /\ rio = <<>> /\ line = <<>> /\ left = 0
    /\ conn = [f \in Fds |-> NoConn]
    /\ stock_txt = InitStock /\ exited = "no" /\ sigints = 0
    /\ backlog = {} /\ client = [c \in Conns |-> "off"] /\ asked = [c \in Conns |-> 0]
    /\ inbox = [c \in Conns |-> <<>>] /\ answer = [c \in Conns |-> None]
    /\ outbox = [c \in Conns |-> 0] /\ got = [c \in Conns |-> 0] /\ reset = {}

Goto(from, to) == exited = "no" /\ pc = from /\ pc' = to

Gone(c) == client[c] \in {"closed", "killed"}

-----------------------------------------------------------------------------
(* main *)

\* One line of stock.txt becomes a node of the treap.
Load ==
    /\ Goto("load", "load")
    /\ \E k \in DOMAIN stock_txt \ DOMAIN nodes, p \in Priorities :
         LET grown == [x \in DOMAIN nodes \cup {k} |->
                          IF x = k THEN InitNode(stock_txt[k], p) ELSE nodes[x]]
             r == Insert(grown, root, k)
         IN nodes' = r.t /\ root' = r.root
    /\ UNCHANGED <<pool, locals, conn, process, net>>

\* The file is read: Open_listenfd and init_pool.
InitPool ==
    /\ Goto("load", "select")
    /\ DOMAIN nodes = DOMAIN stock_txt
    /\ maxi' = -1 /\ maxfd' = listenfd /\ read_set' = {listenfd}
    /\ clientfd' = [s \in Slots |-> -1]
    /\ UNCHANGED <<treap, ready_set, nready, locals, conn, process, net>>

Readable(f) ==
    IF f = listenfd THEN backlog # {}
    ELSE conn[f] # NoConn /\ (inbox[conn[f]] # <<>> \/ Gone(conn[f]))

\* ready_set = read_set; Select on the descriptors below maxfd + 1.
Select ==
    LET ready == {f \in read_set : f < maxfd + 1 /\ Readable(f)} IN
    /\ Goto("select", IF listenfd \in ready THEN "accept" ELSE "check")
    /\ ready # {}
    /\ ready_set' = ready /\ nready' = Cardinality(ready) /\ i' = 0
    /\ UNCHANGED <<treap, clientfd, read_set, maxi, maxfd, rio, line, left, conn,
                   process, net>>

FreeFd == CHOOSE f \in Fds : conn[f] = NoConn /\ \A g \in Fds : g < f => conn[g] # NoConn

\* Mutant: maxi is not updated.
AddClientBeyondMaxi(fd) ==
    LET s == CHOOSE s \in Slots : clientfd[s] < 0 /\ \A t \in Slots : t < s => clientfd[t] >= 0
    IN /\ clientfd' = [clientfd EXCEPT ![s] = fd]
       /\ read_set' = read_set \cup {fd}
       /\ maxfd' = IF fd > maxfd THEN fd ELSE maxfd
       /\ maxi' = IF maxi = -1 THEN s ELSE maxi

\* Mutant: the descriptor is not put in read_set.
AddClientUnset(fd) ==
    LET s == CHOOSE s \in Slots : clientfd[s] < 0 /\ \A t \in Slots : t < s => clientfd[t] >= 0
    IN /\ clientfd' = [clientfd EXCEPT ![s] = fd]
       /\ UNCHANGED read_set
       /\ maxfd' = IF fd > maxfd THEN fd ELSE maxfd
       /\ maxi' = IF s > maxi THEN s ELSE maxi

\* add_client: the first free slot of the pool.
AddClient(fd) ==
    LET s == CHOOSE s \in Slots : clientfd[s] < 0 /\ \A t \in Slots : t < s => clientfd[t] >= 0
    IN /\ clientfd' = [clientfd EXCEPT ![s] = fd]
       /\ read_set' = read_set \cup {fd}
       /\ maxfd' = IF fd > maxfd THEN fd ELSE maxfd
       /\ maxi' = IF s > maxi THEN s ELSE maxi

\* Mutant: the accepted connection is still counted as ready.
AcceptUncounted ==
    /\ Goto("accept", "check")
    /\ \E s \in Slots : clientfd[s] < 0
    /\ \E c \in backlog : backlog' = backlog \ {c} /\ conn' = [conn EXCEPT ![FreeFd] = c]
    /\ AddClient(FreeFd)
    /\ UNCHANGED <<nready, treap, ready_set, locals, process, client, asked, inbox,
                   answer, outbox, got, reset>>

Accept ==
    /\ Goto("accept", "check")
    /\ \E s \in Slots : clientfd[s] < 0
    /\ \E c \in backlog : backlog' = backlog \ {c} /\ conn' = [conn EXCEPT ![FreeFd] = c]
    /\ AddClient(FreeFd)
    /\ nready' = nready - 1
    /\ UNCHANGED <<treap, ready_set, locals, process, client, asked, inbox, answer,
                   outbox, got, reset>>

\* app_error("Too many clients") ends the server.
TooMany ==
    /\ Goto("accept", "accept")
    /\ \A s \in Slots : clientfd[s] >= 0
    /\ exited' = "error"
    /\ UNCHANGED <<treap, pool, locals, conn, stock_txt, sigints, net>>

-----------------------------------------------------------------------------
(* check_clients *)

\* The slots the loop still has to serve.
Todo == {s \in i..maxi : clientfd[s] > 0 /\ clientfd[s] \in ready_set}
Serving == conn[clientfd[i]]

\* Rio_readinitb: an empty buffer.
Readinitb == rio' = <<>>

\* The loop reaches a client that is ready.  Its Rio buffer is copied as
\* Rio_readinitb left it, empty: the copy is never stored back.
NextClient ==
    /\ Goto("check", "read")
    /\ nready > 0 /\ Todo # {}
    /\ i' = Min(Todo) /\ nready' = nready - 1
    /\ Readinitb /\ line' = <<>>
    /\ UNCHANGED <<treap, clientfd, read_set, ready_set, maxi, maxfd, left, conn,
                   process, net>>

RoundDone ==
    /\ Goto("check", "select")
    /\ nready <= 0 \/ Todo = {}
    /\ i' = 0 /\ rio' = <<>> /\ ready_set' = {} /\ nready' = 0
    /\ UNCHANGED <<treap, clientfd, read_set, maxi, maxfd, line, left, conn, process,
                   net>>

Whole(l) == l # <<>> /\ l[Len(l)].end
Eof(c) == inbox[c] = <<>> /\ Gone(c) /\ c \notin reset

\* rio_read: the buffer is empty, and read() takes what the socket holds.
Refill ==
    /\ Goto("read", "read")
    /\ rio = <<>> /\ ~Whole(line) /\ inbox[Serving] # <<>>
    /\ rio' = inbox[Serving]
    /\ inbox' = [inbox EXCEPT ![Serving] = <<>>]
    /\ UNCHANGED <<treap, pool, i, line, left, conn, process, backlog, client, asked,
                   answer, outbox, got, reset>>

\* rio_readlineb takes the bytes of the buffer up to a newline.
ReadLine ==
    LET ends == {n \in DOMAIN rio : rio[n].end}
        n == IF ends = {} THEN Len(rio) ELSE Min(ends)
    IN /\ Goto("read", "read")
       /\ rio # <<>> /\ ~Whole(line)
       /\ line' = line \o SubSeq(rio, 1, n) /\ rio' = SubSeq(rio, n + 1, Len(rio))
       /\ UNCHANGED <<treap, pool, i, left, conn, process, net>>

\* unix_error: the connection was reset while the server had nothing to read.
ReadError ==
    /\ Goto("read", "read")
    /\ rio = <<>> /\ ~Whole(line) /\ inbox[Serving] = <<>> /\ Serving \in reset
    /\ exited' = "error"
    /\ UNCHANGED <<treap, pool, locals, conn, stock_txt, sigints, net>>

\* Close(connfd), FD_CLR and a free slot; the client sees the end of the stream.
Close ==
    /\ conn' = [conn EXCEPT ![clientfd[i]] = NoConn]
    /\ clientfd' = [clientfd EXCEPT ![i] = -1]
    /\ read_set' = read_set \ {clientfd[i]}
    /\ client' = [client EXCEPT ![Serving] = IF @ = "waiting" THEN "closed" ELSE @]
    /\ i' = i + 1

\* req returns 0: the client has closed the connection.
ReqEof ==
    /\ Goto("read", "check")
    /\ rio = <<>> /\ line = <<>> /\ Eof(Serving)
    /\ Close
    /\ UNCHANGED <<treap, ready_set, nready, maxi, maxfd, rio, line, left, process,
                   backlog, asked, inbox, answer, outbox, got, reset>>

\* The request of a line.  parseline overwrites the last character, newline or
\* not: a line cut short by the end of the stream is one character shorter.
Parse(l) == IF Whole(l) THEN l[Len(l)].req ELSE l[1].cut

\* A line is read, whole or cut short by the end of the stream.
LineRead == Whole(line) \/ (line # <<>> /\ rio = <<>> /\ Eof(Serving))

ExitRequest ==
    /\ Goto("read", "check")
    /\ LineRead /\ Parse(line).op = "exit"
    /\ Close
    /\ line' = <<>>
    /\ UNCHANGED <<treap, ready_set, nready, maxi, maxfd, rio, left, process, backlog,
                   asked, inbox, answer, outbox, got, reset>>

\* What the rest of the line does: the reply, and the node it changes.
Reply(r) ==
    LET n == FindKey(nodes, root, r.key) IN
    IF r.op = "invalid" THEN Answer("invalid")
    ELSE IF r.op = "show"
    THEN ShowAnswer([k \in KeysOf(nodes, root) |-> nodes[k].left_stock])
    ELSE IF n = NULL THEN Answer("nosuch")
    ELSE Answer(Verdict(r, nodes[n].left_stock))

Carry(r) ==
    LET n == FindKey(nodes, root, r.key) IN
    nodes' = IF r.op \in {"buy", "sell"} /\ n # NULL
             THEN [nodes EXCEPT ![n].left_stock = NewLeft(r, @)]
             ELSE nodes

ServeLine ==
    LET r == Parse(line) IN
    /\ Goto("read", "res")
    /\ LineRead /\ r.op # "exit"
    /\ Carry(r)
    /\ answer' = [answer EXCEPT ![Serving] = Reply(r)]
    /\ left' = ReplyLen /\ line' = <<>>
    /\ UNCHANGED <<root, pool, i, rio, conn, process, backlog, client, asked, inbox,
                   outbox, got, reset>>

\* rio_writen: one write() of what the socket has room for, here a piece.
Write ==
    /\ Goto("res", IF left = 1 THEN "check" ELSE "res")
    /\ Serving \notin reset /\ outbox[Serving] < SockBuf
    /\ outbox' = [outbox EXCEPT ![Serving] = @ + 1]
    /\ left' = left - 1 /\ i' = IF left = 1 THEN i + 1 ELSE i
    /\ UNCHANGED <<treap, pool, rio, line, conn, process, backlog, client, asked,
                   inbox, answer, got, reset>>

\* A write to a connection that was reset: SIGPIPE, or unix_error.
WriteError ==
    /\ Goto("res", "res")
    /\ Serving \in reset
    /\ exited' = "error"
    /\ UNCHANGED <<treap, pool, locals, conn, stock_txt, sigints, net>>

Server ==
    \/ Load \/ InitPool \/ Select \/ Accept \/ TooMany
    \/ NextClient \/ RoundDone \/ Refill \/ ReadLine \/ ReadError
    \/ ReqEof \/ ExitRequest \/ ServeLine \/ Write \/ WriteError

-----------------------------------------------------------------------------
(* SIGINT and restart *)

\* Mutant: the handler writes the root only.
SaveRoot == stock_txt' = [k \in DOMAIN nodes \cap {root} |-> nodes[k].left_stock]

\* update_stock_txt
Save == stock_txt' = [k \in KeysOf(nodes, root) |-> nodes[k].left_stock]

\* The handler runs on the only thread, with every signal blocked, and exits.
Sigint ==
    /\ exited = "no" /\ sigints < MaxSigints /\ pc \in SigintAt
    /\ Save
    /\ exited' = "sigint" /\ sigints' = sigints + 1
    /\ UNCHANGED <<treap, pool, pc, locals, conn, net>>

\* What c has sent and the server has not carried out.
Stream(c) ==
    (IF pc = "read" /\ Serving = c THEN line \o rio ELSE <<>>) \o inbox[c]

\* The server is started again, here when no request was in flight.
Restart ==
    /\ exited = "sigint"
    /\ \A c \in Conns : client[c] \notin {"sending", "waiting"} /\ Stream(c) = <<>>
    /\ exited' = "no" /\ pc' = "load"
    /\ nodes' = NoTree /\ root' = NULL
    /\ clientfd' = [s \in Slots |-> -1] /\ read_set' = {} /\ ready_set' = {}
    /\ nready' = 0 /\ maxi' = -1 /\ maxfd' = listenfd
    /\ i' = 0 /\ rio' = <<>> /\ line' = <<>> /\ left' = 0
    /\ conn' = [f \in Fds |-> NoConn]
    /\ backlog' = {}
    /\ client' = [c \in Conns |-> IF client[c] = "idle" THEN "closed" ELSE client[c]]
    /\ UNCHANGED <<stock_txt, sigints, asked, inbox, answer, outbox, got, reset>>

-----------------------------------------------------------------------------
(* The clients: stockclient and multiclient send one line, read MAXLINE    *)
(* bytes of reply, and in the end close the connection.                    *)

Connect(c) ==
    /\ client[c] = "off" /\ pc # "load" /\ exited = "no"
    /\ client' = [client EXCEPT ![c] = "idle"]
    /\ backlog' = backlog \cup {c}
    /\ UNCHANGED <<treap, pool, pc, locals, conn, process, asked, inbox, answer,
                   outbox, got, reset>>

\* m without its last digit, or its last two.
Short(m, d) == IF m < 0 THEN -((-m) \div d) ELSE m \div d

\* What a line of r means when a client dies after some of its characters: the
\* amount loses digits, or the line is no request any more.
Invalid == [op |-> "invalid", key |-> 0, n |-> 0]
Cuts(r) ==
    {Invalid} \cup {[r EXCEPT !.n = m] :
                      m \in {x \in {Short(r.n, 10), Short(r.n, 100)} \ {0} : r.op \in {"buy", "sell"}}}

Line(r, cut) == <<[req |-> r, cut |-> cut, end |-> FALSE],
                  [req |-> r, cut |-> Invalid, end |-> TRUE]>>

SendHead(c) ==
    /\ exited = "no" /\ client[c] = "idle" /\ asked[c] < MaxRequests
    /\ \E r \in RequestsOf[c] : \E cut \in Cuts(r) :
         inbox' = [inbox EXCEPT ![c] = Append(@, Line(r, cut)[1])]
    /\ client' = [client EXCEPT ![c] = "sending"]
    /\ asked' = [asked EXCEPT ![c] = @ + 1]
    /\ UNCHANGED <<treap, pool, pc, locals, conn, process, backlog, answer, outbox,
                   got, reset>>

\* The newline of the request that c is sending.
SendTail(c) ==
    /\ exited = "no" /\ client[c] = "sending"
    /\ LET s == Stream(c) IN
         inbox' = [inbox EXCEPT ![c] = Append(@, Line(s[Len(s)].req, Invalid)[2])]
    /\ client' = [client EXCEPT ![c] = "waiting"]
    /\ UNCHANGED <<treap, pool, pc, locals, conn, process, backlog, asked, answer,
                   outbox, got, reset>>

\* Mutant: the client goes on to read after the last piece.
ReceiveOneMore(c) ==
    LET done == got[c] = ReplyLen IN
    /\ client[c] = "waiting" /\ outbox[c] > 0
    /\ outbox' = [outbox EXCEPT ![c] = @ - 1]
    /\ got' = [got EXCEPT ![c] = IF done THEN 0 ELSE @ + 1]
    /\ answer' = [answer EXCEPT ![c] = IF done THEN None ELSE @]
    /\ client' = [client EXCEPT ![c] = IF done THEN "idle" ELSE @]
    /\ UNCHANGED <<treap, pool, pc, locals, conn, process, backlog, asked, inbox, reset>>

\* Rio_readnb: pieces until the reply is complete.
Receive(c) ==
    LET done == got[c] + 1 = ReplyLen IN
    /\ client[c] = "waiting" /\ outbox[c] > 0
    /\ outbox' = [outbox EXCEPT ![c] = @ - 1]
    /\ got' = [got EXCEPT ![c] = IF done THEN 0 ELSE @ + 1]
    /\ answer' = [answer EXCEPT ![c] = IF done THEN None ELSE @]
    /\ client' = [client EXCEPT ![c] = IF done THEN "idle" ELSE @]
    /\ UNCHANGED <<treap, pool, pc, locals, conn, process, backlog, asked, inbox, reset>>

Leave(c) ==
    /\ exited = "no" /\ client[c] = "idle"
    /\ client' = [client EXCEPT ![c] = "closed"]
    /\ UNCHANGED <<treap, pool, pc, locals, conn, process, backlog, asked, inbox,
                   answer, outbox, got, reset>>

\* The client is killed in the middle of its line or of its reply.
Abort(c) ==
    /\ exited = "no" /\ c \in MayAbort /\ client[c] \in {"sending", "waiting"}
    /\ client' = [client EXCEPT ![c] = "killed"]
    /\ answer' = [answer EXCEPT ![c] = None] /\ got' = [got EXCEPT ![c] = 0]
    /\ UNCHANGED <<treap, pool, pc, locals, conn, process, backlog, asked, inbox,
                   outbox, reset>>

\* Its kernel answers what it will never read with a reset.
Reset(c) ==
    /\ client[c] = "killed" /\ outbox[c] > 0 /\ c \notin reset
    /\ reset' = reset \cup {c}
    /\ UNCHANGED <<treap, pool, pc, locals, conn, process, backlog, client, asked,
                   inbox, answer, outbox, got>>

Client(c) ==
    Connect(c) \/ SendHead(c) \/ SendTail(c) \/ Receive(c) \/ Leave(c) \/ Abort(c) \/ Reset(c)

-----------------------------------------------------------------------------
Next == Server \/ Sigint \/ Restart \/ \E c \in Conns : Client(c)

Spec == Init /\ [][Next]_vars

(***************************************************************************)
(* The thread runs; a client that began a line ends it, reads its reply and *)
(* goes on until it closes; a reset that is due arrives.  Nobody has to     *)
(* connect, to be killed, to send a SIGINT or to restart the server.        *)
(***************************************************************************)
Fairness ==
    /\ WF_vars(Server)
    /\ \A c \in Conns :
         WF_vars(SendHead(c) \/ SendTail(c) \/ Receive(c) \/ Leave(c) \/ Reset(c))

FairSpec == Spec /\ Fairness

-----------------------------------------------------------------------------
(* Properties *)

AnInt == (-HalfRange)..(HalfRange - 1)

IsBook(book) == DOMAIN book \subseteq StockKeys /\ \A k \in DOMAIN book : book[k] \in AnInt

\* Type invariant.
TypeOK ==
    /\ DOMAIN nodes \subseteq StockKeys /\ root \in DOMAIN nodes \cup {NULL}
    /\ \A k \in DOMAIN nodes : nodes[k].left_stock \in AnInt
    /\ IsBook(stock_txt)
    /\ clientfd \in [Slots -> Fds \cup {-1}] /\ maxi \in Slots \cup {-1}
    /\ read_set \subseteq Fds \cup {listenfd} /\ maxfd \in Fds \cup {listenfd}
    /\ ready_set \subseteq Fds \cup {listenfd} /\ nready \in 0..(FD_SETSIZE + 1)
    /\ pc \in {"load", "select", "accept", "check", "read", "res"}
    /\ conn \in [Fds -> Conns \cup {NoConn}]
    /\ exited \in {"no", "sigint", "error"}
    /\ client \in [Conns -> {"off", "idle", "sending", "waiting", "closed", "killed"}]
    /\ backlog \subseteq Conns /\ reset \subseteq Conns
    /\ \A c \in Conns :
         answer[c] # None => answer[c].kind \in ReplyKinds /\ IsBook(answer[c].book)
    /\ left \in 0..ReplyLen
    /\ outbox \in [Conns -> 0..SockBuf] /\ got \in [Conns -> 0..(ReplyLen - 1)]

\* The treap survives any order of insertions and any priorities, finds each key
\* and no other, and would survive the removal of any key (treap.c).
TreapOK ==
    pc = "load" =>
      /\ IsTreap(nodes, root, DOMAIN nodes)
      /\ \A k \in StockKeys :
           LET e == Erase(nodes, root, k) IN
           /\ FindKey(nodes, root, k) = IF k \in DOMAIN nodes THEN k ELSE NULL
           /\ IsTreap(e.t, e.root, DOMAIN nodes \ {k})

\* The pool is the open descriptors: each has one slot, which the loop up to maxi
\* and the select up to maxfd reach, and a closed descriptor, which the next
\* accept gives to another client, is in neither (stockserver.c:67-98, 166-181).
PoolConsistent ==
    LET open == {f \in Fds : conn[f] # NoConn} IN
    pc # "load" =>
        /\ read_set = open \cup {listenfd}
        /\ {clientfd[s] : s \in Slots} \ {-1} = open
        /\ \A s, t \in Slots : s # t /\ clientfd[s] = clientfd[t] => clientfd[s] = -1
        /\ \A s \in Slots : clientfd[s] # -1 => s <= maxi /\ clientfd[s] <= maxfd
        /\ \A f, g \in open : f # g => conn[f] # conn[g]

\* nready counts what is left to serve: the loop neither ends before the last ready
\* client nor begins to read a client that has sent nothing, on which it would
\* block with every other client (stockserver.c:77, 104-110).
ReadyExact ==
    /\ pc = "check" => /\ nready = Cardinality(Todo)
                       /\ \A s \in Todo : Readable(clientfd[s])
    /\ pc = "read" => line # <<>> \/ rio # <<>> \/ Readable(clientfd[i])

\* What the clients see.  A request is pending once its line is complete, or its
\* client died in the middle of it, until it is carried out.
Pending(c) ==
    LET s == Stream(c) IN
    IF s = <<>> THEN None
    ELSE IF Whole(s) THEN s[Len(s)].req
    ELSE IF client[c] = "killed" THEN s[1].cut ELSE None

Book == INSTANCE StockBook WITH
    Keys <- StockKeys,
    Requests <- UNION {{r} \cup Cuts(r) : r \in UNION {RequestsOf[c] : c \in Conns}},
    book <- [k \in StockKeys |-> IF k \in DOMAIN nodes THEN nodes[k].left_stock
                                 ELSE IF k \in DOMAIN stock_txt THEN stock_txt[k] ELSE 0],
    asked <- [c \in Conns |-> Pending(c)],
    reply <- answer

\* Each request, whole or cut short by the death of its client, takes effect once,
\* at one moment before its reply; and the book outlives a SIGINT and a restart.
ImplementsBook == Book!Spec

\* A client that waits is answered or the process has ended, although one thread
\* serves all, reads a line to its end and writes a reply to its end.
EveryRequestAnswered ==
    \A c \in Conns : client[c] = "waiting" ~> (client[c] # "waiting" \/ exited # "no")

\* What the rest of a run depends on: not the shape of a treap that is complete.
View == <<IF pc = "load" THEN treap ELSE <<[k \in DOMAIN nodes |-> nodes[k].left_stock]>>,
          pool, pc, locals, conn, process, net>>
=============================================================================
