----------------------------- MODULE StockBook -----------------------------
(***************************************************************************)
(* What the stock server promises its clients: one book of stocks, on which *)
(* each request takes effect at one moment between the time it is sent and *)
(* the time its reply is received.  A show returns the whole book as it is *)
(* at that moment; a buy or a sell reads and writes one stock in one step. *)
(***************************************************************************)
EXTENDS StockRequests

CONSTANTS Conns, Keys, InitStock, Requests

VARIABLES
    book,      \* the number of each stock that is left
    asked,     \* asked[c]: the request of c that has had no effect yet, or None
    reply      \* reply[c]: the reply c has not received yet, or None

vars == <<book, asked, reply>>

Init ==
    /\ book = InitStock
    /\ asked = [c \in Conns |-> None]
    /\ reply = [c \in Conns |-> None]

Ask(c) ==
    /\ asked[c] = None /\ reply[c] = None
    /\ \E r \in Requests : asked' = [asked EXCEPT ![c] = r]
    /\ UNCHANGED <<book, reply>>

Take(c) == asked[c] # None /\ asked' = [asked EXCEPT ![c] = None]

Show(c) ==
    /\ Take(c)
    /\ asked[c].op = "show"
    /\ reply' = [reply EXCEPT ![c] = ShowAnswer(book)]
    /\ UNCHANGED book

Trade(c) ==
    /\ Take(c)
    /\ asked[c].op \in {"buy", "sell"} /\ asked[c].key \in Keys
    /\ LET r == asked[c]  left == book[r.key] IN
         /\ book' = [book EXCEPT ![r.key] = NewLeft(r, left)]
         /\ reply' = [reply EXCEPT ![c] = Answer(Verdict(r, left))]

Refuse(c) ==
    /\ Take(c)
    /\ \/ asked[c].op \in {"buy", "sell"} /\ asked[c].key \notin Keys
          /\ reply' = [reply EXCEPT ![c] = Answer("nosuch")]
       \/ asked[c].op = "invalid"
          /\ reply' = [reply EXCEPT ![c] = Answer("invalid")]
    /\ UNCHANGED book

\* An exit has no reply.
Exit(c) ==
    /\ Take(c)
    /\ asked[c].op = "exit"
    /\ UNCHANGED <<book, reply>>

\* The client has its reply, or is gone.
Receive(c) ==
    /\ reply[c] # None
    /\ reply' = [reply EXCEPT ![c] = None]
    /\ UNCHANGED <<book, asked>>

Next == \E c \in Conns :
    Ask(c) \/ Show(c) \/ Trade(c) \/ Refuse(c) \/ Exit(c) \/ Receive(c)

Spec == Init /\ [][Next]_vars
=============================================================================
