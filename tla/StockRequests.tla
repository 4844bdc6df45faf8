--------------------------- MODULE StockRequests ---------------------------
(***************************************************************************)
(* The requests of the stock protocol and the replies to them, shared by   *)
(* the abstract book and the servers.  The text of a line is abstracted to *)
(* what parseline and atoi make of it: an operation and two integers.      *)
(***************************************************************************)
EXTENDS Integers

CONSTANTS
    HalfRange,    \* an int holds -HalfRange .. HalfRange - 1
    None          \* no request, no reply

ASSUME StockRequestsAssumption == HalfRange \in Nat \ {0}

Ops == {"show", "buy", "sell", "exit", "invalid"}

\* The value an int holds after an addition or a subtraction (the build's
\* two's-complement wrap; overflow is undefined in C).
Wrap(x) == ((x + HalfRange) % (2 * HalfRange)) - HalfRange

EmptyBook == [k \in {} |-> 0]

\* A reply: the message, and for "show" the stocks that were printed.
Answer(kind) == [kind |-> kind, book |-> EmptyBook]
ShowAnswer(book) == [kind |-> "show", book |-> book]

\* The message of a buy or a sell that finds `left' in the node of its key.
Verdict(r, left) ==
    IF r.op = "buy" /\ left < r.n THEN "short" ELSE "success"

\* What it leaves in the node.
NewLeft(r, left) ==
    IF Verdict(r, left) = "short" THEN left
    ELSE IF r.op = "buy" THEN Wrap(left - r.n) ELSE Wrap(left + r.n)
=============================================================================
