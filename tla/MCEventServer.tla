--------------------------- MODULE MCEventServer ---------------------------
(* Instances of EventServer for TLC. *)
EXTENDS EventServer, TLC

CONSTANTS a, b, c

ThreeConns == {a, b, c}
OneMayAbort == {a}
ThreeKeys == {1, 2, 3}
SmallStock == (1 :> 14) @@ (2 :> 1) @@ (3 :> 0)
TwoPriorities == {0, 1}

Req1(op, k, m) == [op |-> op, key |-> k, n |-> m]
\* 12 is the smallest kind of amount a cut turns into another; stock 7 does not exist.
Mixed == (a :> {Req1("buy", 1, 12)}) @@ (b :> {Req1("show", 0, 0), Req1("exit", 0, 0)})
         @@ (c :> {})
Served == {"select", "res"}
=============================================================================
