--------------------------- MODULE MCStockServer ---------------------------
(* Instances of StockServer for TLC. *)
EXTENDS StockServer, TLC

CONSTANTS w1, w2, a, b

TwoWorkers == {w1, w2}
TwoConns == {a, b}
TwoKeys == {1, 2}
OneKey == {1}
SmallStock == (1 :> 3) @@ (2 :> 1)
OneStock == 1 :> 3

Req1(op, k, m) == [op |-> op, key |-> k, n |-> m]
\* Stock 7 does not exist.
EveryKind == {Req1("show", 0, 0), Req1("buy", 1, 2), Req1("sell", 2, 1),
              Req1("buy", 7, 1), Req1("invalid", 0, 0)}
ShowSellExit == {Req1("show", 0, 0), Req1("sell", 1, 1), Req1("exit", 0, 0)}

Nobody == {}
OneMayAbort == {a}
=============================================================================
