------------------------------- MODULE MCSbuf -------------------------------
(* An instance of Sbuf for TLC. *)
EXTENDS Sbuf

CONSTANTS p1, p2, c1, c2, d1, d2, d3

TwoProducers == {p1, p2}
TwoConsumers == {c1, c2}
ThreeItems == {d1, d2, d3}
=============================================================================
