----------------------------- MODULE MCHistogram -----------------------------
(* Three edges on four tiles: one edge per tile, and none on the last one.  *)
EXTENDS Sums

MCNodes  == [n \in 0 .. 8 |-> IF n < 3 THEN n ELSE 3]
MCEdges  == [e \in 0 .. 2 |-> 7 - e]
MCValues == [e \in 0 .. 2 |-> 1]
MCOut    == [q \in 1 .. 2 |-> 10]
MCIn     == [q \in 0 .. 2 |-> 10]
=============================================================================
