---- MODULE MCChainWatchers ----
(* A small instance of the watchers and their queue. *)
EXTENDS ChainWatchers

CONSTANTS t1, t2, p1, p2
====
