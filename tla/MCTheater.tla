---- MODULE MCTheater ----
(* A small instance of the terminal: the heartbeat asks, a visitor duels and races. *)
EXTENDS Theater

CONSTANT v1

SmallCap == [r \in Programs |-> IF r = "ask" THEN 0 ELSE 1]
====
