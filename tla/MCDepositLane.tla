---- MODULE MCDepositLane ----
(* Small instances of the bitcoin lane. *)
EXTENDS DepositLane

CONSTANTS d1, d2, timer, notify
====
