---- MODULE MCLaneManager ----
(* Small instances of the lane manager. *)
EXTENDS LaneManager, TLC

CONSTANTS b1, b2, c1, c2, home

TwoLegacy == [a \in Addresses |-> 2]
Nets == b1 :> 1 @@ b2 :> 2

(* Coins are told apart by nothing but their rows.                         *)
SameCoins == Permutations(Coins)
====
