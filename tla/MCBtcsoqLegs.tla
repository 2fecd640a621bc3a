---- MODULE MCBtcsoqLegs ----
(* A small instance of the legs behind the mint. *)
EXTENDS BtcsoqLegs

CONSTANT k1

AllChains == Chains
====
