---- MODULE MCBurnRelease ----
(* Small instances of the Solana lane. *)
EXTENDS BurnRelease

CONSTANTS p1, p2

Last == {2}
Four == 1 .. 4
Pairs == {2, 4}
====
