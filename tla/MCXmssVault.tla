---- MODULE MCXmssVault ----
(* Small instances of the two Solana programs. *)
EXTENDS XmssVault

CONSTANTS u1, v1, m1, m2, t1, t2
====
