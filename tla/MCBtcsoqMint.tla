---- MODULE MCBtcsoqMint ----
(* Small instances of the mint pipeline. *)
EXTENDS BtcsoqMintInv, TLC

CONSTANTS d1, d2, d3, i1, i2

(* Two payouts to one reused address.                                      *)
SameAddress == [d \in {d1, d2} |-> i1]
EqualSats == [d \in {d1, d2} |-> 2]

(* A payout, dust to the same address, and a payout to an intent whose ssq *)
(* address does not decode.                                                *)
MixedAddresses == d1 :> i1 @@ d2 :> i1 @@ d3 :> i2
MixedSats == d1 :> 2 @@ d2 :> 1 @@ d3 :> 2

OneAddress == d1 :> i1
OneSats == d1 :> 2

Symmetry == Permutations({d1, d2})

====
