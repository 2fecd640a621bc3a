---- MODULE MCBtcsoqRedeem ----
(* Small instances of the release pipeline. *)
EXTENDS BtcsoqRedeemInv, TLC

CONSTANTS r1, r2, h1, a1, a2

(* Two receipts of one holder.                                             *)
OneHolder == [r \in Receipts |-> h1]
EqualSats == [r \in Receipts |-> 2]

(* Each return commits to an address of its own ...                        *)
OwnAddress == r1 :> {a1} @@ r2 :> {a2}

(* ... or a lone one to its own or to none.                                 *)
AnyCommit == r1 :> {a1, NoCommit}
====
