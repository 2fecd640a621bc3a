---- MODULE ReceiptLedger ----
(***************************************************************************)
(* What the gateway promises of its money moves (relayer/src/btcsoq/       *)
(* store.ts, MintStatus and claimMint): a deposit outpoint is claimed      *)
(* durably before anything is sent for it, gets at most one receipt on     *)
(* chain, and is recorded as minted only when that receipt exists.         *)
(* Releases keep the same promise: read a receipt for the outpoint and a   *)
(* bitcoin payment for the receipt.  Claims, sends and records are never   *)
(* undone: nothing here knows of memory, crashes, retries or two drivers.  *)
(***************************************************************************)
EXTENDS Naturals

CONSTANT Deposits

VARIABLES
    claimed,    \* outpoints with a durable claim
    issued,     \* receipts on chain, per outpoint
    recorded    \* outpoints durably recorded as minted

ledgerVars == <<claimed, issued, recorded>>

Init ==
    /\ claimed = {}
    /\ issued = [d \in Deposits |-> 0]
    /\ recorded = {}

(* One write of the state file may carry several claims and records.       *)
Persist(C, R) ==
    /\ R \subseteq {d \in claimed \cup C : issued[d] = 1}
    /\ claimed' = claimed \cup C
    /\ recorded' = recorded \cup R
    /\ UNCHANGED issued

Issue(d) ==
    /\ d \in claimed
    /\ issued[d] = 0
    /\ issued' = [issued EXCEPT ![d] = 1]
    /\ UNCHANGED <<claimed, recorded>>

Next ==
    \/ \E C, R \in SUBSET Deposits : Persist(C, R)
    \/ \E d \in Deposits : Issue(d)

Spec == Init /\ [][Next]_ledgerVars

====
