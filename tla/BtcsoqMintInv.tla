---- MODULE BtcsoqMintInv ----
(***************************************************************************)
(* The inductive invariant behind the safety properties of BtcsoqMint.     *)
(*                                                                         *)
(* The state file exists in several versions at once (disk, the queued     *)
(* snapshots, memory), two chains run the same code, and a crash may come  *)
(* between any two steps.  One outpoint gets one receipt because           *)
(*   - every version extends the older ones, so a claim, once durable,     *)
(*     stays, with the height its recovery scan starts from;               *)
(*   - a chain's write holds the claim the chain works under;              *)
(*   - mintingInFlight lets one chain per outpoint between the lookup and  *)
(*     the signer's answer;                                                *)
(*   - so what the lookup did not find has not been broadcast when the     *)
(*     request goes out.                                                   *)
(***************************************************************************)
EXTENDS BtcsoqMint

(* Version b of the state file keeps what version a claims and records.    *)
Keeps(a, b) ==
    \A d \in Deposits :
        /\ a.mint[d].status # "none" =>
            /\ b.mint[d].status # "none"
            /\ b.mint[d].height = a.mint[d].height
        /\ a.mint[d].status = "minted" => b.mint[d].status = "minted"

(* A version tells the truth about a chain of this height, on which these  *)
(* receipts were sent.                                                     *)
Truthful(m, height, sent) ==
    \A d \in Deposits :
        /\ m.mint[d].height <= height
        /\ m.mint[d].status = "minted" => sent[d] > 0

StoreInv ==
    /\ Truthful(disk, tip, broadcasts) /\ Truthful(mem, tip, broadcasts)
    /\ Keeps(disk, mem)
    /\ \A i \in DOMAIN saveChain :
        LET m == saveChain[i].state
        IN /\ Truthful(m, tip, broadcasts) /\ Keeps(disk, m) /\ Keeps(m, mem)
           /\ \A j \in DOMAIN saveChain : i <= j => Keeps(m, saveChain[j].state)

(* Where a chain awaits a write, and where it works under a claim.         *)
Waiting == {"detected", "revived", "transited", "certified", "held", "claimed", "bound",
            "attempt", "failed", "minted", "told", "attested"}

Locked == {"lookup", "scan", "attempt", "send"}

UnderClaim == {"claimed", "bound", "drive", "failed", "minted", "told", "attested"} \cup Locked

(* A queued write is its chain's only one and holds the chain's claim.     *)
WriteInv ==
    /\ \A i \in DOMAIN saveChain :
        LET t == saveChain[i].by
        IN /\ pc[t] \in Waiting
           /\ pc[t] \in UnderClaim => saveChain[i].state.mint[cur[t]].status # "none"
           /\ \A j \in DOMAIN saveChain : saveChain[j].by = t => i = j
    /\ \A t \in Threads : pc[t] \in UnderClaim =>
        cur[t] \in Deposits /\ mem.mint[cur[t]].status # "none"
    /\ phase = "boot" => \A d \in todo : mem.mint[d].status # "none"

LockInv ==
    /\ \A t \in Threads : pc[t] \in Locked => t \in inFlight
    /\ \A t \in inFlight : pc[t] \in Locked \cup {"failed", "minted", "told", "attested"}
    /\ \A t, u \in inFlight : cur[t] = cur[u] => t = u

(* What is broadcast is under a durable claim and where a lookup finds it. *)
ChainInv ==
    /\ \A t \in Threads : pc[t] = "send" => disk.mint[cur[t]].status # "none"
    /\ \A d \in Deposits :
        /\ late[d] > 0 => disk.mint[d].status # "none"
        /\ broadcasts[d] > 0 => disk.mint[d].status # "none" /\ (d \in mempool \/ Mined(d))
    /\ \A d \in mempool : broadcasts[d] > 0
    /\ \A b \in blocks : broadcasts[b[1]] > 0 /\ b[2] >= disk.mint[b[1]].height

RequestInv ==
    \A t \in Threads :
        /\ req[t] # "none" => pc[t] = "send"
        /\ req[t] = "sent" => broadcasts[cur[t]] > 0

ClaimInv == TypeOK /\ StoreInv /\ WriteInv /\ LockInv /\ ChainInv /\ RequestInv

(* Without late broadcasts: nothing is sent twice.                         *)
OnceInv ==
    /\ \A d \in Deposits : late[d] = 0 /\ broadcasts[d] <= 1
    /\ \A t \in Threads :
        /\ pc[t] = "scan" => broadcasts[cur[t]] = 0 \/ Mined(cur[t])
        /\ pc[t] = "attempt" \/ req[t] = "open" => broadcasts[cur[t]] = 0

-----------------------------------------------------------------------------
(* A version of the state file that tells no more than is so: what it      *)
(* claims it also records as confirmed and allowed, and its intents are    *)
(* behind its mint records.                                                *)
Tells(m) ==
    /\ \A d \in Deposits : m.mint[d].status # "none" =>
        m.dep[d].conf >= Confirmed /\ d \in Eligible
    /\ \A i \in Intents :
        /\ m.intent[i] = "minted" =>
            \E d \in Deposits : IntentOf[d] = i /\ m.mint[d].status = "minted"
        /\ m.intent[i] = "minting" =>
            \E d \in Deposits : IntentOf[d] = i /\ m.mint[d].status # "none"

VersionsTell ==
    /\ Tells(mem) /\ Tells(disk)
    /\ \A i \in DOMAIN saveChain : Tells(saveChain[i].state)

(* What a chain has looked at before it awaited the node still holds when  *)
(* it goes on: confidences only rise, what is minted stays minted.         *)
Checked(t) ==
    /\ pc[t] \in {"validate", "claim"} =>
        /\ cur[t] \in Deposits /\ mem.dep[cur[t]].conf >= Confirmed
        /\ Bound(cur[t]) /\ ~Underpaid(cur[t])
    /\ pc[t] = "claim" => IntentOf[cur[t]] \notin BadRecipients
    /\ pc[t] = "minted" => mem.mint[cur[t]].status = "minted"

TruthInv == VersionsTell /\ \A t \in Threads : Checked(t)

(* The whole invariant of the mint pipeline: every version keeps the claims*)
(* of the older ones and tells no more than is so, and nothing is sent but *)
(* under a durable claim (store.ts:302-307, gateway.ts:470-610).           *)
MintInv == ClaimInv /\ TruthInv

====
