---- MODULE BtcsoqRedeemInv ----
(***************************************************************************)
(* The inductive invariants behind the safety properties of BtcsoqRedeem.  *)
(*                                                                         *)
(* What a payment goes to and what an intent tells is decided when the     *)
(* release is claimed, in one version of the state file, and every later   *)
(* version carries it along: VersionsOK speaks of each version alone and   *)
(* survives any crash and any failing write.  That a receipt is paid once  *)
(* needs more: its claim must be on disk before the payment, so that a     *)
(* restart cannot bind the return to another intent (DurableInv), and the  *)
(* wallet's history must show every payment made (SentInv).                *)
(***************************************************************************)
EXTENDS BtcsoqRedeem

Writers == {"tick", "api", "poll", "mint"}

Payments == [intent: Nat, receipt: Receipts, to: Addresses]

StoreTypeOK ==
    /\ mem \in Contents
    /\ disk \in Contents
    /\ saveChain \in Seq([by: Writers, state: Contents])
    /\ poisoned \in BOOLEAN

TickTypeOK ==
    /\ pc \in Locations
    /\ cur \in Receipts \cup {NoReceipt}
    /\ phase \in {"boot", "returns", "release"}
    /\ todo \subseteq Receipts
    /\ height \in Nat
    /\ upTo \in Nat

OutsideTypeOK ==
    /\ req \in {"none", "open", "sent", "refused"}
    /\ late \in Seq(Payments)
    /\ sends \in Seq(Payments)
    /\ registered \in Nat
    /\ back \in [Receipts -> [height: Nat, commit: Addresses \cup {NoCommit}]]
    /\ tip \in Nat
    /\ owed \subseteq Receipts
    /\ paused \in BOOLEAN
    /\ crashes \in Nat
    /\ faults \in Nat

(* Every version of the state file, the tick and the world outside keep    *)
(* the shapes the code gives them.                                         *)
TypeOK == StoreTypeOK /\ TickTypeOK /\ OutsideTypeOK

(* The versions of the state file there are at a moment.                   *)
Versions == {mem, disk} \cup {saveChain[i].state : i \in DOMAIN saveChain}

Claimed(m, r) == m.mint[r].status \in {"redeeming", "redeemed"}

(* In version m a receipt's release is bound to an intent that its return  *)
(* allows.                                                                 *)
BoundIn(m, r) ==
    /\ m.mint[r].intent \in DOMAIN m.intents
    /\ back[r] # Unspent
    /\ back[r].commit \in {NoCommit, m.intents[m.mint[r].intent].payout}

VersionOK(m) ==
    /\ \A r \in Receipts : IF Claimed(m, r) THEN BoundIn(m, r) ELSE m.mint[r].intent = NoIntent
    /\ \A i \in DOMAIN m.intents :
        /\ m.intents[i].status = "receipt-received" =>
            \E r \in Receipts : m.mint[r].intent = i
        /\ m.intents[i].status = "released" =>
            \E r \in Receipts : m.mint[r].intent = i /\ m.mint[r].status = "redeemed"

VersionsOK == \A m \in Versions : VersionOK(m)

(* The labels at which the tick has a write of its own under way.          *)
Waiting == {"first", "advanced", "claimed", "told", "certified",
            "redeemed", "paid", "closed", "failed"}

OneWrite ==
    \A i, j \in DOMAIN saveChain :
        saveChain[i].by = "tick" /\ saveChain[j].by = "tick" => i = j

WaitInv == OneWrite /\ (pc \notin Waiting => Quiet("tick"))

(* The tick: what it claims has come back, what it pays is claimed.        *)
TickInv ==
    /\ pc = "scan" => height > 0 /\ phase = "returns"
    /\ phase = "returns" => \A r \in todo : back[r] # Unspent
    /\ pc \in {"history", "send"} => cur \in Receipts /\ IntentOf(cur) # NoIntent
    /\ pc = "redeemed" => cur \in Receipts /\ mem.mint[cur].status = "redeemed"
    /\ req # "none" => pc = "send"

Committing(p) ==
    back[p.receipt] # Unspent /\ back[p.receipt].commit \in {NoCommit, p.to}

PaymentInv ==
    /\ \A k \in DOMAIN sends : Committing(sends[k])
    /\ \A k \in DOMAIN late : Committing(late[k])

(* The invariant behind what is paid and told, whatever fails.             *)
ReleaseInv == TypeOK /\ VersionsOK /\ WaitInv /\ TickInv /\ PaymentInv

-----------------------------------------------------------------------------
(* Without late payments, in the reach of the wallet's history: nothing is *)
(* paid twice for one intent.                                              *)
SentInv ==
    /\ late = <<>>
    /\ Len(sends) <= MaxSends
    /\ \A j, k \in DOMAIN sends : sends[j].intent = sends[k].intent => j = k
    /\ req = "open" => \A k \in DOMAIN sends : sends[k].intent # IntentOf(cur)

-----------------------------------------------------------------------------
(* Without failing writes: version b keeps the releases of version a.      *)
Keeps(a, b) ==
    \A r \in Receipts : Claimed(a, r) =>
        /\ Claimed(b, r)
        /\ b.mint[r].intent = a.mint[r].intent
        /\ a.mint[r].status = "redeemed" => b.mint[r].status = "redeemed"

OrderInv ==
    /\ ~poisoned
    /\ Keeps(disk, mem)
    /\ \A i \in DOMAIN saveChain :
        LET m == saveChain[i].state
        IN /\ Keeps(disk, m) /\ Keeps(m, mem)
           /\ \A j \in DOMAIN saveChain : i <= j => Keeps(m, saveChain[j].state)

(* A claim is on disk, or is what the tick waits for to be written.        *)
ClaimDurable ==
    /\ pc = "claimed" => \A i \in DOMAIN saveChain :
        saveChain[i].by = "tick" => Claimed(saveChain[i].state, cur)
    /\ \A r \in Receipts : Claimed(mem, r) => Claimed(disk, r) \/ (pc = "claimed" /\ cur = r)

(* What is paid is claimed on disk, for the intent that was paid.          *)
PaymentDurable ==
    \A k \in DOMAIN sends :
        LET r == sends[k].receipt
        IN Claimed(disk, r) /\ disk.mint[r].intent = sends[k].intent

DurableInv == ClaimDurable /\ PaymentDurable

(* Returns that commit to addresses of their own: what is recorded as      *)
(* released is paid.                                                       *)
Paid(r) == \E k \in DOMAIN sends : sends[k].receipt = r

PaidInv ==
    /\ \A r \in Receipts : back[r] # Unspent => back[r].commit \in Commits[r]
    /\ \A m \in Versions : \A r \in Receipts : m.mint[r].status = "redeemed" => Paid(r)
    /\ req = "sent" => Paid(cur)

====
