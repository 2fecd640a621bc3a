---- MODULE BtcsoqMint ----
(***************************************************************************)
(* The mint pipeline of the BTCSOQ gateway (relayer/src/btcsoq/gateway.ts):*)
(* from a detected bitcoin deposit to one receipt on the Soqucoin chain.   *)
(*                                                                         *)
(* Two call chains run it, interleaving at every await:                    *)
(*   "poll"  checkNow -> onDepositEvent -> (router) -> mintForDepositKey,  *)
(*           and the intent expiry that follows a poll;                    *)
(*   "tick"  recoverInFlight at boot, then moneyTick, again and again.     *)
(* A `pc' value names what a chain awaits; a step runs from one await to   *)
(* the next (a step that awaits nothing is a superset: it only adds        *)
(* interleavings).  Around them: the store, the signer that broadcasts     *)
(* receipts, the chain that mines them, crashes, and failing writes.       *)
(***************************************************************************)
EXTENDS GatewayStore, FiniteSets, Functions

CONSTANTS
    Deposits,           \* deposit outpoints, `txid:vout'
    Intents,            \* deposit intents (one bitcoin address each)
    NoIntent,           \* an unsolicited deposit's intentId: null
    NoDeposit,          \* a chain that works on no deposit
    IntentOf,           \* the intent whose address a deposit pays
    BadRecipients,      \* intents whose ssq address the node finds invalid
    Sats,               \* the deposits' amounts
    MinDepositSats,
    MaxDailyMintSats,   \* 0 = unlimited; a behaviour is one 24h window
    ScanMargin,         \* findMintTx starts this far below claimHeight (2)
    AttestEnabled,      \* config.attestationAddress is set
    Breakers,           \* the operator pauses and moves vault coins
    LateBroadcast,      \* the signer may broadcast after its client gave up
    MaxConfidence,      \* bound: confidences a deposit reaches
    MaxTip,             \* bound: blocks mined
    MaxCrashes,         \* bound: crashes
    MaxWriteFaults,     \* bound: failing store writes
    MaxLate             \* bound: abandoned requests the signer still holds

Threads == {"poll", "tick"}

(* CONFIDENCE_ORDER, below it the deposit nobody has seen.                 *)
Unseen == 0
Mempool == 1
Confirmed == 2
Finalized == 3

Held == {"no", "underpay", "bad-recipient"}

MintStatus == {"none", "minting", "minted"}

IntentStatus == {"awaiting-deposit", "deposit-seen", "confirmed", "minting",
                 "minted", "expired"}

EventKinds == {"deposit-confirmed", "receipt-minted"}

Locations == {"idle", "detected", "revived", "transited", "certified", "route",
              "validate", "held", "claim", "claimed", "bound", "drive",
              "lookup", "scan", "attempt", "send", "failed", "minted", "told",
              "attested", "next", "halted"}

ASSUME ConstantsAssumption ==
    /\ NoIntent \notin Intents
    /\ NoDeposit \notin Deposits
    /\ IntentOf \in [Deposits -> Intents \cup {NoIntent}]
    /\ BadRecipients \subseteq Intents
    /\ Sats \in [Deposits -> Nat]
    /\ {MinDepositSats, MaxDailyMintSats, ScanMargin} \subseteq Nat
    /\ {AttestEnabled, Breakers, LateBroadcast} \subseteq BOOLEAN
    /\ MaxConfidence \in Mempool..Finalized
    /\ {MaxTip, MaxCrashes, MaxWriteFaults, MaxLate} \subseteq Nat

VARIABLES
    pc,         \* what each chain awaits
    cur,        \* the deposit it works on
    inFlight,   \* chains inside attemptMint's try block (mintingInFlight)
    phase,      \* the sweep the tick is in
    todo,       \* what is left of that sweep's list
    req,        \* each chain's request at the signer
    late,       \* requests at the signer nobody waits for any more
    broadcasts, \* receipts broadcast for each deposit
    mempool,    \* deposits with a receipt in the mempool
    blocks,     \* <<deposit, height>> of the mined receipts
    tip,        \* chain height
    paused,     \* the pause file exists
    porHalted,  \* checkPorInvariant found receipts above vault coins
    crashes,
    faults

threadVars == <<pc, cur, inFlight, phase, todo>>
signerVars == <<req, late>>
chainVars == <<mempool, blocks, tip>>
breakerVars == <<paused, porHalted>>
budgetVars == <<crashes, faults>>
outsideVars == <<signerVars, broadcasts, chainVars, breakerVars, budgetVars>>
vars == <<storeVars, threadVars, outsideVars>>

Unclaimed == [status |-> "none", height |-> 0]

DepositRecord == [conf: Unseen..Finalized, held: Held]

MintRecord == [status: MintStatus, height: Nat]

(* What the state file holds: deposits, mint records, intents, and the     *)
(* attestations of this pipeline.                                          *)
Contents ==
    [dep: [Deposits -> DepositRecord],
     mint: [Deposits -> MintRecord],
     intent: [Intents -> IntentStatus],
     att: SUBSET (EventKinds \X Deposits)]

EmptyContents ==
    [dep |-> [d \in Deposits |-> [conf |-> Unseen, held |-> "no"]],
     mint |-> [d \in Deposits |-> Unclaimed],
     intent |-> [i \in Intents |-> "awaiting-deposit"],
     att |-> {}]

Init ==
    /\ StoreInit(EmptyContents)
    /\ pc = [t \in Threads |-> "idle"]
    /\ cur = [t \in Threads |-> NoDeposit]
    /\ inFlight = {}
    /\ phase = "mints"
    /\ todo = {}
    /\ req = [t \in Threads |-> "none"]
    /\ late = [d \in Deposits |-> 0]
    /\ broadcasts = [d \in Deposits |-> 0]
    /\ mempool = {}
    /\ blocks = {}
    /\ tip = 0
    /\ paused = FALSE
    /\ porHalted = FALSE
    /\ crashes = 0
    /\ faults = 0

-----------------------------------------------------------------------------
(* The bookkeeping of a chain's step.                                      *)

At(t, label) == pc[t] = label

Step(t, label) ==
    /\ pc' = [pc EXCEPT ![t] = label]
    /\ UNCHANGED <<cur, inFlight, phase, todo>>

(* The call returns: the poll is done with its event, the tick goes on with*)
(* its sweep; attemptMint's finally clause has run.                        *)
Return(t) ==
    /\ pc' = [pc EXCEPT ![t] = IF t = "tick" THEN "next" ELSE "idle"]
    /\ cur' = [cur EXCEPT ![t] = NoDeposit]
    /\ inFlight' = inFlight \ {t}
    /\ UNCHANGED <<phase, todo>>

(* The chains of S throw.  A tick or an event is lost; a throw out of      *)
(* recoverInFlight leaves start(), and main() ends the process.            *)
Throw(S) ==
    /\ pc' = [t \in Threads |->
                IF t \notin S THEN pc[t]
                ELSE IF t = "tick" /\ phase = "boot" THEN "halted" ELSE "idle"]
    /\ cur' = [t \in Threads |-> IF t \in S THEN NoDeposit ELSE cur[t]]
    /\ inFlight' = inFlight \ S
    /\ phase' = IF "tick" \in S THEN "mints" ELSE phase
    /\ todo' = IF "tick" \in S THEN {} ELSE todo

(* Put m and await the write at `label'.                                   *)
Save(t, m, label) ==
    \/ Put(t, m) /\ Step(t, label)
    \/ PutRejected(m) /\ Throw({t})

-----------------------------------------------------------------------------
(* onDepositEvent                                                          *)

WithIntent(i, s) == [mem EXCEPT !.intent[i] = s]

Bound(d) == IntentOf[d] # NoIntent

(* A poll reports deposit d at a confidence above the one recorded.        *)
PollDetect(d, c) ==
    /\ At("poll", "idle")
    /\ c > mem.dep[d].conf
    /\ \/ /\ Put("poll", [mem EXCEPT !.dep[d].conf = c])
          /\ pc' = [pc EXCEPT !["poll"] = "detected"]
          /\ cur' = [cur EXCEPT !["poll"] = d]
          /\ UNCHANGED <<inFlight, phase, todo>>
       \/ /\ PutRejected([mem EXCEPT !.dep[d].conf = c])
          /\ UNCHANGED threadVars
    /\ UNCHANGED outsideVars

(* Money revives an expired intent.                                        *)
PollRevive(d) ==
    /\ At("poll", "detected")
    /\ cur["poll"] = d
    /\ Bound(d)
    /\ mem.intent[IntentOf[d]] = "expired"
    /\ SettlePut("poll", WithIntent(IntentOf[d], "awaiting-deposit"))
    /\ Step("poll", "revived")
    /\ UNCHANGED outsideVars

Transition(d) ==
    LET c == mem.dep[d].conf
        s == mem.intent[IntentOf[d]]
    IN IF c = Mempool /\ s = "awaiting-deposit" THEN "deposit-seen"
       ELSE IF c >= Confirmed /\ s \in {"awaiting-deposit", "deposit-seen"}
            THEN "confirmed" ELSE s

(* The intent follows its deposit.                                         *)
PollTransit(d) ==
    /\ cur["poll"] = d
    /\ Bound(d)
    /\ At("poll", "revived") \/ (At("poll", "detected") /\ mem.intent[IntentOf[d]] # "expired")
    /\ Transition(d) # mem.intent[IntentOf[d]]
    /\ SettlePut("poll", WithIntent(IntentOf[d], Transition(d)))
    /\ Step("poll", IF Transition(d) = "confirmed" THEN "transited" ELSE "certified")
    /\ UNCHANGED outsideVars

Attested(kind, d) == [mem EXCEPT !.att = @ \cup {<<kind, d>>}]

ToAttest(kind, d) == AttestEnabled /\ <<kind, d>> \notin mem.att

(* transition() attests a confirmed deposit.                               *)
PollCertify(d) ==
    /\ At("poll", "transited")
    /\ cur["poll"] = d
    /\ ToAttest("deposit-confirmed", d)
    /\ SettlePut("poll", Attested("deposit-confirmed", d))
    /\ Step("poll", "certified")
    /\ UNCHANGED outsideVars

(* Nothing more to put: a deposit past the mempool goes to the mint.       *)
PollRoute(d) ==
    /\ cur["poll"] = d
    /\ \/ /\ pc["poll"] \in {"detected", "revived"}
          /\ Bound(d) => /\ Transition(d) = mem.intent[IntentOf[d]]
                         /\ At("poll", "detected") => mem.intent[IntentOf[d]] # "expired"
       \/ At("poll", "transited") /\ ~ToAttest("deposit-confirmed", d)
       \/ At("poll", "certified")
    /\ Settle("poll")
    /\ IF mem.dep[d].conf = Mempool THEN Return("poll") ELSE Step("poll", "route")
    /\ UNCHANGED outsideVars

(* expireStaleIntents, after a poll.                                       *)
PollExpire(i) ==
    /\ At("poll", "idle")
    /\ mem.intent[i] = "awaiting-deposit"
    /\ \/ Put("poll", WithIntent(i, "expired")) /\ Step("poll", "held")
       \/ PutRejected(WithIntent(i, "expired")) /\ UNCHANGED threadVars
    /\ UNCHANGED outsideVars

-----------------------------------------------------------------------------
(* mintForDepositKey                                                       *)

Claimed(d) == mem.mint[d].status # "none"

(* Mutants: the deposit's confidence is not looked at; the mint is gated on *)
(* the status of an intent that outlives many deposits (bead xk3).         *)
MintableUnconfirmed(d) == ~Claimed(d) /\ mem.dep[d].conf # Unseen /\ Bound(d)

MintableOnce(d) ==
    /\ ~Claimed(d) /\ mem.dep[d].conf >= Confirmed /\ Bound(d)
    /\ mem.intent[IntentOf[d]] = "confirmed"

Mintable(d) == ~Claimed(d) /\ mem.dep[d].conf >= Confirmed /\ Bound(d)

Underpaid(d) == Sats[d] < MinDepositSats

(* Mutant: the hold falls on the address, not on the outpoint.             *)
HoldAddress(d, why) ==
    [mem EXCEPT !.dep = [e \in Deposits |->
        IF IntentOf[e] = IntentOf[d] THEN [@[e] EXCEPT !.held = why] ELSE @[e]]]

WithHeld(d, why) == [mem EXCEPT !.dep[d].held = why]

RouteNothing(t, d) ==
    /\ At(t, "route")
    /\ cur[t] = d
    /\ ~Mintable(d) \/ (Underpaid(d) /\ mem.dep[d].held = "underpay")
    /\ Return(t)
    /\ UNCHANGED <<storeVars, outsideVars>>

RouteUnderpaid(t, d) ==
    /\ At(t, "route")
    /\ cur[t] = d
    /\ Mintable(d) /\ Underpaid(d) /\ mem.dep[d].held # "underpay"
    /\ Save(t, WithHeld(d, "underpay"), "held")
    /\ UNCHANGED outsideVars

RouteValidate(t, d) ==
    /\ At(t, "route")
    /\ cur[t] = d
    /\ Mintable(d) /\ ~Underpaid(d)
    /\ Step(t, "validate")
    /\ UNCHANGED <<storeVars, outsideVars>>

(* validateAddress answers, or the node cannot be reached.                 *)
ValidateOk(t, d) ==
    /\ At(t, "validate")
    /\ cur[t] = d
    /\ IntentOf[d] \notin BadRecipients
    /\ Step(t, "claim")
    /\ UNCHANGED <<storeVars, outsideVars>>

ValidateBad(t, d) ==
    /\ At(t, "validate")
    /\ cur[t] = d
    /\ IntentOf[d] \in BadRecipients
    /\ IF mem.dep[d].held = "bad-recipient"
       THEN Return(t) /\ UNCHANGED storeVars
       ELSE Save(t, WithHeld(d, "bad-recipient"), "held")
    /\ UNCHANGED outsideVars

ValidateUnreachable(t) ==
    /\ At(t, "validate")
    /\ Return(t)
    /\ UNCHANGED <<storeVars, outsideVars>>

(* tipHeight answers, and the CAS decides in the same synchronous stretch. *)
Claim(t, d) ==
    /\ At(t, "claim")
    /\ cur[t] = d
    /\ IF Claimed(d)
       THEN Return(t) /\ UNCHANGED storeVars
       ELSE Save(t, [mem EXCEPT !.mint[d] = [status |-> "minting", height |-> tip]],
                 "claimed")
    /\ UNCHANGED outsideVars

(* tipHeight throws, which nothing in the call catches.                    *)
ClaimUnreachable(t) ==
    /\ At(t, "claim")
    /\ Throw({t})
    /\ UNCHANGED <<storeVars, outsideVars>>

BindIntent(t, d) ==
    /\ At(t, "claimed")
    /\ cur[t] = d
    /\ SettlePut(t, WithIntent(IntentOf[d], "minting"))
    /\ Step(t, "bound")
    /\ UNCHANGED outsideVars

StartDrive(t) ==
    /\ At(t, "bound")
    /\ Settle(t)
    /\ Step(t, "drive")
    /\ UNCHANGED outsideVars

-----------------------------------------------------------------------------
(* attemptMint                                                             *)

(* Mutant: no in-flight mark.                                              *)
NeverInFlight(d) == FALSE

InFlight(d) == \E t \in inFlight : cur[t] = d

MintedSats ==
    FoldFunctionOnSet(LAMBDA x, y : x + y, 0, Sats,
                      {d \in Deposits : mem.mint[d].status = "minted"})

Deferred(d) ==
    \/ paused
    \/ porHalted
    \/ MaxDailyMintSats > 0 /\ MintedSats + Sats[d] > MaxDailyMintSats

DriveNothing(t, d) ==
    /\ At(t, "drive")
    /\ cur[t] = d
    /\ InFlight(d) \/ Deferred(d)
    /\ Return(t)
    /\ UNCHANGED <<storeVars, outsideVars>>

DriveStart(t, d) ==
    /\ At(t, "drive")
    /\ cur[t] = d
    /\ ~InFlight(d) /\ ~Deferred(d)
    /\ inFlight' = inFlight \cup {t}
    /\ pc' = [pc EXCEPT ![t] = "lookup"]
    /\ UNCHANGED <<cur, phase, todo, storeVars, outsideVars>>

(* Mutants: the intent is put before the ledger; an unknown status.        *)
IntentFirst(d) == WithIntent(IntentOf[d], "minted")

MintedMisspelt(d) == [mem EXCEPT !.mint[d].status = "mint"]

WithMinted(d) == [mem EXCEPT !.mint[d].status = "minted"]

(* The tag is on chain: finalize without awaiting it inside the try block, *)
(* so the in-flight mark goes at once.                                     *)
Recover(t, d) ==
    \/ /\ Put(t, WithMinted(d))
       /\ pc' = [pc EXCEPT ![t] = "minted"]
       /\ inFlight' = inFlight \ {t}
       /\ UNCHANGED <<cur, phase, todo>>
    \/ PutRejected(WithMinted(d)) /\ Throw({t})

(* findMintTx reads the mempool first ...                                  *)
LookupMempool(t, d) ==
    /\ At(t, "lookup")
    /\ cur[t] = d
    /\ IF d \in mempool THEN Recover(t, d) ELSE Step(t, "scan") /\ UNCHANGED storeVars
    /\ UNCHANGED outsideVars

(* Mutant: the recovery looks in the mempool only.                         *)
BlocksUnscanned(d) == FALSE

(* ... then the blocks from claimHeight - ScanMargin to the tip.           *)
Mined(d) == \E b \in blocks : b[1] = d /\ b[2] + ScanMargin >= mem.mint[d].height

ScanFound(t, d) ==
    /\ At(t, "scan")
    /\ cur[t] = d
    /\ Mined(d)
    /\ Recover(t, d)
    /\ UNCHANGED outsideVars

(* Nothing carries the tag: count the attempt, durably, before sending.    *)
ScanMissing(t, d) ==
    /\ At(t, "scan")
    /\ cur[t] = d
    /\ ~Mined(d)
    /\ Save(t, mem, "attempt")
    /\ UNCHANGED outsideVars

(* The node fails (a failure later, in the block scan, has the same effect)*)
(* or the transaction found first pays another address: lastError is put   *)
(* and the record stays 'minting'.                                         *)
LookupFails(t, d) ==
    /\ At(t, "lookup")
    /\ cur[t] = d
    /\ Save(t, mem, "failed")
    /\ UNCHANGED outsideVars

(* Mutant: the attempt's put is not awaited.                               *)
SendBeforeWrite(t, d) ==
    /\ At(t, "attempt")
    /\ cur[t] = d
    /\ req' = [req EXCEPT ![t] = "open"]
    /\ Step(t, "send")
    /\ UNCHANGED <<storeVars, late, broadcasts, chainVars, breakerVars, budgetVars>>

SendRequest(t, d) ==
    /\ At(t, "attempt")
    /\ cur[t] = d
    /\ Settle(t)
    /\ req' = [req EXCEPT ![t] = "open"]
    /\ Step(t, "send")
    /\ UNCHANGED <<late, broadcasts, chainVars, breakerVars, budgetVars>>

SendOk(t, d) ==
    /\ At(t, "send")
    /\ cur[t] = d
    /\ req[t] = "sent"
    /\ req' = [req EXCEPT ![t] = "none"]
    /\ Save(t, WithMinted(d), "minted")
    /\ UNCHANGED <<late, broadcasts, chainVars, breakerVars, budgetVars>>

(* An error answer; a lost answer or a timeout, which says nothing about   *)
(* the broadcast.                                                          *)
SendFails(t, d) ==
    /\ At(t, "send")
    /\ cur[t] = d
    /\ \/ req[t] \in {"sent", "refused"} /\ UNCHANGED late
       \/ /\ LateBroadcast /\ req[t] = "open" /\ late[d] < MaxLate
          /\ late' = [late EXCEPT ![d] = @ + 1]
    /\ req' = [req EXCEPT ![t] = "none"]
    /\ Save(t, mem, "failed")
    /\ UNCHANGED <<broadcasts, chainVars, breakerVars, budgetVars>>

-----------------------------------------------------------------------------
(* finalizeMint, after the mint record's write                             *)

TellIntent(t, d) ==
    /\ At(t, "minted")
    /\ cur[t] = d
    /\ SettlePut(t, WithIntent(IntentOf[d], "minted"))
    /\ Step(t, "told")
    /\ UNCHANGED outsideVars

AttestMint(t, d) ==
    /\ At(t, "told")
    /\ cur[t] = d
    /\ ToAttest("receipt-minted", d)
    /\ SettlePut(t, Attested("receipt-minted", d))
    /\ Step(t, "attested")
    /\ UNCHANGED outsideVars

(* The last put of a call is written and the call returns.                 *)
Finish(t) ==
    /\ \/ pc[t] \in {"held", "failed", "attested"}
       \/ At(t, "told") /\ ~ToAttest("receipt-minted", cur[t])
    /\ Settle(t)
    /\ Return(t)
    /\ UNCHANGED outsideVars

-----------------------------------------------------------------------------
(* moneyTick and recoverInFlight: the sweeps that drive the mints          *)

(* checkPorInvariant: the vault covers the receipts, or not, or could not  *)
(* be read.                                                                *)
TickStart ==
    /\ At("tick", "idle")
    /\ pc' = [pc EXCEPT !["tick"] = "next"]
    /\ phase' = "deposits"
    /\ todo' = {d \in Deposits : mem.dep[d].conf # Unseen}
    /\ porHalted' \in IF Breakers THEN BOOLEAN ELSE {porHalted}
    /\ UNCHANGED <<cur, inFlight, storeVars, signerVars, broadcasts, chainVars,
                   paused, budgetVars>>

(* Deposits that wait for a mint: mintForDepositKey.                       *)
TickDeposit(d) ==
    /\ At("tick", "next")
    /\ phase = "deposits"
    /\ d \in todo
    /\ todo' = todo \ {d}
    /\ IF Mintable(d) /\ mem.dep[d].held = "no"
       THEN /\ pc' = [pc EXCEPT !["tick"] = "route"]
            /\ cur' = [cur EXCEPT !["tick"] = d]
       ELSE UNCHANGED <<pc, cur>>
    /\ UNCHANGED <<inFlight, phase, storeVars, outsideVars>>

(* Claimed mints that have not landed: attemptMint.                        *)
TickMint(d) ==
    /\ At("tick", "next")
    /\ phase \in {"boot", "mints"}
    /\ d \in todo
    /\ todo' = todo \ {d}
    /\ IF phase = "boot" \/ mem.mint[d].status = "minting"
       THEN /\ pc' = [pc EXCEPT !["tick"] = "drive"]
            /\ cur' = [cur EXCEPT !["tick"] = d]
       ELSE UNCHANGED <<pc, cur>>
    /\ UNCHANGED <<inFlight, phase, storeVars, outsideVars>>

(* The sweep is over: deposits, then mints, then the timer again.          *)
TickAdvance ==
    /\ At("tick", "next")
    /\ todo = {}
    /\ phase' = "mints"
    /\ IF phase = "deposits"
       THEN todo' = {d \in Deposits : Claimed(d)} /\ UNCHANGED pc
       ELSE pc' = [pc EXCEPT !["tick"] = "idle"] /\ UNCHANGED todo
    /\ UNCHANGED <<cur, inFlight, storeVars, outsideVars>>

-----------------------------------------------------------------------------
(* The signer, the chain, the operator, failures                           *)

SignerBroadcasts(t, d) ==
    /\ cur[t] = d
    /\ req[t] = "open"
    /\ req' = [req EXCEPT ![t] = "sent"]
    /\ broadcasts' = [broadcasts EXCEPT ![d] = @ + 1]
    /\ mempool' = mempool \cup {d}
    /\ UNCHANGED <<storeVars, threadVars, late, blocks, tip, breakerVars, budgetVars>>

SignerRefuses(t) ==
    /\ req[t] = "open"
    /\ req' = [req EXCEPT ![t] = "refused"]
    /\ UNCHANGED <<storeVars, threadVars, late, broadcasts, chainVars, breakerVars,
                   budgetVars>>

(* A request nobody waits for is broadcast after all.                      *)
SignerBroadcastsLate(d) ==
    /\ late[d] > 0
    /\ late' = [late EXCEPT ![d] = @ - 1]
    /\ broadcasts' = [broadcasts EXCEPT ![d] = @ + 1]
    /\ mempool' = mempool \cup {d}
    /\ UNCHANGED <<storeVars, threadVars, req, blocks, tip, breakerVars, budgetVars>>

MineBlock(S) ==
    /\ tip < MaxTip
    /\ tip' = tip + 1
    /\ mempool' = mempool \ S
    /\ blocks' = blocks \cup (S \X {tip + 1})
    /\ UNCHANGED <<storeVars, threadVars, signerVars, broadcasts, breakerVars, budgetVars>>

TogglePause ==
    /\ Breakers
    /\ paused' = ~paused
    /\ UNCHANGED <<storeVars, threadVars, signerVars, broadcasts, chainVars, porHalted,
                   budgetVars>>

StoreFault ==
    /\ faults < MaxWriteFaults
    /\ faults' = faults + 1
    /\ WriteFails
    /\ Throw(Awaiting)
    /\ UNCHANGED <<signerVars, broadcasts, chainVars, breakerVars, crashes>>

(* A new process loads the file and recovers what is in flight.  What the  *)
(* signer holds outlives the gateway; unless LateBroadcast, it settles     *)
(* before the gateway is back.                                             *)
Reboot ==
    /\ Reload
    /\ pc' = [t \in Threads |-> IF t = "tick" THEN "next" ELSE "idle"]
    /\ cur' = [t \in Threads |-> NoDeposit]
    /\ inFlight' = {}
    /\ phase' = "boot"
    /\ todo' = {d \in Deposits : disk.mint[d].status = "minting"}
    /\ \/ "open" \notin {req[t] : t \in Threads} /\ UNCHANGED late
       \/ \E t \in Threads :
            /\ LateBroadcast /\ req[t] = "open" /\ late[cur[t]] < MaxLate
            /\ \A u \in Threads \ {t} : req[u] # "open"
            /\ late' = [late EXCEPT ![cur[t]] = @ + 1]
    /\ req' = [t \in Threads |-> "none"]
    /\ porHalted' = FALSE
    /\ UNCHANGED <<broadcasts, chainVars, paused, faults>>

Crash ==
    /\ crashes < MaxCrashes
    /\ crashes' = crashes + 1
    /\ Reboot

(* main() exited because start() threw.                                    *)
Exit ==
    /\ At("tick", "halted")
    /\ Reboot
    /\ UNCHANGED crashes

-----------------------------------------------------------------------------
PollNext(d) ==
    \/ \E c \in Mempool..MaxConfidence : PollDetect(d, c)
    \/ PollRevive(d) \/ PollTransit(d) \/ PollCertify(d) \/ PollRoute(d)

MintNext(t, d) ==
    \/ RouteNothing(t, d) \/ RouteUnderpaid(t, d) \/ RouteValidate(t, d)
    \/ ValidateOk(t, d) \/ ValidateBad(t, d)
    \/ Claim(t, d) \/ BindIntent(t, d)
    \/ DriveNothing(t, d) \/ DriveStart(t, d)
    \/ LookupMempool(t, d) \/ ScanFound(t, d) \/ ScanMissing(t, d) \/ LookupFails(t, d)
    \/ SendRequest(t, d) \/ SendOk(t, d) \/ SendFails(t, d)
    \/ TellIntent(t, d) \/ AttestMint(t, d)

ThreadNext(t) ==
    \/ ValidateUnreachable(t) \/ ClaimUnreachable(t) \/ StartDrive(t) \/ Finish(t)
    \/ \E d \in Deposits : MintNext(t, d)

TickNext ==
    \/ TickStart \/ TickAdvance
    \/ \E d \in Deposits : TickDeposit(d) \/ TickMint(d)

OutsideNext ==
    \/ \E t \in Threads : SignerRefuses(t) \/ \E d \in Deposits : SignerBroadcasts(t, d)
    \/ \E d \in Deposits : SignerBroadcastsLate(d)
    \/ \E S \in SUBSET mempool : MineBlock(S)
    \/ TogglePause \/ StoreFault \/ Crash \/ Exit

Next ==
    \/ \E d \in Deposits : PollNext(d)
    \/ \E i \in Intents : PollExpire(i)
    \/ \E t \in Threads : ThreadNext(t)
    \/ TickNext
    \/ OutsideNext

Spec == Init /\ [][Next]_vars

-----------------------------------------------------------------------------
StoreTypeOK ==
    /\ mem \in Contents
    /\ disk \in Contents
    /\ saveChain \in Seq([by: Threads, state: Contents])
    /\ poisoned \in BOOLEAN

ThreadTypeOK ==
    /\ pc \in [Threads -> Locations]
    /\ cur \in [Threads -> Deposits \cup {NoDeposit}]
    /\ inFlight \subseteq Threads
    /\ phase \in {"boot", "deposits", "mints"}
    /\ todo \subseteq Deposits

OutsideTypeOK ==
    /\ req \in [Threads -> {"none", "open", "sent", "refused"}]
    /\ late \in [Deposits -> Nat]
    /\ broadcasts \in [Deposits -> Nat]
    /\ mempool \subseteq Deposits
    /\ blocks \subseteq Deposits \X Nat
    /\ tip \in Nat
    /\ paused \in BOOLEAN
    /\ porHalted \in BOOLEAN
    /\ crashes \in Nat
    /\ faults \in Nat

(* Every version of the state file, every chain and the world outside keep *)
(* the shapes the code gives them.                                         *)
TypeOK == StoreTypeOK /\ ThreadTypeOK /\ OutsideTypeOK

-----------------------------------------------------------------------------
(* One deposit outpoint mints exactly once, ever (gateway.ts:468): no      *)
(* interleaving of the poll and the tick, no retry after a lost answer and *)
(* no crash makes the signer broadcast a second receipt.                   *)
AtMostOneReceipt == \A d \in Deposits : broadcasts[d] <= 1

(* The claim runs BEFORE the signer call (store.ts:302-307): whenever a    *)
(* request is at the signer or a receipt on chain, the state file on disk  *)
(* holds a claim whose scan range covers the receipt's block, so that the  *)
(* recovery scan of any later process finds it.                            *)
ClaimOutlivesCrash ==
    \A d \in Deposits :
        /\ (broadcasts[d] > 0 \/ \E t \in Threads : req[t] # "none" /\ cur[t] = d) =>
            disk.mint[d].status # "none"
        /\ \A b \in blocks : b[1] = d => b[2] + ScanMargin >= disk.mint[d].height

(* The deposits nothing holds back but their confirmation.                 *)
Eligible ==
    {d \in Deposits : /\ Bound(d) /\ IntentOf[d] \notin BadRecipients
                      /\ Sats[d] >= MinDepositSats}

(* A receipt exists only for a deposit the file records as confirmed, bound*)
(* to an intent with a valid recipient, at or above the minimum            *)
(* (gateway.ts:470-509) - even though the tick reads confidences and claims*)
(* that the poll has set in memory and not yet written.                    *)
ReceiptBacked ==
    \A d \in Deposits : broadcasts[d] > 0 =>
        disk.dep[d].conf >= Confirmed /\ d \in Eligible

(* A written intent never tells more than the written ledger: an intent    *)
(* 'minted' has a deposit recorded as minted, one 'minting' has a claim    *)
(* (gateway.ts:537-543 and 597-610 put them after the ledger).             *)
IntentNeverAhead ==
    \A i \in Intents :
        /\ disk.intent[i] = "minted" =>
            \E d \in Deposits : IntentOf[d] = i /\ disk.mint[d].status = "minted"
        /\ disk.intent[i] = "minting" =>
            \E d \in Deposits : IntentOf[d] = i /\ disk.mint[d].status # "none"

(* The pipeline implements the ledger's promise (store.ts:58-69): what is  *)
(* claimed and recorded is what is on disk.                                *)
Ledger == INSTANCE ReceiptLedger WITH
    claimed <- {d \in Deposits : disk.mint[d].status # "none"},
    issued <- broadcasts,
    recorded <- {d \in Deposits : disk.mint[d].status = "minted"}

LedgerSpec == Ledger!Spec

-----------------------------------------------------------------------------
(* Fairness: the timers and promise continuations run (weak); the node and *)
(* the signer, asked again and again about a deposit, answer again and     *)
(* again (strong).                                                         *)
Fairness ==
    /\ WF_vars(TickNext)
    /\ WF_vars(\E d \in Deposits : PollRevive(d) \/ PollTransit(d) \/ PollCertify(d)
                                    \/ PollRoute(d))
    /\ WF_vars(Exit)
    /\ \A t \in Threads : WF_vars(ThreadNext(t)) /\ WF_vars(SignerRefuses(t))
    /\ \A d \in Eligible :
        /\ SF_vars(\E t \in Threads : ValidateOk(t, d))
        /\ SF_vars(\E t \in Threads : Claim(t, d))
        /\ SF_vars(\E t \in Threads : LookupMempool(t, d))
        /\ SF_vars(\E t \in Threads : SignerBroadcasts(t, d))

FairSpec == Spec /\ Fairness

(* Once the breakers stay clear, a deposit the file records as confirmed,  *)
(* bound and sufficient is minted in the end, whatever crashed, failed or  *)
(* was deferred on the way (gateway.ts:1101-1117: stuck deposits and stuck *)
(* 'minting' records are driven by every tick).                            *)
EligibleIsMinted ==
    <>[](~paused /\ ~porHalted) =>
        \A d \in Eligible :
            disk.dep[d].conf >= Confirmed ~> disk.mint[d].status = "minted"

====
