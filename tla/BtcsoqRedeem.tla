---- MODULE BtcsoqRedeem ----
(***************************************************************************)
(* The way back of the BTCSOQ gateway (relayer/src/btcsoq/gateway.ts): a   *)
(* receipt's carrier is spent to the redemption address, the money tick    *)
(* finds the spend in a block, binds it to a redeem intent, and the release*)
(* wallet pays the intent's bitcoin address.                               *)
(*                                                                         *)
(* The tick is the one call chain that scans and pays: recoverInFlight at  *)
(* boot, then moneyTick (its mint half is BtcsoqMint).  The API registers  *)
(* intents, the poll expires them and the mint pipeline records receipts   *)
(* beside it; each of them only puts and awaits its write.                 *)
(***************************************************************************)
EXTENDS GatewayStore, FiniteSets, Functions

CONSTANTS
    Receipts,           \* minted receipts, named by their deposit outpoint
    Holders,            \* ssq addresses
    HolderOf,           \* whom a receipt was minted to
    Addresses,          \* bitcoin payout addresses
    NoCommit,           \* a return spend without a payout commitment
    Commits,            \* the commitments a receipt's return may carry
    NoReceipt,          \* the tick works on no receipt
    Sats,               \* the receipts' amounts
    MaxDailyReleaseSats,\* 0 = unlimited; a behaviour is one 24h window
    HistoryDepth,       \* listtransactions answers with the last 1000
    AttestEnabled,      \* config.attestationAddress is set
    Pausable,           \* the operator may create and remove the pause file
    LatePayment,        \* the wallet may pay after its client gave up
    MaxIntents,         \* bound: registrations
    MaxTip,             \* bound: blocks
    MaxCrashes,         \* bound: crashes
    MaxWriteFaults,     \* bound: failing store writes
    MaxLate,            \* bound: abandoned payments the wallet still owes
    MaxSends            \* bound: payments the wallet makes

NoIntent == 0
NoCursor == 0

MintStatus == {"minting", "minted", "redeeming", "redeemed"}

RedeemIntentStatus == {"awaiting-receipt", "receipt-received", "released", "expired"}

EventKinds == {"receipt-returned", "btc-released"}

Locations == {"idle", "tip", "first", "scan", "next", "claimed", "told", "certified",
              "release", "history", "send", "failed", "redeemed", "paid", "closed",
              "advanced", "halted"}

ASSUME RedeemConstants ==
    /\ HolderOf \in [Receipts -> Holders]
    /\ NoCommit \notin Addresses
    /\ Commits \in [Receipts -> SUBSET (Addresses \cup {NoCommit})]
    /\ NoReceipt \notin Receipts
    /\ Sats \in [Receipts -> Nat]
    /\ {MaxDailyReleaseSats, HistoryDepth} \subseteq Nat
    /\ {AttestEnabled, Pausable, LatePayment} \subseteq BOOLEAN
    /\ {MaxIntents, MaxTip, MaxCrashes, MaxWriteFaults, MaxLate, MaxSends} \subseteq Nat

VARIABLES
    pc,         \* what the tick awaits
    cur,        \* the receipt it works on
    phase,      \* what it is sweeping
    todo,       \* what is left of that sweep
    height,     \* the block it reads next
    upTo,       \* the tip it reads to
    req,        \* its request at the release wallet
    late,       \* payments the wallet owes to nobody who waits
    sends,      \* the release wallet's payments, oldest first
    registered, \* redeem intents ever created (randomUUID: an id comes once)
    back,       \* where each carrier was spent to the redemption address
    tip,        \* Soqucoin chain height
    paused,     \* the pause file exists
    owed,       \* returns mined when all they need was on disk
    crashes,
    faults

tickVars == <<pc, cur, phase, todo, height, upTo>>
walletVars == <<req, late, sends>>
chainVars == <<back, tip, owed>>
outsideVars == <<walletVars, chainVars, registered, paused, crashes, faults>>
vars == <<storeVars, tickVars, outsideVars>>

RedeemIntent == [holder: Holders, payout: Addresses, status: RedeemIntentStatus]

Ids == 1..MaxIntents

(* Of the state file: the mint ledger, the redeem intents by id (a later   *)
(* one has a higher id), the scan cursor and this pipeline's attestations. *)
Contents ==
    [mint: [Receipts -> [status: MintStatus, intent: Nat]],
     intents: UNION {[S -> RedeemIntent] : S \in SUBSET Ids},
     cursor: Nat,
     att: SUBSET (EventKinds \X Receipts)]

EmptyContents ==
    [mint |-> [r \in Receipts |-> [status |-> "minting", intent |-> NoIntent]],
     intents |-> <<>>,
     cursor |-> NoCursor,
     att |-> {}]

Unspent == [height |-> 0, commit |-> NoCommit]

Init ==
    /\ StoreInit(EmptyContents)
    /\ pc = "idle"
    /\ cur = NoReceipt
    /\ phase = "release"
    /\ todo = {}
    /\ height = 0
    /\ upTo = 0
    /\ req = "none"
    /\ late = <<>>
    /\ sends = <<>>
    /\ registered = 0
    /\ back = [r \in Receipts |-> Unspent]
    /\ tip = 1
    /\ paused = FALSE
    /\ owed = {}
    /\ crashes = 0
    /\ faults = 0

-----------------------------------------------------------------------------
(* The bookkeeping of the tick's steps.                                    *)

Step(label) ==
    /\ pc' = label
    /\ UNCHANGED <<cur, phase, todo, height, upTo>>

(* A throw ends the tick; out of recoverInFlight it ends the process.      *)
Throw ==
    /\ pc' = IF phase = "boot" THEN "halted" ELSE "idle"
    /\ cur' = NoReceipt
    /\ phase' = "release"
    /\ todo' = {}
    /\ UNCHANGED <<height, upTo>>

Save(m, label) ==
    \/ Put("tick", m) /\ Step(label)
    \/ PutRejected(m) /\ Throw

(* The sweep goes on.                                                      *)
Return ==
    /\ pc' = "next"
    /\ cur' = NoReceipt
    /\ UNCHANGED <<phase, todo, height, upTo>>

(* The awaited write completes, and the call goes on to its next put.      *)
Follow(from, m, to) ==
    /\ pc = from
    /\ SettlePut("tick", m)
    /\ Step(to)
    /\ UNCHANGED outsideVars

Redeeming(m) == {r \in Receipts : m.mint[r].status = "redeeming"}

(* moneyTick's loop over the 'redeeming' records begins.                   *)
StartReleases ==
    /\ pc' = "next"
    /\ phase' = "release"
    /\ todo' = Redeeming(mem)
    /\ UNCHANGED <<cur, height, upTo>>

-----------------------------------------------------------------------------
(* scanForRedemptions                                                      *)

TickStart ==
    /\ pc = "idle"
    /\ pc' = "tip"
    /\ UNCHANGED <<cur, phase, todo, height, upTo, storeVars, outsideVars>>

(* The first scan starts at the tip.                                       *)
FirstScan ==
    /\ pc = "tip"
    /\ mem.cursor = NoCursor
    /\ Save([mem EXCEPT !.cursor = tip], "first")
    /\ UNCHANGED outsideVars

NothingNew ==
    /\ \/ pc = "tip" /\ mem.cursor # NoCursor /\ tip <= mem.cursor /\ UNCHANGED storeVars
       \/ pc \in {"first", "advanced"} /\ Settle("tick")
    /\ StartReleases
    /\ UNCHANGED outsideVars

(* Mutant: an off-by-one at the cursor.                                    *)
SkippedBlock == mem.cursor + 2

FirstBlock == mem.cursor + 1

ScanStart ==
    /\ pc = "tip"
    /\ mem.cursor # NoCursor
    /\ tip > mem.cursor
    /\ pc' = "scan"
    /\ phase' = "returns"
    /\ todo' = {}
    /\ height' = FirstBlock
    /\ upTo' = tip
    /\ UNCHANGED <<cur, storeVars, outsideVars>>

(* findMintByCarrier knows a carrier once its mint is recorded.            *)
Recorded(r) == mem.mint[r].status # "minting"

(* The spends of known carriers in one block.                              *)
ScanBlock ==
    /\ pc = "scan"
    /\ todo' = todo \cup {r \in Receipts : back[r].height = height /\ Recorded(r)}
    /\ height' = height + 1
    /\ pc' = IF height >= upTo THEN "next" ELSE "scan"
    /\ UNCHANGED <<cur, phase, upTo, storeVars, outsideVars>>

(* The node does not answer.                                               *)
ScanFails ==
    /\ pc \in {"tip", "scan"}
    /\ Throw
    /\ UNCHANGED <<storeVars, outsideVars>>

-----------------------------------------------------------------------------
(* onReceiptReturned                                                       *)

Oldest(S) == CHOOSE i \in S : \A j \in S : i <= j
Newest(S) == CHOOSE i \in S : \A j \in S : j <= i

Candidates(m, r) ==
    {i \in DOMAIN m.intents : /\ m.intents[i].holder = HolderOf[r]
                              /\ m.intents[i].status \in {"awaiting-receipt", "expired"}}

(* Mutant: the commitment is not compared.                                 *)
AnyCandidate(m, r, c) == Candidates(m, r)

(* The payout commitment picks the intent (listIntents: newest first).     *)
Committed(m, r, c) == {i \in Candidates(m, r) : m.intents[i].payout = c}

(* Without one: the oldest open intent, else the newest expired one.       *)
Legacy(m, r) ==
    LET open == {i \in Candidates(m, r) : m.intents[i].status = "awaiting-receipt"}
    IN IF open # {} THEN Oldest(open) ELSE Newest(Candidates(m, r))

Bindable(r) ==
    IF back[r].commit = NoCommit THEN Candidates(mem, r) # {}
    ELSE Committed(mem, r, back[r].commit) # {}

Binding(r) ==
    IF back[r].commit = NoCommit THEN Legacy(mem, r)
    ELSE Newest(Committed(mem, r, back[r].commit))

(* Spends are taken in the order of their blocks.                          *)
NextReturn(r) ==
    /\ pc = "next"
    /\ phase = "returns"
    /\ r \in todo
    /\ \A s \in todo : back[r].height <= back[s].height

(* A release is claimed or done already, or no intent fits: held.          *)
SkipReturn(r) ==
    /\ NextReturn(r)
    /\ mem.mint[r].status # "minted" \/ ~Bindable(r)
    /\ todo' = todo \ {r}
    /\ UNCHANGED <<pc, cur, phase, height, upTo, storeVars, outsideVars>>

(* Mutant: the claim already records the release.                          *)
ClaimAsRedeemed(r, i) ==
    [mem EXCEPT !.mint[r] = [status |-> "redeemed", intent |-> i]]

WithClaim(r, i) ==
    [mem EXCEPT !.mint[r] = [status |-> "redeeming", intent |-> i]]

(* The release CAS.                                                        *)
ClaimReturn(r) ==
    /\ NextReturn(r)
    /\ mem.mint[r].status = "minted"
    /\ Bindable(r)
    /\ \/ /\ Put("tick", WithClaim(r, Binding(r)))
          /\ pc' = "claimed"
          /\ cur' = r
          /\ todo' = todo \ {r}
          /\ UNCHANGED <<phase, height, upTo>>
       \/ PutRejected(WithClaim(r, Binding(r))) /\ Throw
    /\ UNCHANGED outsideVars

IntentOf(r) == mem.mint[r].intent

WithIntent(i, s) == [mem EXCEPT !.intents[i].status = s]

Attested(kind, r) == [mem EXCEPT !.att = @ \cup {<<kind, r>>}]

ToAttest(kind, r) == AttestEnabled /\ <<kind, r>> \notin mem.att

TellReceived(r) ==
    /\ cur = r
    /\ Follow("claimed", WithIntent(IntentOf(r), "receipt-received"), "told")

AttestReturn(r) ==
    /\ cur = r
    /\ ToAttest("receipt-returned", r)
    /\ Follow("told", Attested("receipt-returned", r), "certified")

ToRelease(r) ==
    /\ cur = r
    /\ pc = "certified" \/ (pc = "told" /\ ~ToAttest("receipt-returned", r))
    /\ Settle("tick")
    /\ Step("release")
    /\ UNCHANGED outsideVars

(* Every spend is handled: the cursor moves to the tip the scan read to.   *)
AdvanceCursor ==
    /\ pc = "next"
    /\ phase = "returns"
    /\ todo = {}
    /\ Save([mem EXCEPT !.cursor = upTo], "advanced")
    /\ UNCHANGED outsideVars

-----------------------------------------------------------------------------
(* attemptRelease                                                          *)

ReleasedSats ==
    FoldFunctionOnSet(LAMBDA x, y : x + y, 0, Sats,
                      {r \in Receipts : mem.mint[r].status = "redeemed"})

Deferred(r) ==
    \/ IntentOf(r) = NoIntent
    \/ paused
    \/ MaxDailyReleaseSats > 0 /\ ReleasedSats + Sats[r] > MaxDailyReleaseSats

(* A 'redeeming' record of the sweep, or of recoverInFlight.               *)
TickRelease(r) ==
    /\ pc = "next"
    /\ phase \in {"boot", "release"}
    /\ r \in todo
    /\ todo' = todo \ {r}
    /\ IF phase = "boot" \/ mem.mint[r].status = "redeeming"
       THEN pc' = "release" /\ cur' = r
       ELSE UNCHANGED <<pc, cur>>
    /\ UNCHANGED <<phase, height, upTo, storeVars, outsideVars>>

ReleaseDeferred(r) ==
    /\ pc = "release"
    /\ cur = r
    /\ Deferred(r)
    /\ Return
    /\ UNCHANGED <<storeVars, outsideVars>>

ReleaseStart(r) ==
    /\ pc = "release"
    /\ cur = r
    /\ ~Deferred(r)
    /\ Step("history")
    /\ UNCHANGED <<storeVars, outsideVars>>

(* Mutant: only the newest payment is looked at.                           *)
AlreadyNewest(i) == sends # <<>> /\ sends[Len(sends)].intent = i

(* The wallet's last payments show one with the comment redeem:<intentId>. *)
Already(i) ==
    \E k \in DOMAIN sends : k + HistoryDepth > Len(sends) /\ sends[k].intent = i

(* Mutants: the intent is put before the record; an unknown status.        *)
IntentFirst(r) == WithIntent(IntentOf(r), "released")

WithRedeemed(r) == [mem EXCEPT !.mint[r].status = "redeemed"]

HistoryFound(r) ==
    /\ pc = "history"
    /\ cur = r
    /\ Already(IntentOf(r))
    /\ Save(WithRedeemed(r), "redeemed")
    /\ UNCHANGED outsideVars

Payout(r) == [intent |-> IntentOf(r), receipt |-> r, to |-> mem.intents[IntentOf(r)].payout]

SendToAddress(r) ==
    /\ pc = "history"
    /\ cur = r
    /\ ~Already(IntentOf(r))
    /\ req' = "open"
    /\ Step("send")
    /\ UNCHANGED <<storeVars, late, sends, chainVars, registered, paused, crashes, faults>>

HistoryFails(r) ==
    /\ pc = "history"
    /\ cur = r
    /\ Save(mem, "failed")
    /\ UNCHANGED outsideVars

SendOk(r) ==
    /\ pc = "send"
    /\ cur = r
    /\ req = "sent"
    /\ req' = "none"
    /\ Save(WithRedeemed(r), "redeemed")
    /\ UNCHANGED <<late, sends, chainVars, registered, paused, crashes, faults>>

(* The wallet refuses, its answer is lost, or the call times out.          *)
SendFails(r) ==
    /\ pc = "send"
    /\ cur = r
    /\ \/ req \in {"sent", "refused"} /\ UNCHANGED late
       \/ /\ LatePayment /\ req = "open" /\ Len(late) < MaxLate
          /\ late' = Append(late, Payout(r))
    /\ req' = "none"
    /\ Save(mem, "failed")
    /\ UNCHANGED <<sends, chainVars, registered, paused, crashes, faults>>

-----------------------------------------------------------------------------
(* finalizeRelease, after the record's write                               *)

TellReleased(r) ==
    /\ cur = r
    /\ Follow("redeemed", WithIntent(IntentOf(r), "released"), "paid")

AttestRelease(r) ==
    /\ cur = r
    /\ ToAttest("btc-released", r)
    /\ Follow("paid", Attested("btc-released", r), "closed")

Finish(r) ==
    /\ cur = r
    /\ pc \in {"failed", "closed"} \/ (pc = "paid" /\ ~ToAttest("btc-released", r))
    /\ Settle("tick")
    /\ Return
    /\ UNCHANGED outsideVars

TickEnd ==
    /\ pc = "next"
    /\ phase \in {"boot", "release"}
    /\ todo = {}
    /\ pc' = "idle"
    /\ phase' = "release"
    /\ UNCHANGED <<cur, todo, height, upTo, storeVars, outsideVars>>

-----------------------------------------------------------------------------
(* The other chains: each awaits one write of its own at a time.           *)

Quiet(t) == \A k \in DOMAIN saveChain : saveChain[k].by # t

Beside(t, m) ==
    /\ Quiet(t)
    /\ Put(t, m) \/ PutRejected(m)
    /\ UNCHANGED <<tickVars, outsideVars>>

(* createRedeemIntent, its addresses validated.                            *)
WithRegistration(h, a) ==
    LET new == [holder |-> h, payout |-> a, status |-> "awaiting-receipt"]
    IN [mem EXCEPT !.intents = [i \in DOMAIN @ \cup {registered + 1} |->
                                    IF i \in DOMAIN @ THEN @[i] ELSE new]]

Register(h, a) ==
    /\ registered < MaxIntents
    /\ registered' = registered + 1
    /\ Quiet("api")
    /\ Put("api", WithRegistration(h, a)) \/ PutRejected(WithRegistration(h, a))
    /\ UNCHANGED <<tickVars, walletVars, chainVars, paused, crashes, faults>>

(* expireStaleIntents                                                      *)
PollExpire(i) ==
    /\ mem.intents[i].status = "awaiting-receipt"
    /\ Beside("poll", WithIntent(i, "expired"))

(* finalizeMint records a receipt that is on chain.                        *)
RecordMint(r) ==
    /\ mem.mint[r].status = "minting"
    /\ Beside("mint", [mem EXCEPT !.mint[r].status = "minted"])

BesideWritten ==
    /\ \E t \in {"api", "poll", "mint"} : Settle(t)
    /\ UNCHANGED <<tickVars, outsideVars>>

-----------------------------------------------------------------------------
(* The wallet, the chain, the operator, failures                           *)

WalletPays(r) ==
    /\ cur = r
    /\ req = "open"
    /\ Len(sends) < MaxSends
    /\ req' = "sent"
    /\ sends' = Append(sends, Payout(r))
    /\ UNCHANGED <<storeVars, tickVars, late, chainVars, registered, paused, crashes, faults>>

WalletRefuses ==
    /\ req = "open"
    /\ req' = "refused"
    /\ UNCHANGED <<storeVars, tickVars, late, sends, chainVars, registered, paused, crashes, faults>>

WalletPaysLate ==
    /\ late # <<>>
    /\ Len(sends) < MaxSends
    /\ sends' = Append(sends, Head(late))
    /\ late' = Tail(late)
    /\ UNCHANGED <<storeVars, tickVars, req, chainVars, registered, paused, crashes, faults>>

(* The written file has what r's return needs: the record, the cursor, and *)
(* a registration of the address the return commits to.                    *)
Prepared(r, c) ==
    /\ disk.mint[r].status = "minted"
    /\ disk.cursor # NoCursor
    /\ c # NoCommit
    /\ Committed(disk, r, c) # {}

(* Holders spend carriers to the redemption address, in one block.         *)
MineBlock(S) ==
    /\ tip < MaxTip
    /\ tip' = tip + 1
    /\ \E c \in [S -> Addresses \cup {NoCommit}] :
        /\ \A r \in S : c[r] \in Commits[r]
        /\ back' = [r \in Receipts |-> IF r \in S THEN [height |-> tip + 1, commit |-> c[r]]
                                       ELSE back[r]]
        /\ owed' = owed \cup {r \in S : Prepared(r, c[r])}
    /\ UNCHANGED <<storeVars, tickVars, walletVars, registered, paused, crashes, faults>>

TogglePause ==
    /\ Pausable
    /\ paused' = ~paused
    /\ UNCHANGED <<storeVars, tickVars, walletVars, chainVars, registered, crashes, faults>>

StoreFault ==
    /\ faults < MaxWriteFaults
    /\ faults' = faults + 1
    /\ WriteFails
    /\ IF "tick" \in Awaiting THEN Throw ELSE UNCHANGED tickVars
    /\ UNCHANGED <<walletVars, chainVars, registered, paused, crashes>>

(* A new process recovers what is in flight.                               *)
Reboot ==
    /\ Reload
    /\ pc' = "next"
    /\ cur' = NoReceipt
    /\ phase' = "boot"
    /\ todo' = Redeeming(disk)
    /\ height' = 0
    /\ upTo' = 0
    /\ \/ req # "open" /\ UNCHANGED late
       \/ /\ LatePayment /\ req = "open" /\ Len(late) < MaxLate
          /\ late' = Append(late, Payout(cur))
    /\ req' = "none"
    /\ UNCHANGED <<sends, chainVars, registered, paused, faults>>

Crash ==
    /\ crashes < MaxCrashes
    /\ crashes' = crashes + 1
    /\ Reboot

Exit ==
    /\ pc = "halted"
    /\ Reboot
    /\ UNCHANGED crashes

-----------------------------------------------------------------------------
TickNext ==
    \/ TickStart \/ FirstScan \/ NothingNew \/ ScanStart \/ ScanBlock
    \/ AdvanceCursor \/ TickEnd
    \/ \E r \in Receipts :
        \/ SkipReturn(r) \/ ClaimReturn(r) \/ TellReceived(r) \/ AttestReturn(r) \/ ToRelease(r)
        \/ TickRelease(r) \/ ReleaseDeferred(r) \/ ReleaseStart(r)
        \/ HistoryFound(r) \/ SendToAddress(r) \/ SendOk(r)
        \/ TellReleased(r) \/ AttestRelease(r) \/ Finish(r)

FailNext == ScanFails \/ \E r \in Receipts : HistoryFails(r) \/ SendFails(r)

BesideNext ==
    \/ \E h \in Holders, a \in Addresses : Register(h, a)
    \/ \E i \in DOMAIN mem.intents : PollExpire(i)
    \/ \E r \in Receipts : RecordMint(r)
    \/ BesideWritten

OutsideNext ==
    \/ (\E r \in Receipts : WalletPays(r)) \/ WalletRefuses \/ WalletPaysLate
    \/ \E S \in SUBSET {r \in Receipts : back[r] = Unspent} : MineBlock(S)
    \/ TogglePause \/ StoreFault \/ Crash \/ Exit

Next == TickNext \/ FailNext \/ BesideNext \/ OutsideNext

Spec == Init /\ [][Next]_vars

-----------------------------------------------------------------------------
(* What the way back promises                                              *)

PaymentsFor(r) == {k \in DOMAIN sends : sends[k].receipt = r}

(* Every send carries redeem:<intentId>, so after a crash the payment is   *)
(* found instead of paid twice (gateway.ts:1290-1294): a receipt is paid at*)
(* most once, and so is an intent.                                         *)
PaidOnce ==
    \A j, k \in DOMAIN sends :
        sends[j].receipt = sends[k].receipt \/ sends[j].intent = sends[k].intent => j = k

(* A return that commits to a payout address is paid to that address and no*)
(* other (gateway.ts:1228-1237), whatever else was registered for its      *)
(* holder, whatever expired, and whatever a restart reloaded; and nothing  *)
(* is paid for a receipt that has not come back.                           *)
PayoutCommitted ==
    \A k \in DOMAIN sends :
        LET r == sends[k].receipt
        IN /\ back[r] # Unspent
           /\ back[r].commit \in {NoCommit, sends[k].to}

(* A written redeem intent never tells more than the written ledger: one   *)
(* that received its receipt is bound by a claimed record, a released one  *)
(* by a redeemed record (gateway.ts:1269-1280 and 1339-1349).              *)
IntentNeverAhead ==
    \A i \in DOMAIN disk.intents :
        LET bound == {disk.mint[r].status : r \in {s \in Receipts : disk.mint[s].intent = i}}
        IN /\ disk.intents[i].status = "receipt-received" => bound # {}
           /\ disk.intents[i].status = "released" => "redeemed" \in bound

(* Releases keep the promise mints keep, one level up: a receipt is claimed*)
(* durably before its payment is asked for (gateway.ts:1269), is paid at   *)
(* most once, and is recorded as redeemed only when paid.                  *)
Ledger == INSTANCE ReceiptLedger WITH
    Deposits <- Receipts,
    claimed <- {r \in Receipts : disk.mint[r].status \in {"redeeming", "redeemed"}},
    issued <- [r \in Receipts |-> Cardinality(PaymentsFor(r))],
    recorded <- {r \in Receipts : disk.mint[r].status = "redeemed"}

LedgerSpec == Ledger!Spec

-----------------------------------------------------------------------------
(* Fairness: the timer and the promise continuations run (weak); the nodes,*)
(* asked again and again for a height, a block, the wallet's history or a  *)
(* payment, answer again and again (strong).                               *)
Fairness ==
    /\ WF_vars(TickNext)
    /\ WF_vars(BesideWritten)
    /\ WF_vars(WalletRefuses)
    /\ WF_vars(\E r \in Receipts : SendFails(r))
    /\ WF_vars(Exit)
    /\ SF_vars(pc = "tip" /\ (FirstScan \/ NothingNew \/ ScanStart))
    /\ \A h \in 1..MaxTip : SF_vars(height = h /\ ScanBlock)
    /\ \A r \in Receipts :
        /\ SF_vars(HistoryFound(r))
        /\ SF_vars(SendToAddress(r))
        /\ SF_vars(WalletPays(r))

FairSpec == Spec /\ Fairness

(* Once the pause file stays away and the store writes again, a return with*)
(* everything it needs on disk when it was mined, and a claimed one, is    *)
(* redeemed in the end (gateway.ts:1114-1119, 1170-1172): the cursor never *)
(* passes a block whose return has no durable claim.                       *)
OwedIsRedeemed ==
    <>[](~paused /\ ~poisoned) =>
        \A r \in Receipts :
            r \in owed \/ disk.mint[r].status = "redeeming" ~> disk.mint[r].status = "redeemed"

====
