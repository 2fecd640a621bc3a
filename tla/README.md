# SOQ-TEC relayer: TLA+ models, checks and proofs

This directory is a verification development for the programs of this repository. It models the
parts that move value, checks them with TLC on small instances, and proves the most important
statements with TLAPS for every value of the constants.

Line references are `file:line` under `src/`; `gateway.ts`, `store.ts`, `soq-scan.ts` and
`signer-client.ts` are in `relayer/src/btcsoq/`.

## 1. Inventory

| Part | State it keeps | Operations | Interacts with | Hard behaviour |
|---|---|---|---|---|
| **BTCSOQ gateway** (`relayer/src/btcsoq/gateway.ts`) | dedup map, in-flight sets, PoR flag, and everything in the store | deposit events, mint, redeem/release, convert and 402 legs, attestations, anchors, expiry, boot recovery | bitcoin CEA (callback), router (sink), gateway signer, Soqucoin node, release wallet, store | two timers and an HTTP push interleave at every `await`; crash between any two writes; lost answers; late broadcasts |
| **State store** (`store.ts`) | one JSON document in memory, one on disk, a promise chain of writes | `putX`, `claimX` (compare-and-set), `load` | everything in the gateway | memory is ahead of the disk; a rejected write rejects all later ones |
| **Bitcoin CEA** (`relayer/src/cea/bitcoin-cea.ts`) | poll cursor, `checking` flag | `checkNow`, `pollBurns`, `verifyBurn`, SPV proofs | bitcoind wallet | cursor moves before the callbacks run; confidence upgrades are re-emitted |
| **DUA router** (`relayer/src/cea/router.ts`) | seen set, pending releases, halt flags | `onBurnDetected`, PAUL release, direct release, halt/resume | CEAs, lane manager, release strategies | in-memory dedup, time-out of one path then another |
| **Solana CEA** (`relayer/src/cea/solana-cea.ts`) | last signature | poll, parse, webhook | Solana RPC, router | paging, order of signatures |
| **402/Lightning and convert clients** (`ln402.ts`, `convert-client.ts`) | the payer's channel, in memory and in a file | channel, challenge, invoice, pay, redeem; execute | LSP, sellers, production signer | several payers read and write one channel; a payment whose answer is lost |
| **Theater** (`theater.ts`) | day budgets, session meter, the heartbeat's count | gate, ask, duel, race, heartbeat | the shared 402 client | a race keeps the channel's state itself while others pay |
| **HTTP API** (`btcsoq/api.ts`, `api.ts`) | rate limits, price cache, airdrop cool-downs | routes | gateway, router | |
| **Legacy queue and watchers** (`queue.ts`, `watchers/*.ts`, `bridge/solana-executor.ts`) | transfer queue, last height/signature | enqueue, scan, proof-of-reserves | Solana, Soqucoin nodes | overlapping polls, cursors that go back, everything in memory |
| **Anchor programs** (`programs/soqtec-bridge`, `programs/xmss-vault`) | bridge and vault accounts | initialize, burn, mint, pause; open, withdraw, deposit, bridge_out | Solana runtime, each other's token | one-time signature leaves, checked arithmetic, limits |
| **Lane manager** (`relayer/lane-manager.py`) | UTXO lanes | sync, fund, refill, reserve, release | Soqucoin node, router | threads sharing lanes |
| Dashboard, demo and deployment scripts, ops, generated IDL, configuration | – | – | – | presentation or tooling, not modelled |

### What makes each part correct

* **Mint pipeline**: one deposit outpoint gets one receipt, ever; the claim is durable before the
  signer is asked; only confirmed, bound and sufficient deposits are minted; the intent shown never
  runs ahead of the ledger; an eligible deposit is minted in the end.
* **Redemption**: a returned receipt is paid once, to the payout its return commits to; the claim
  is durable before the wallet is asked; a claimed release is paid in the end.
* **Legs**: a loop is converted once and pays one invoice; both happen in the end; a signature is
  over what happened.
* **Rail and theater**: the channel's books equal the invoices paid on it; the meter tells what was
  paid; the demonstration goes on.
* **CEA and router**: no confirmed deposit is lost or released twice, whichever path answers.
* **Programs**: the counters tell what the bridge itself minted and burned, and what was claimed
  covers it; a vault leaf signs once; limits hold at their boundaries.
* **Lanes**: a UTXO is spent by one release. **Legacy watchers**: what a cursor has passed was seen.

## 2. Modules and plan

| # | Modules | What they say | Status |
|---|---|---|---|
| 1 | `GatewayStore`, `BtcsoqMint`, `ReceiptLedger`; invariants `BtcsoqMintInv`, proofs `BtcsoqMintSafety` | mint pipeline, abstract ledger, refinement | checked, proved |
| 2 | `BtcsoqRedeem`; invariants `BtcsoqRedeemInv`, proofs `BtcsoqRedeemSafety` | redemption and release on the same store, implementing the same `ReceiptLedger` | checked, proved |
| 3 | `SoqtecBridge`, `XmssVault`; proofs `BooksSafety` | the two Solana programs, the vault calling the bridge | checked, proved |
| 4 | `PaulService`, `DuaRouter`, `BurnRelease`; proofs `BurnReleaseOnce` | the router over an abstract lane manager, fed by the Solana adapter | checked, proved |
| 5 | `LaneManager`; invariants `LaneManagerInv`, proofs `LaneManagerProofs` | the lane manager, implementing `PaulService` | checked, proved |
| 6 | `DepositLane`; proofs `DepositLaneSafety` | the same router and the store, fed by the bitcoin adapter | checked, proved |
| 7 | `PaymentRail`, `BtcsoqLegs`, `Theater`; proofs `BtcsoqLegsSafety`, `BooksSafety` | the payment channel and its two users: the legs behind the mint, the terminal | checked, proved |
| 8 | `TransferQueue`, `ChainWatchers`; proofs `ChainWatchersSafety` | the legacy watchers, and the queue they feed | checked, proved |

Composition. Every gateway module extends `GatewayStore`. Each pipeline has a module of its own
because the pipelines share nothing but the store's write chain, whose interleaving with foreign
writes each module contains (a queued write of another chain only delays this one's). `DuaRouter`
extends `PaulService`, and both adapters extend `DuaRouter`: what the router is composed with is the
abstraction that `LaneManager` is shown to implement. `BtcsoqLegs` and `Theater` extend
`PaymentRail`, which leaves open who the payers are.

Each run checks every property it lists and nothing else; each is a separate question. A type
invariant is a run's property only for `BtcsoqMint`; elsewhere it is a conjunct of the inductive
invariant that is proved. An invariant module (`...Inv`) holds definitions only; the inductive
invariants were checked by TLC on the runs' instances before they were proved. `BooksSafety` proves
about two systems, the programs (`Spec`) and the terminal (`TheaterSpec`): both keep books that are
sums, and the lemmas about sums are there once.

## 3. The mint pipeline

### `GatewayStore`

`mem` is the object readers see, `saveChain` the queue of snapshots `persist()` has chained
(`store.ts:254`), `disk` the file after its last completed rename, `poisoned` a rejected chain.
`Put` takes the snapshot when it is called, `Settle`/`SettlePut` complete the oldest write and
continue its caller, `WriteFails` rejects the chain, `Reload` is a new process. A write's completion
and its caller's continuation are one step: only microtasks run between them, and a crash in between
leaves what a crash after the step leaves.

### `BtcsoqMint`

Two call chains, `"poll"` (`checkNow` → `onDepositEvent` → `mintForDepositKey`, and the expiry of
intents) and `"tick"` (`recoverInFlight`, then `moneyTick`), interleave at every `await`; `pc` names
what a chain awaits and each action is the synchronous stretch from one `await` to the next.
`inFlight` is `mintingInFlight`; `req` and `late` are requests at the signer, the latter abandoned by
their client; `mempool`, `blocks`, `tip` are the Soqucoin chain. `Crash` may happen anywhere, and
`Exit` is `main()` leaving after `start()` throws.

| Code | Actions |
|---|---|
| `onDepositEvent`, `transition` | `PollDetect`, `PollRevive`, `PollTransit`, `PollCertify`, `PollRoute` |
| `expireStaleIntents` | `PollExpire` |
| `mintForDepositKey` | `RouteNothing`, `RouteUnderpaid`, `RouteValidate`, `ValidateOk/Bad/Unreachable`, `Claim`, `ClaimUnreachable`, `BindIntent`, `StartDrive` |
| `attemptMint`, `findMintTx` | `DriveNothing`, `DriveStart`, `LookupMempool`, `LookupFails`, `ScanFound`, `ScanMissing`, `SendRequest`, `SendOk`, `SendFails` |
| `finalizeMint`, `attest` | `TellIntent`, `AttestMint`, `Finish` |
| `moneyTick`, `recoverInFlight` | `TickStart`, `TickDeposit`, `TickMint`, `TickAdvance`, `Reboot` |

Abstractions. One behaviour is one 24-hour window of the caps. Amounts matter only to the minimum
and the cap. `attempts`, `lastError` and SPV proofs are not kept; `getSpvProof`'s await is fused
with the deposit's put. Sweeps take their elements in any order (the code: newest first). The
router's path into `mintForDepositKey` is the direct path: `runStrategy` catches what this model
calls a thrown event. Signing an attestation (after its record is put) and the start of the convert
leg, which runs beside the mint, belong to `BtcsoqLegs`. The chain does not reorganise.
`tipHeight`'s answer is current. Expiry runs between polls; a concurrent `blocknotify` could run it
beside one. A receipt found to pay another address is folded into `LookupFails`.

### Properties

* `AtMostOneReceipt` – at most one broadcast per outpoint (`gateway.ts:468`).
* `ClaimOutlivesCrash` – whatever is at the signer or on chain has a claim *on disk*, whose scan
  range covers the receipt's block (`store.ts:302`).
* `ReceiptBacked` – a receipt's deposit is confirmed *on disk*, bound, of sufficient amount.
* `IntentNeverAhead` – the written intent never tells more than the written ledger.
* `LedgerSpec` – the pipeline implements `ReceiptLedger`: claims and records are monotone and
  durable, a receipt follows its claim, a record follows its receipt.
* `EligibleIsMinted` – liveness: stuck deposits and stuck claims are driven to a receipt.
* `MintInv` – the inductive invariant of the proofs, `ClaimInv` and `TruthInv`, checked as an
  invariant too.

### Runs

| Run | Instance | Shows |
|---|---|---|
| `MintSafety` | 2 deposits on one address, both chains, 1 crash, 1 failing write, 1 block | the safety properties and the refinement |
| `MintHeld` | 3 deposits: good, dust on the same address, undecodable recipient | held deposits hold nothing else up |
| `MintLiveness` | 1 deposit, crash, late broadcast, breakers, mempool to finalized | liveness, and `MintInv` with late broadcasts; no write fails |

Two deposits are the least at which chains, intents and caps interact, and the two chains are all
the code has; one crash and one failing write reach every recovery path, and the theorems below
cover any number of each. `ScanMargin` is 0 in the instances (2 in the code): a smaller margin makes
recovery harder; the theorems hold for any.

Fairness (`Fairness`). Timers fire and continuations run: weak fairness of the tick, of the chains'
own steps and of a restart after `main()` exits. A node or a signer that is asked about one deposit
again and again answers again and again: strong fairness of the successful answer per eligible
deposit. Nothing forces a poll to find a new confidence, a block to be mined or a breaker to clear:
`EligibleIsMinted` assumes the breakers stay clear from some point on.

### What is proved

TLAPS checks, for every set of deposits and intents, every binding and amount, and any number of
blocks, crashes, failing writes and late broadcasts (all in `BtcsoqMintSafety`):

* `TypeCorrect`: `Spec => []TypeOK`.
* `ClaimsHold` and `ClaimsOutliveCrashes`: `Spec => []ClaimInv`, `Spec => []ClaimOutlivesCrash`.
* `ReceiptsAreBacked` and `IntentsAreBehind`: `Spec => []ReceiptBacked`,
  `Spec => []IntentNeverAhead`, from `MintInvHolds` (`Spec => []MintInv`).
* `OneReceipt` and `ImplementsLedger`: if no request outlives its client (`LateBroadcast = FALSE`),
  `Spec => []AtMostOneReceipt` and `Spec => LedgerSpec`.

`ClaimOutlivesCrash` is not inductive: that the disk holds a claim when the request goes out depends
on what the queued snapshots hold. `ClaimInv` adds the order of versions (`StoreInv`: disk, queued
snapshots and memory only grow in claims), what a queued write holds for the chain that waits for it
(`WriteInv`), the in-flight set as a lock (`LockInv`), and where a receipt on chain is found
(`ChainInv`). Each step of a chain is shown to stay within the bounds `Apart`, `Stores`, `Locks`,
`Claims`; `ChainStep` shows once that those bounds preserve the invariant. `OnceInv` then follows
the order lookup – scan – attempt – request, which one chain at a time takes per outpoint
(`Orderly`), and gives the refinement: a step writes the file (`Persist`) or broadcasts (`Issue`).

`MintInv` adds `TruthInv` for what a receipt stands on. A crash goes back to any version, so each
version alone must tell no more than is so (`Tells`: a claim is in the same snapshot as the
confirmation it was decided on, an intent as its mint record), and what a chain looked at before an
`await` must still hold after it (`Checked`: the other chain only raises confidences).

Only model-checked: `EligibleIsMinted`; liveness is out of the prover's reach.

## 4. Redemption and release

### `BtcsoqRedeem`

The way back is one call chain: `recoverInFlight` at boot, then the second half of `moneyTick`. `pc`
names what it awaits; `phase` says whether it sweeps the boot's claims, a scan's returns or the
`redeeming` records; `height` and `upTo` are the scan's place. `back` is where each carrier was spent
to the redemption address and the payout commitment that spend carries; `sends` are the release
wallet's payments in order, `req` and `late` what it has been asked for. Three other chains only put
and await their own write: the API (`Register`), the poll (`PollExpire`) and the mint pipeline
(`RecordMint`). `owed` is a history variable: the returns which, when mined, had on disk the mint
record, a scan cursor and a registration of the committed payout.

| Code | Actions |
|---|---|
| `scanForRedemptions`, `scanRedemptions` | `TickStart`, `FirstScan`, `NothingNew`, `ScanStart`, `ScanBlock`, `ScanFails`, `AdvanceCursor` |
| `onReceiptReturned`, `attest` | `SkipReturn`, `ClaimReturn`, `TellReceived`, `AttestReturn`, `ToRelease` |
| `attemptRelease` | `TickRelease`, `ReleaseDeferred`, `ReleaseStart`, `HistoryFound`, `HistoryFails`, `SendToAddress`, `SendOk`, `SendFails` |
| `finalizeRelease` | `TellReleased`, `AttestRelease`, `Finish` |
| `createRedeemIntent`, `expireStaleIntents`, `finalizeMint` | `Register`, `PollExpire`, `RecordMint`, `BesideWritten` |

Abstractions. An intent's id is its rank among all registrations ever made (the code: a random UUID),
so it also gives `createdAt`'s order. The wallet's history is the last `HistoryDepth` payments (the
code: 1000 transactions of any kind). One behaviour is one 24-hour window. A commitment is the
address it commits to: the truncated hash is taken as injective. A registration's address checks,
which keep no state, precede it. The mint half of the tick is `BtcsoqMint`; it can only delay this
half or end the tick early, which `ScanFails` also does. The chain does not reorganise.

### Properties

* `PaidOnce` – no receipt and no intent is paid twice.
* `PayoutCommitted` – a return that commits to an address is paid there, and only what came back is
  paid.
* `IntentNeverAhead` – a written redeem intent never tells more than the written ledger.
* `LedgerSpec` – releases implement `ReceiptLedger`: durable claim, at most one payment, record only
  after the payment.
* `OwedIsRedeemed` – liveness: what was owed when mined, and what is claimed, is redeemed.

### Runs

| Run | Instance | Shows |
|---|---|---|
| `RedeemSafety` | 2 receipts of 1 holder, each return committing to its own address, 2 registrations, 1 crash | the safety properties and the refinement |
| `RedeemLiveness` | 1 receipt, return with or without commitment, 1 registration, pause, cap equal to the amount, 1 crash, 1 failing write, 1 late payment | liveness |

Two receipts of one holder are the least at which bindings, comments and ledger entries can be
confused; two blocks put returns behind and ahead of a cursor. `RedeemSafety` has neither failing
writes nor two returns with one payout: the properties do not survive either (section 10).
`HistoryDepth` exceeds the payments an instance can make.

Fairness. The tick, the writes beside it, the restart after `main()` exits, and the handling of a
wallet's error are weakly fair. The node and the wallet, asked again and again for the tip, a given
block, the history or a payment, answer again and again: strong fairness of each. Nothing forces a
registration, a spend or a block. `OwedIsRedeemed` assumes that the pause file stays away and the
store writes again from some point on: a poisoned write chain lasts until a restart nobody promises.

### What is proved

`BtcsoqRedeemSafety`, for any receipts, registrations, blocks, crashes and restarts. The results come
in tiers, each with the least it needs of the outside:

* Whatever fails or comes late: `ReleaseInvHolds` (`Spec => []ReleaseInv`), `PayoutsAreCommitted`
  (`Spec => []PayoutCommitted`) and `RedeemIntentsAreBehind` (`Spec => []IntentNeverAhead`).
* `Seen` – the wallet pays nothing its client gave up, and its history shows every payment of the
  behaviour: `NoIntentPaidTwice`.
* besides `StoreWrites` – no write fails: `PaymentsAreOnce` (`Spec => []PaidOnce`).
* besides `OwnCommits` – each return commits to a payout of its own: `ReleasesImplementLedger`
  (`Spec => LedgerSpec`).

Each hypothesis is one of the disagreements of section 10 assumed away, and the properties fail
without it. `ReleaseInv` says of each version of the file alone that a claimed release is bound to an
intent its return allows (`VersionOK`), and of the tick that what it pays is so claimed: a crash can
then go back to any version. Once-only payment needs the versions compared: `OrderInv` (later ones
keep the releases of earlier ones), `ClaimDurable` (a claim is on disk before the payment, so that a
restart looks the same intent up) and `SentInv` (an open request is for an intent no payment names).

Only model-checked: `OwedIsRedeemed` (liveness).

## 5. The Solana programs

### `SoqtecBridge`, `XmssVault`

A transaction is atomic, so each action is one instruction that succeeds; what fails changes nothing.
`SoqtecBridge` is the bridge program: `bridge` is the `BridgeState` account, `processed` the
per-deposit accounts, `accounts` and `held` the token accounts, `handed` the mints whose authority is
the bridge's PDA. `XmssVault` extends it with the vaults; `BridgeOutFromVault` is `Sign` and the
bridge's own `Burn` in one step, as the cross-program call is. `minted`, `spent`, `owed`, `signed` and
`outside` are history variables; the last is what was minted less what was burned without the bridge.

| Code | Actions |
|---|---|
| `initialize`, `set_mint`, `pause_bridge`, `resume_bridge` | `Initialize`, `SetMint`, `SetPaused` |
| `burn_for_redemption` | `BurnForRedemption` (a wallet's), `Burn` inside `BridgeOutFromVault` |
| `mint_from_deposit`, `mint_to_vault` | `MintFromDeposit`, `MintToVault` |
| `update_vault_balance` | `UpdateVaultBalance` |
| the token program without the bridge | `HandOver`, `MintOutside`, `BurnOutside` |
| `open_xmss_vault`, `withdraw_from_vault`, `deposit_to_vault`, `bridge_out_from_vault` | `OpenXmssVault`, `WithdrawFromVault`, `DepositToVault`, `BridgeOutFromVault` |

Signature lists count as the code counts them: by how many entries name a validator, one validator
named twice as two, and no signature is verified (`lib.rs:134`, `:194`, `:252`). So the model has no
honest validators: a mint instruction names any txid and amount, and an attested balance is any number
(`Attestable`). A mint may have a supply and an authority of its own when `initialize` or `set_mint`
names it, and others mint and burn it before and after, as the deployer does in
`tests/soqtec-bridge.ts:64`, `:127`.

Abstractions. A WOTS+ signature with its Merkle path verifies when the named leaf's key made it for
this message: `wots.rs` and `merkle.rs` are not translated. Actions restricted to an owner or an
authority are those callers'. A vault's token account is made by `open_xmss_vault` and not before.
Transfers between wallets add nothing (mints go to any account). `vault_status` only prints.

### Properties

* `EpochWithinLimit` – an epoch's burns, by wallets and vaults, stay within `daily_limit`.
* `MintedOnce` – a txid is minted for once, by either instruction.
* `CountersTellSupply` – what circulates, over all mints, is `total_minted - total_burned` but for
  exactly what was minted and burned without the bridge, which the counters do not see.
* `ClaimsCover` – what the mint instructions *said* was deposited covers the tokens that came by the
  bridge, with every release the burns ask for paid. Whether the deposits exist the code does not check
  and the property does not say.
* `LeafSignsOnce` – no leaf of a vault signs twice, none outside its tree signs.

### Runs

| Run | Instance | Shows |
|---|---|---|
| `ProgramsSafety` | 1 wallet, 1 vault, 2 mints, 2 txids, 2 epochs; depths 1 and 2 with a 2-bit index; the largest u64 is 5; at most 4 minted or burned without the bridge | the safety properties |

The amounts are one below the minimum (for withdrawals) and one that pays a fee; the limit admits one
or two burns per epoch. `MaxU64 = 5` lets the burned total reach its overflow check while an epoch's
limit still has room. `MaxOutside = 4` lets more be burned through the bridge than it minted, as the
repository's test does. `LeafBits = 2` puts depth 2 where depth 16 is in the code: there the index's type,
and not the tree, ends the vault, one leaf early (`state.rs:55`; from depth 17 on most leaves are out
of reach, though `state.rs:5` speaks of 2^depth signatures). Every state allows an instruction, so
deadlock is checked. There is no fairness: nothing obliges anyone to send a transaction.

### What is proved

`BooksSafety`, for every number of owners, vaults, mints, deposits and epochs, all amounts,
limits, depths, and any width of index and amounts: `LimitHolds` (`Spec => []EpochWithinLimit`),
`DepositsMintOnce` (`Spec => []MintedOnce`), `LeavesSignOnce` (`Spec => []LeafSignsOnce`). None is
inductive alone. `BridgeInv` adds that the kept volume is that of `lastEpoch`, after which nothing
was spent, so a reset never forgets a burn of the running epoch; and that a deposit was minted for
exactly when its account exists. `LeafInv` says which leaves were used, in order: those before the
index. The assumption `LeavesAssumption` states the two facts on powers of two the provers lack; TLC
evaluates it in each run.

The books are proved too: `CountersTell` (`Spec => []CountersTellSupply`) and `ClaimsCoverBridged`
(`Spec => []ClaimsCover`), from `BalancesHold` (`Spec => []BalanceInv`): for mints of any prior supply,
whoever else mints and burns them, and for any deposits claimed. `BalanceInv` is both properties, the
types of the accounts, and that nothing is counted before `initialize`, which sets the counters to 0.
Both properties are sums over accounts, which the model takes as folds; `BooksSafety` begins by proving
that such a sum changes by what one account changes by. The library's induction theorems cannot be
instantiated here, so its induction is first-order: over the *set* of the subsets for which the claim
holds. Sums need finitely many owners, mints and txids (`AccountAssumption`), which a ledger has.

## 6. The Solana lane: router, lane manager, adapter

### `PaulService`, `DuaRouter`, `BurnRelease`, `LaneManager`

`PaulService` is what the lane manager promises: a single-threaded server keeps requests in order,
serves each to its end whether or not its caller still listens, pays for each at most once, and
answers `ok` only for what it paid. It does not recognise a burn it has served before.

`DuaRouter` is `cea/router.ts`, over any adapter: `seen` is `seenSet`, `releases` the records, `leg`
and `strategies` what a handler awaits; `halted` the flag. `paul` and `direct` count payments, and
`doubts` counts the releases given up or forgotten while their outcome was unknown: the 60 s abort, a
lost answer, an error for what was paid, a restart.

`BurnRelease` composes the router with `cea/solana-cea.ts`. Signatures are numbered; `last` and
`pollRef` are the two references. A poll is two awaits on the node and then one handler per burn;
`setInterval` lets polls overlap, and the webhook names any finalized signature at any time.

| Code | Actions |
|---|---|
| `onBurnDetected` | `Repeated`, `Upgraded`, `Pended`, `Begun` |
| `releasePAUL`, `releaseDirect` | `PaulReleased`, `PaulFailed`, `PaulAborted`, `DirectReleased`, `DirectRefused`, `DirectLost` |
| the release strategy | `StrategyAnswered` |
| `halt`, `resume` | `SetHalted` |
| `start`, `processWebhookPayload`, `pollBurns` and the router's poll loop | `Restart`, `Webhook`, `PollBegin`, `PollEmpty`, `PollListed`, `PollParsed`, `PollHands`, `PollEnds` |

`LaneManager` is `relayer/lane-manager.py`: the HTTP thread, the sync and refill threads, and one
SQLite file, which survives `Crash`. A block under `_db_lock` is a step; other threads run between
two of them. The signer chooses the coins it spends: the coin a release reserves is only noted.
`PaulSpec` is the refinement: `LaneManager` implements `PaulService`, so that the router's composition
holds with the real server.

| Code | Actions |
|---|---|
| `do_POST /bridge`, `do_bridge_release` | `Accept`, `FindBest`, `LaneExhausted`, `Reserve`, `Send`, `SendRefused`, `Book`, `BookFails`, `Revert`, `RevertFails` |
| `sync_utxos` | `SyncBegin`, `SyncQuery`, `SyncQueryFails`, `SyncMark` |
| `refill_lanes`, `fund_lane_utxo` | `RefillBegin`, `FundRegister`, `FundSend`, `FundRefused`, `RefillEnds` |

At this commit `lane-manager.py` uses `SIGNER_URL` and `SIGNER_TOKEN` without defining them
(`lane-manager.py:170`, `:699`); the model is of the program with both defined.
`docs/PAUL_ARCHITECTURE.md:5` calls the lanes retired; the router still asks them first
(`router.ts:256`).

### Properties

* `PaidOncePerDoubt` – a burn is paid again only after a doubt, once for each.
* `RecordTells` – a record that names a method was paid by it; a pending one was not, doubts aside;
  what was seen is recorded or under way.
* `PollTakesUp` – liveness: every final burn the webhook never names reaches the router through the
  polls, with three exceptions: a start skipped it, it failed to parse as the oldest of its batch, or
  a page of signatures was full before it was listed (`cut`). The code loses each of these.
* `CoinToldOnce` – no coin is noted as the release of two burns.
* `ReservedIsServed` – a coin is reserved only while its release is served.
* `StaleIsGone` – a row is marked stale only when its coin is spent, however releases, refills and
  another sync interleave between the queries and the marking. History names the exceptions, coin by
  coin (`blamed`): the marking sync's query of the coin's address failed, or another sync added its row
  after the marking one had asked there. It does not say that a marked coin stays out of its lane: a
  release that had found it gives it back (section 10).
* `PaulSpec` – the refinement.

### Runs

| Run | Instance | Shows |
|---|---|---|
| `BurnRelease` | 1 burn among 4 signatures in blocks of 2, 2 overlapping polls, pages of 2, 1 upset (a restart, a halt, an unparsed transaction), policy 3 | dedup, audit trail, polling |
| `Lanes` | 2 burns, 2 coins, 2 denominations on one address, 2 syncs and 1 refill thread, 2 connections (to `/bridge` or `/sync`), 1 upset (a fault or a crash) | the coins' books and the refinement |

One burn is enough for dedup, which is per burn; the signatures around it make batches with an oldest
that is not the burn, a reference to go back to, and, when both blocks are final before a poll, a page
that is full before the burn is listed. Two polls are the least that overlap. In `Lanes`
two coins and two releases are the least at which a coin can be told twice; a `/sync` in the HTTP
thread can only run between requests, and overlaps with the background thread's: with one release and
one `/sync` a coin is found, marked, and given back, and each exception of `StaleIsGone` happens.
`ReservedIsServed` names its exceptions too: a crash or an unwritable file leaves a coin reserved for
ever.

Fairness (`BurnRelease`). Timers fire and every await of a handler ends, by its abort if not by an
answer: weak fairness of the release steps and of each stretch of a poll; a node that is asked again
and again lists signatures at last: strong fairness of `PollListed`. Health reports and
the registration of the webhook are left out, and no finalized signature disappears.

The two coins of `Lanes` are interchangeable until a transaction makes one, so the run uses their
symmetry; it checks no liveness.

### What is proved

* `LanesImplementPaul` (`LaneManagerProofs`): `Spec => PaulSpec`, for any burns, coins, denominations,
  sync and refill threads, and any number of faults and crashes. The one invariant it needs is
  `ServedInv`, that what is served is a request: only the HTTP thread's steps touch what
  `PaulService` sees, sends are its payments, and every end of `do_bridge_release` is an answer.
* `CoinsAreToldOnce`, `ReservedAreServed` and `StaleAreGone` (`LaneManagerProofs`), from
  `LaneInvHolds` (`Spec => []LaneInv`). The three hold only together with what the rows, the book and
  a sync have to do with each other between two statements of the threads: a completed release tells
  spent rows and the release in progress has a row nobody spent (`ToldInv`); only a release past its
  reservation has a reserved coin (`ReserveInv`); a sync has seen, has yet to ask for, or could not have
  seen every unspent coin with a row, those that a failed release will give back included
  (`SeenOrAsked` in `StaleInv`).
* `PaidOncePerDoubtHolds` (`BurnReleaseOnce`): `Spec => []PaidOncePerDoubt`, for any burns, polls,
  page limits, policies, restarts and failing parts, with or without a strategy. The property is not
  inductive: it does not see the requests that may still pay. `ReleaseInv` counts them. A burn's
  *rights* are its requests in the server's queue, the one being served unpaid, and a direct send
  that is due; payments and rights together never exceed the doubts and an allowance of one, which a
  burn has once it was seen, and gives up while an error of the lanes waits to be collected
  (`WithinDoubts`). `Heard` says that who waits is heard: an abort, an error or a crash that ends the
  waiting finds the right it voids, or a payment, or counts a doubt.
* `RecordsTell` (`BurnReleaseOnce`): `Spec => []RecordTells`. A pending record is an allowance given
  up: a burn whose record is pending has none, so the count bounds what was paid by the doubts.
  `RecordInv` says that a burn seen has its record or a handler that is not back, `TellsInv` that an
  `ok`, and a record that names a method, tell of a payment.

They assume only what the modules assume of their constants: that the model values for "no request"
are not requests.

## 7. The bitcoin lane

### `DepositLane`

The same router, with the mint strategy registered, and `GatewayStore`, under `cea/bitcoin-cea.ts`:
`cursor` is the adapter's, `known` the gateway's dedup map, `check` the place of each caller of
`checkNow`: the timer and bitcoind's `blocknotify`. The cursor moves before the batch is handed over;
a call that finds another checking skips the poll and persists the cursor. `cutOff` and `older` say
what the code does not look at again: a batch cut off by a crash or a failed write, and deposits from
before a first start.

| Code | Actions |
|---|---|
| `checkNow` (both), `pollBurns` | `CheckSkips`, `PollFails`, `PollLists`, `BatchEnds`, `SaveEnds` |
| `onDepositEvent` | `EventKnown`, `EventPut`, `EventRouted` |
| router and mint strategy | `RouterReturns`, `StrategyMints`, `StrategyMinted`, `StrategyReturns` |
| `moneyTick`'s deposit sweep | `TickMints`, `TickSettles` |

A mint lands or does not: how is `BtcsoqMint`'s business, whose `EligibleIsMinted` justifies the
strong fairness of `TickMints`. The poll's await on the wallet is folded into its answer. No block is
replaced. `PollFails` is `CheckSkips`' twin: no events, and the cursor is persisted.

* `SkippedOnlyByCut` – a deposit at or below the *saved* cursor is on disk as finalized, or in a batch
  under way, or its batch was cut off.
* `RecordBehindLedger` – the router's record never tells more than the ledger.
* `DepositIsMinted` – liveness: a solicited deposit in the chain gets its receipt, through the router
  or beside it.

Run `DepositLane`: 2 deposits of which 1 is solicited, both callers, finality 2, 4 blocks, 1 crash or
failing write. Two deposits give a batch a rest to lose; two blocks of finality give the cursor a
distance from the tip and each deposit two reports. Fairness: some await always ends, the timer's
polls are answered at last.

### What is proved

`DepositLaneSafety`, for any deposits, callers, finality, length of the chain, crashes and failing
writes: `DepositsAreKept` (`Spec => []SkippedOnlyByCut`) and `RecordsAreBehind`
(`Spec => []RecordBehindLedger`), from `LaneInvHolds` (`Spec => []LaneInv`). The cursor exists in
many copies - the adapter's, memory's, one per queued write, the file's - and any caller may persist
it while another's batch is under way. So the invariant is about every copy at once (`Passed`): what
it has passed is on disk as finalized, awaited to be, cut off, or still to be put by a caller
(`Held`); and what memory has as finalized may no longer be merely "to be put" (`Kept`). With the
order of versions (`VersionInv`) and each caller's one write (`WriteInv`), a completing write turns
the one into the other. Records stay behind because a handler reaches the router only after its put
is on disk (`Recorded`). Only model-checked: `DepositIsMinted` (liveness).

## 8. The payment rail and its users

### `PaymentRail`, `BtcsoqLegs`, `Theater`

`PaymentRail` is `ln402.ts` and what it talks to. The provider's books (`invoices`, `channels`) are
external, modelled from what the client sends and expects: a payment names the next index and the
balances it makes, and is taken if the invoice is pending and the index is next. `cached` and `saved`
are the client's channel in memory and in its file. A request can be lost, answered into the void, or
arrive late (`late`). The payee's channel is left out, as are its credentials.

`BtcsoqLegs` is the line behind the mint: three call chains (the hook of `finalizeMint`, the hook of a
conversion, the money tick) drive a loop from the same records. `treasury` and `payouts` are the
chain's and the engine's side. `tardy` is a send that outlives its caller, whether the caller gave up
or its process ended (`Delays`); at most one such send per loop arrives. `strays` are sends on the
chain to a treasury that a new process no longer is configured with: a send found there parks the
record for an operator. `OthersPay` is what other programs take out of the one channel, the theater's
races above all. Writes do not fail here
(`BtcsoqMint` has them), attempts and error texts are not kept, a pause is a hook that is deferred,
and amounts are counted in conversions.

`Theater` is the terminal: programs of visitors and of the heartbeat, all on the one channel. A race
keeps the channel's state itself from lap to lap (`view`), on the assumption that nobody else writes.
The miner beat, the stream and the tape, cool-downs, and failing store writes are left out.

| Code | Actions |
|---|---|
| `ensureChannel`, `channelView`, `payInvoice` | `PayBegins`, `ChannelLoads`, `FaucetFails`, `ChannelOpens`, `ViewIsRead`, `FoundPaid`, `PayThrows`, `PostAnswered`, `PostThrows` |
| `startConvertLeg`, `claimConvert`, `attemptConvert` | `MintSaved`, `ConvertClaims`, `ConvertClaimed`, `SentIsLookedFor`, `LookThrows`, `SendAnswered`, `SendThrows`, `SentSaved`, `Executed`, `ExecuteThrows` |
| `attest`, `signAttestation` | `EventSaved`, `AttestationSaved`, `Signed`, `SignThrows`, `SignedSaved`, `Resigned`, `Saved` |
| `startLn402Leg`, `attempt402` | `AskStarts`, `AskClaimed`, `Challenged`, `PinnedSaved`, `StatusRead`, `AskPaid`, `AskPayThrows`, `AskAnswered`, `RedeemThrows` |
| `moneyTick`'s sweeps | `TickConverts`, `TickDrivesConvert`, `TickAsks`, `TickDrivesAsk`, `TickSigns` |
| `gate`, the heartbeat's timer | `VisitorStarts`, `HeartbeatStarts` |
| `performPaidAsk` | `Challenged`, `TurnPaid`, `Answered` |
| the handler of `/api/btc/theater/race`, `payInvoiceFast` | `RaceEntered`, `RaceViewed`, `LapInvoiced`, `LapPaid`, `LapThrows`, `LapRereads` |

* `PaidOnce` – a loop's treasury deposit is sent once (once more only if a send the signer still held
  lands after the chain was looked at) and paid out once.
* `OneInvoicePaid` – a loop pays one invoice, and an answered loop paid its own.
* `AttestedIsDone` – an attested event is on disk as done.
* `LoopEnds` – liveness: a minted loop reaches its answer, through any crash, or is `Stranded` in one of
  three ways, each of which the code does not get out of (section 10): the seller's answer was lost
  after it was given; its invoice is unpaid and the channel's balance is used up; its deposit was sent to
  a treasury that is no longer the configured one. Its conversion ends in the first two.
* `DoneIsSigned` – liveness: what is done is signed, unless a crash fell between the two.
* `BooksBalance` – the peer's balance and the index of a channel are those of the invoices paid on it.
* `MeterIsPaid` – the session's meter never tells more than was paid, and exactly that when nothing
  was lost.
* `HeartbeatGoesOn` – liveness: each demonstration ends.

| Run | Instance | Shows |
|---|---|---|
| `Legs` | 1 loop, 3 chains, channel capacity 2, 4 invoices, 3 faults (a lost or late request, an expiry, a crash, a payment of others), cap of 1 conversion | the legs' exactness and liveness |
| `Theater` | 1 visitor (a duel and a race) beside the heartbeat (an ask, then a race), capacity 6, 3 invoices, 1 fault, 2 turns, 2 laps | the books under two writers of one channel |

Loops share only the channel, the cap and the tick: one loop has every race between its chains, and
three faults reach a lost answer, an expiry and a crash in one behaviour, and payments of others that
leave nothing of a capacity of 2 for the loop. Capacity 6 lets three laps
fill the channel. Fairness (`Legs`): awaits end; the tick comes again and its sweeps pass every
record; days pass, so that a reached cap is not for ever. Fairness (`Theater`): each payer's request
ends, answered or timed out, and the heartbeat's clock runs.

### What is proved

`BtcsoqLegsSafety`, for any set of loops, daily limit, channel capacity and number of invoices, faults
and crashes: a loop is converted once (`LoopsConvertOnce`), pays one invoice (`LoopsPayOnce`), and is
attested for what was done (`AttestedAreDone`). The only assumptions are the modules' own: the payers
are the chains, and the bounds are numbers.

`LegsInv` is inductive, and the properties are not. It says in addition:

* *versions* (`VersionInv`): file, queue and memory are in order: a later version keeps every claim,
  every deposit once recorded, every end, and an invoice until it has expired. What any of them tells
  of the engine's payouts and the provider's books is so (`Truthful`).
* *one at a time* (`FlightInv`): at most one chain has a loop's conversion in flight, at most one its
  ask; so no two chains act between one's read and its put.
* *where a chain stands* (`PlaceInv`): it sends only where nothing was found, executes only a deposit
  that is on disk, and pays only an invoice that is on disk or has expired. With `WriteInv` (a queued
  write is its chain's only one and holds what the chain goes on with) a completing write establishes
  it; with `SavedInv` (what memory names is on disk or being saved by the chain in flight) the tick may
  take the loop up.
* *the outside* (`MoneyInv`, `RailInv`): all payouts are for the deposit on disk, and whatever was
  paid, is being posted, or may still arrive late is for an invoice the file names. That is what a
  crash, which loses memory and the queue but not the requests under way, leaves intact.

A step of a chain is described by what it does to each part (`PlaceMoves`, `StoreMoves`, `Edits`,
`Pays`, `Rails`, `Fresh`); `StepKeeps` proves the invariant from these once, and each action is shown
to be such a step. What expires or arrives late is `EnvKeeps`; the crash is `CrashStep`.

`BooksSafety`, for any visitors beside the heartbeat, any capacity and number of invoices,
turns, laps and faults (an ask costs 1, a lap 2):
`ChannelBooksBalance` (`TheaterSpec => []BooksBalance`) and `MeterTellsPaid`
(`TheaterSpec => []MeterIsPaid`), from `TheaterInvHolds` (`TheaterSpec => []TheaterInv`). The books
balance only if no payment is taken at an index another one has used, and payers compute index and
balance from what they read before an await. `TheaterInv` says what such a reading is worth later:

* *what was read* (`Tells`): a view tells a state its channel was in; it is the channel's own as long
  as nobody moved the index on.
* *what is posted* (`Follows`): a post, also one that arrives late, names an index no further than the
  next one; if it is the next, it names the balance and the price that belong there, and otherwise the
  provider refuses it.
* *whose invoice* (`Owes`, `Unnamed`): what a program pays is its own; an ask's invoice is named by no
  late post until the ask itself posts it, so an ask's payment is not taken behind its back.
* *the meter* (`MeterInv`): it has counted at most the paid invoices other than those whose answer a
  program awaits (`Reckoned`), and exactly these as long as nothing was lost. Counting comes a step
  after paying, so the property itself is not inductive.

Only model-checked: `LoopEnds`, `DoneIsSigned` and `HeartbeatGoesOn` (liveness).

## 9. The legacy watchers and their queue

### `TransferQueue`, `ChainWatchers`

`ChainWatchers` are `watchers/solana.ts` and `watchers/soqucoin.ts`. Their timers wait for nothing, so
polls of either overlap, and a poll that ends late moves a cursor back: the height to the tip that poll
began with, the signature to the oldest of its batch, always. `read`, `lost`, `missed` and `older` are
histories: what the process has fetched, the signatures it does not ask for again (a request failed, or
the limit cut the batch), the deposits of a block it could not read, and what is older than the process.

`TransferQueue` is the part of `queue.ts` that this commit reaches, `enqueue` with its dedup. Vault
deposits are queued in a status the processor never takes up, and no burn is queued at all: the solana
watcher reads a transaction and finds no event of the name it looks for (section 10). So the processor,
with its releases, mints and retries, is left out, and nothing is said about it.

| Code | Actions |
|---|---|
| `enqueue` | `Enqueue`, in `BlockIsScanned` |
| `SolanaWatcher.poll`, `processTransaction` | `SigPollBegins`, `SigIsRead`, `FetchFails`, `SigPollEnds` |
| `SoqucoinWatcher.poll`, `scanBlock` | `BlockPollBegins`, `BlockIsScanned`, `ScanFails`, `BlockPollEnds` |
| a new process, `start` | `Restart` |
| the chains | `Sign`, `Mine` |

* `PassedIsQueued` – a deposit below the watcher's height is queued, once, however polls overlapped,
  unless its block could not be read or is older than the process.
* `PassedIsRead` – a signature at or below the last one was read, unless its request failed, the limit
  cut it, or it is older than the process.
* `CatchUp` – liveness: the watchers have seen all of both chains, with these exceptions, again and
  again, however often an overlapping poll sets a cursor back.

Run `Transfers`: 2 deposits, 3 signatures, 2 polls, limit 2, 1 fault. Two polls are the least that
overlap and end out of order; a limit of 2 cuts one of three; a fault is a request that fails or a
restart, whose own requests may fail too (the cursor is then null, or 0). Fairness: some poll's request
ends, and each timer starts a poll again and again (strong: both polls may be busy with the other
watcher's).

### What is proved

`ChainWatchersSafety`, for any finitely many deposits, any number of polls, any limit, failing requests
and restarts: `PassedAreQueued` (`Spec => []PassedIsQueued`) and `PassedAreRead`
(`Spec => []PassedIsRead`), from `WatchInvHolds` (`Spec => []WatchInv`). Neither property is inductive: a
poll sets its cursor to a place it chose when it began, whatever the cursor did since. `PollInv` says of
every poll under way that all below the signature, or the block, it comes to next has been seen; then a
poll may end at any time and in any order. What a poll of signatures begins above has been seen because
`lastSignature` had passed it, or because the limit has just cut it.

Only model-checked: `CatchUp` (liveness).

## 10. Where code and comments disagree

Behaviours met while modelling, that the checked properties exclude by an assumption or name as an
exception. No run checks them.

*Gateway*
* A signer request that outlives its client is broadcast after the retry's chain check: "one deposit
  outpoint mints exactly once, ever" needs `LateBroadcast = FALSE` (`gateway.ts:553`, `:468`).
* The daily ceiling counts recorded mints only and is checked before the lookup and the request: two
  chains pass it together (`gateway.ts:1051`).
* After a failed write the release loop pays on a claim only memory holds; after a restart the return
  is bound again, and the wallet comment does not identify the first payment (`gateway.ts:1273`,
  `:1291`).
* A return's claim and its intent are two writes: a crash between them lets two receipts share an
  intent, and one is recorded as redeemed without a payment (`gateway.ts:1280`).
* A return committed to an unregistered payout is held with the advice to register it; the cursor
  moves on and no registration binds it later (`gateway.ts:1242`).
* The convert cap counts a claimed loop against itself, and is looked at before the await that
  precedes the claim (`gateway.ts:635`, `:652`).
* An answer lost after the seller gave it leaves its loop "asking" for ever (`gateway.ts:901`): the
  seller challenges again, and the pinned invoice is spent. `LoopEnds` names it.
* The client keeps a channel whose balance is used up (`ln402.ts:94`, `:99`), and every later payment on
  it throws (`ln402.ts:183`): no ask is answered again. `LoopEnds` names it.
* A loop whose deposit is found at another address than the configured treasury's is parked as long as
  that setting stays (`gateway.ts:702`), though the send was this gateway's own under the old one.
  `LoopEnds` names it.
* Two payers without a channel open two; the later one is kept (`ln402.ts:94`).
* The terminal's day budgets are in memory: a restart grants them again (`theater.ts:22`).

*Adapters, router, lanes*
* The bitcoin cursor moves before the callbacks run, and another caller may persist it meanwhile: a
  batch cut off is not listed again (`bitcoin-cea.ts:120`, `:124`; `gateway.ts:283`).
* What was released is remembered in memory only: a re-reported burn is released again after a
  restart (`router.ts:85`; `docs/BRIDGE_SPEC.md:96`).
* `resume()` counts the pending releases and processes none (`router.ts:389`).
* A page of 20 signatures is all a poll lists, and the older ones are not gone back for
  (`solana-cea.ts:139`, `:174`); `solana-cea.ts:9` says polling "picks up the slack within 5 seconds" when
  the webhook fails. `PollTakesUp` names the cut.
* A failed release sets its coin `available` by its id alone, whatever state the row has by then
  (`lane-manager.py:551`): a coin that was marked stale after `find_best_utxo` had found it is back in
  its lane. Nor does a later sync revive a coin that was marked after a failed query
  (`lane-manager.py:333`).
* A lane address keeps the denomination it was first registered with, so that new coins of another
  denomination carry the wrong label (`lane-manager.py:395`, `:49`; `docs/PAUL_ARCHITECTURE.md:89`).

*Programs*
* The mint instructions and `update_vault_balance` count the entries of `signatures` that name a
  validator, one named twice as two, and verify no signature and no Merkle proof
  (`soqtec-bridge/src/lib.rs:134`, `:194`, `:252`); the documents have a root and a proof verified on chain
  (`docs/BRIDGE_SPEC.md:269`, `docs/ARCHITECTURE.md:115`), threshold signatures
  (`docs/SECURITY.md:48`) and 3 of 5 Dilithium signatures for every vault operation
  (`docs/ARCHITECTURE.md:161`). The document's instruction `register_merkle_root` does not exist. Hence
  `ClaimsCover` is about claimed deposits, and an attested balance is held against nothing.
* `set_mint` and `initialize` take any mint, with any supply and any mint authority
  (`soqtec-bridge/src/lib.rs:321`), and mints and burns of the token program are not counted. The test
  burns through the bridge what the deployer minted (`tests/soqtec-bridge.ts:127`, `:155`), so that
  `total_burned` exceeds `total_minted`. `CountersTellSupply` names exactly this difference.
* The published ratio divides by all that was ever minted, the document by the supply
  (`soqtec-bridge/src/lib.rs:205`; `docs/BRIDGE_SPEC.md:292`, `:321`).
* No instruction rotates an exhausted vault; the document says the bridge program does
  (`xmss-vault/src/lib.rs:100`; `docs/BRIDGE_SPEC.md:469`).

*Legacy queue*
* The solana watcher compares an event's name with `burnForRedemptionEvent` and reads `soqAddress`,
  `netAmount` (`watchers/solana.ts:119-131`). Its parser is a `BorshCoder` over
  `idl/soqtec_bridge.json` as it is, which names the event `BurnForRedemptionEvent` and its fields in
  snake case (`:609`, `:872`), as `solana-cea.ts:249` expects. So no burn is queued, where
  `watchers/solana.ts:5` says "it decodes the event data and queues a SOQ release".
* A vault deposit is queued as `pending_confirmations`, which nothing selects, and a second vault
  output of a transaction is dropped as a duplicate (`watchers/soqucoin.ts:126`, `queue.ts:68`). A block
  that is scanned again enters the deposits' view twice (`watchers/soqucoin.ts:115`).
* Signatures the limit of 20 cut are not gone back for (`watchers/solana.ts:83`), nor is a transaction or
  a block whose request failed (`watchers/solana.ts:160`, `watchers/soqucoin.ts:132`). `PassedIsRead` and
  `PassedIsQueued` name them.
* The executor signs once where the bridge's threshold is at least two, so that its mints would be
  refused.

## 11. Only model-checked, and not modelled

Proved for every value of the constants:

* `BtcsoqMint`: `TypeOK`, `ClaimInv`, `ClaimOutlivesCrash`, `ReceiptBacked`, `IntentNeverAhead`;
  without late broadcasts `AtMostOneReceipt` and `LedgerSpec`.
* `BtcsoqRedeem`: `PayoutCommitted`, `IntentNeverAhead`; under the hypotheses of section 4 `PaidOnce`
  and `LedgerSpec`.
* `XmssVault` with the bridge: `EpochWithinLimit`, `MintedOnce`, `LeafSignsOnce`,
  `CountersTellSupply`, `ClaimsCover`.
* `BurnRelease`: `PaidOncePerDoubt`, `RecordTells`. `LaneManager`: `CoinToldOnce`,
  `ReservedIsServed`, `StaleIsGone`, `PaulSpec`.
* `DepositLane`: `SkippedOnlyByCut`, `RecordBehindLedger`.
* `BtcsoqLegs`: `PaidOnce`, `OneInvoicePaid`, `AttestedIsDone`. `Theater` with the rail:
  `BooksBalance`, `MeterIsPaid`.
* `ChainWatchers` with the queue: `PassedIsQueued`, `PassedIsRead`.

These are all the safety properties the runs check, and the two refinements of the ledger and the one
of `PaulService` with them.

Only model-checked: liveness (`EligibleIsMinted`, `OwedIsRedeemed`, `PollTakesUp`, `DepositIsMinted`,
`LoopEnds`, `DoneIsSigned`, `HeartbeatGoesOn`, `CatchUp`): it rests on fairness, hence on `ENABLED`,
which no installed prover reaches.

Not modelled: the daily bitcoin anchor and the bytes an attestation signs; the miner beat of the
terminal; the receipt's byte layout; HTTP parsing, limits, views and the airdrop; the hash functions
of `wots.rs` and `merkle.rs`, taken as the scheme they implement; the processor of the legacy queue and the
Solana executor behind it, which nothing at this commit reaches; configuration and logging (of the entry point only the wiring
of router, adapters and strategies, and its exit); reorganisations of any
chain. The IDL is generated; dashboard, scripts and host operations keep no state of the protocol.
