---- MODULE SoqtecBridge ----
(***************************************************************************)
(* The bridge program on Solana (programs/soqtec-bridge/src/lib.rs).       *)
(*                                                                         *)
(* A transaction is atomic: an instruction that returns an error leaves    *)
(* every account as it was, so each action is a whole instruction that     *)
(* succeeds and its guard is all of its checks, the token program's        *)
(* included.  The instructions take turns in any order, with any amounts.  *)
(*                                                                         *)
(* Amounts are u64; MaxU64 is 2^64 - 1 in the code.  An instruction's      *)
(* `signatures' matter only in how many entries name a validator, `named': *)
(* the code counts those, one validator named twice as two, and verifies   *)
(* no signature.  So a mint instruction's deposit and an attested balance  *)
(* are what the instruction's sender says they are.                        *)
(*                                                                         *)
(* A pSOQ mint is an account of the token program, which others use too:   *)
(* who holds its mint authority may mint, and an owner may burn, without   *)
(* the bridge, before and after the bridge is told to use it.              *)
(***************************************************************************)
EXTENDS Integers, FiniteSets, Functions

CONSTANTS
    Owners,         \* owners of token accounts: users' wallets and vault PDAs
    Users,          \* ... the wallets
    Mints,          \* pSOQ mints
    NoMint,         \* `mint' of a bridge account that does not exist
    Txids,          \* the txids mint instructions name
    Attestable,     \* the balances update_vault_balance is given
    Amounts,        \* what instructions may ask for
    Limits,         \* daily_limit's possible values
    Thresholds,     \* threshold's possible values
    MaxNamed,       \* a transaction's room for signatures (bound)
    MinTransfer,    \* MIN_TRANSFER (1 SOQ)
    FeeDivisor,     \* 1000: the fee is 0.1 %
    MaxU64,         \* the largest u64
    MaxEpoch,       \* epochs of one behaviour (bound)
    MaxOutside      \* how far minting and burning without the bridge go (bound)

ASSUME AmountAssumption ==
    /\ Amounts \subseteq Nat
    /\ Limits \subseteq 0 .. MaxU64
    /\ Attestable \subseteq 0 .. MaxU64
    /\ Thresholds \subseteq Nat
    /\ MinTransfer \in Nat \ {0}
    /\ FeeDivisor \in Nat \ {0}
    /\ MaxU64 \in Nat
    /\ MaxNamed \in Nat
    /\ MaxEpoch \in Nat
    /\ MaxOutside \in Nat

ASSUME AccountAssumption ==
    /\ Users \subseteq Owners
    /\ NoMint \notin Mints
    /\ IsFiniteSet(Owners) /\ IsFiniteSet(Mints) /\ IsFiniteSet(Txids)

VARIABLES
    bridge,         \* BridgeState, the PDA of seed "bridge"
    processed,      \* ProcessedTxid accounts: the amount minted for; 0: no account
    accounts,       \* the token accounts that exist, as <<owner, mint>>
    held,           \* ... and their amounts
    handed,         \* the mints whose mint authority is the bridge's PDA
    epoch,          \* the cluster's clock
    \* history
    minted,         \* how often each txid was minted for
    spent,          \* what each epoch's burns came to
    owed,           \* net amounts of the burn events: what Soqucoin must release
    outside         \* minted less burned without the bridge

bridgeVars ==
    <<bridge, processed, accounts, held, handed, epoch, minted, spent, owed, outside>>

Opened == bridge.mint # NoMint

(* What every instruction that burns or mints checks first.                *)
Running == Opened /\ ~bridge.paused

(* Net of the fee.                                                         *)
Fee(a) == a \div FeeDivisor
Net(a) == a - Fee(a)

(* What is in circulation of a mint, and of all of them.                   *)
Supply(m) == SumFunctionOnSet(held, Owners \X {m})
AllSupply == SumFunction(held)

(* What the mint instructions said was deposited.                          *)
Claimed == SumFunction(processed)

BridgeInit ==
    /\ bridge = [mint |-> NoMint, threshold |-> 0, totalBurned |-> 0,
                 totalMinted |-> 0, vaultBalance |-> 0, dailyLimit |-> 0,
                 dailyVolume |-> 0, lastEpoch |-> 0, paused |-> FALSE,
                 nonce |-> 0]
    /\ processed = [t \in Txids |-> 0]
    /\ accounts = Users \X Mints
    /\ held = [a \in Owners \X Mints |-> 0]
    /\ handed = {}
    /\ epoch = 0
    /\ minted = [t \in Txids |-> 0]
    /\ spent = [e \in 0 .. MaxEpoch |-> 0]
    /\ owed = 0
    /\ outside = 0

(* initialize: the account can be created once.                            *)
Initialize(m, threshold, limit) ==
    /\ ~Opened
    /\ threshold >= 2
    /\ bridge' = [mint |-> m, threshold |-> threshold, totalBurned |-> 0,
                  totalMinted |-> 0, vaultBalance |-> 0, dailyLimit |-> limit,
                  dailyVolume |-> 0, lastEpoch |-> epoch, paused |-> FALSE,
                  nonce |-> 0]
    /\ UNCHANGED <<processed, accounts, held, handed, epoch, minted, spent, owed, outside>>

(* This epoch's volume: reset when the epoch is another than the last.     *)
Volume == IF epoch # bridge.lastEpoch THEN 0 ELSE bridge.dailyVolume

(* daily_volume.checked_add(amount).unwrap_or(u64::MAX) <= daily_limit; an *)
(* overflow that passes it fails at the second checked_add.                *)
WithinLimit(a) == Volume + a <= bridge.dailyLimit /\ Volume + a <= MaxU64

(* Mutant: the epoch of the reset is not remembered.                       *)
CountedForgetful(a) ==
    [bridge EXCEPT !.totalBurned = @ + a, !.dailyVolume = Volume + a,
                   !.nonce = @ + 1]

Counted(a) ==
    [bridge EXCEPT !.totalBurned = @ + a, !.dailyVolume = Volume + a,
                   !.lastEpoch = epoch, !.nonce = @ + 1]

(* burn_for_redemption, from owner o's account; o signs.                   *)
Burn(o, a) ==
    /\ Running
    /\ a >= MinTransfer
    /\ WithinLimit(a)
    /\ held[o, bridge.mint] >= a
    /\ bridge.totalBurned + a <= MaxU64
    /\ bridge.nonce < MaxU64
    /\ bridge' = Counted(a)
    /\ held' = [held EXCEPT ![<<o, bridge.mint>>] = @ - a]
    /\ spent' = [spent EXCEPT ![epoch] = @ + a]
    /\ owed' = owed + Net(a)
    /\ UNCHANGED <<processed, accounts, handed, epoch, minted, outside>>

BurnForRedemption(u, a) == u \in Users /\ Burn(u, a)

(* Mutant: the fee is told but not withheld.                               *)
CreditGross(o, a) == [held EXCEPT ![<<o, bridge.mint>>] = @ + a]

Credit(o, a) == [held EXCEPT ![<<o, bridge.mint>>] = @ + Net(a)]

(* What both mint instructions do.                                         *)

MintTo(o, t, a, named) ==
    /\ Running
    /\ a >= MinTransfer
    /\ named >= bridge.threshold
    /\ bridge.mint \in handed
    /\ <<o, bridge.mint>> \in accounts
    /\ Supply(bridge.mint) + Net(a) <= MaxU64
    /\ bridge.totalMinted + Net(a) <= MaxU64
    /\ processed' = [processed EXCEPT ![t] = a]
    /\ held' = Credit(o, a)
    /\ bridge' = [bridge EXCEPT !.totalMinted = @ + Net(a)]
    /\ minted' = [minted EXCEPT ![t] = @ + 1]
    /\ UNCHANGED <<accounts, handed, epoch, spent, owed, outside>>

(* The deposit's account does not exist yet.                               *)
Fresh(t) == processed[t] = 0

(* mint_from_deposit and mint_to_vault make the account of one seed,       *)
(* "processed" and the txid, so each finds what the other has made.        *)
MintFromDeposit(o, t, a, named) == Fresh(t) /\ MintTo(o, t, a, named)

(* Mutant: mint_to_vault keeps its processed deposits under its own seed.  *)
MintToVaultOwnSeed(o, t, a, named) == MintTo(o, t, a, named)

(* Nothing checks that the account is a vault's.                           *)
MintToVault(o, t, a, named) == Fresh(t) /\ MintTo(o, t, a, named)

(* update_vault_balance: no pause check, and nothing the balance is held   *)
(* against.  The event's ratio changes no account and is left out.         *)
UpdateVaultBalance(balance, named) ==
    /\ Opened
    /\ named >= bridge.threshold
    /\ bridge' = [bridge EXCEPT !.vaultBalance = balance]
    /\ UNCHANGED <<processed, accounts, held, handed, epoch, minted, spent, owed, outside>>

(* pause_bridge, resume_bridge and set_mint: the authority's only.         *)
SetPaused(flag) ==
    /\ Opened
    /\ bridge' = [bridge EXCEPT !.paused = flag]
    /\ UNCHANGED <<processed, accounts, held, handed, epoch, minted, spent, owed, outside>>

(* set_mint takes any mint, whatever its supply and its mint authority.    *)
SetMint(m) ==
    /\ Opened
    /\ bridge' = [bridge EXCEPT !.mint = m]
    /\ UNCHANGED <<processed, accounts, held, handed, epoch, minted, spent, owed, outside>>

NextEpoch ==
    /\ epoch < MaxEpoch
    /\ epoch' = epoch + 1
    /\ UNCHANGED <<bridge, processed, accounts, held, handed, minted, spent, owed, outside>>

(* The token program's instructions without the bridge.  The bridge has no *)
(* instruction that gives a mint authority away again.                     *)
HandOver(m) ==
    /\ handed' = handed \cup {m}
    /\ UNCHANGED <<bridge, processed, accounts, held, epoch, minted, spent, owed, outside>>

MintOutside(o, m, a) ==
    /\ m \notin handed
    /\ <<o, m>> \in accounts
    /\ Supply(m) + a <= MaxU64
    /\ outside + a <= MaxOutside
    /\ held' = [held EXCEPT ![<<o, m>>] = @ + a]
    /\ outside' = outside + a
    /\ UNCHANGED <<bridge, processed, accounts, handed, epoch, minted, spent, owed>>

(* By the owner; the vault program burns through the bridge only.          *)
BurnOutside(u, m, a) ==
    /\ <<u, m>> \in accounts
    /\ held[u, m] >= a
    /\ outside - a >= -MaxOutside
    /\ held' = [held EXCEPT ![<<u, m>>] = @ - a]
    /\ outside' = outside - a
    /\ UNCHANGED <<bridge, processed, accounts, handed, epoch, minted, spent, owed>>

BridgeNext ==
    \/ \E m \in Mints, th \in Thresholds, l \in Limits : Initialize(m, th, l)
    \/ \E u \in Users, a \in Amounts : BurnForRedemption(u, a)
    \/ \E o \in Owners, t \in Txids, a \in Amounts, n \in 0 .. MaxNamed :
           \/ MintFromDeposit(o, t, a, n)
           \/ MintToVault(o, t, a, n)
    \/ \E b \in Attestable, n \in 0 .. MaxNamed : UpdateVaultBalance(b, n)
    \/ \E flag \in BOOLEAN : SetPaused(flag)
    \/ \E m \in Mints : SetMint(m)
    \/ NextEpoch
    \/ \E m \in Mints :
           \/ HandOver(m)
           \/ \E o \in Owners, a \in Amounts : MintOutside(o, m, a)
           \/ \E u \in Users, a \in Amounts : BurnOutside(u, m, a)

(* The circuit breaker: what the burns of one epoch come to, whoever signs *)
(* them, never exceeds daily_limit, across the resets of the volume        *)
(* (lib.rs:69-78).                                                         *)
EpochWithinLimit ==
    Opened => \A e \in 0 .. MaxEpoch : spent[e] <= bridge.dailyLimit

(* A txid is minted for once, by either mint instruction                   *)
(* (lib.rs:139-146, 257-263).                                              *)
MintedOnce == \A t \in Txids : minted[t] <= 1

(* The two counters and the tokens agree across changes of the mint, vaults*)
(* and fees: what is in circulation is what the counters tell, but for     *)
(* exactly what was minted and burned without the bridge, which they do not*)
(* see (lib.rs:97, 169, 286, 317-331).                                     *)
CountersTellSupply ==
    AllSupply = bridge.totalMinted - bridge.totalBurned + outside

(* What the mint instructions said was deposited covers every token that   *)
(* came by the bridge and is still out, with every release the burn events *)
(* ask for paid: no fee, rounding, second mint for a txid or order takes   *)
(* more than was claimed.  Whether a claimed deposit was made is not       *)
(* checked by the code and not said here (lib.rs:81-82, 139-150).          *)
ClaimsCover == Claimed - owed >= AllSupply - outside

====
