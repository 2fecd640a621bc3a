---- MODULE BtcsoqLegs ----
(***************************************************************************)
(* The line behind the mint (relayer/src/btcsoq/gateway.ts): a minted loop *)
(* is converted - SOQ sent into the treasury, USDSOQ paid out by the       *)
(* engine - and a converted loop pays an invoice an AI answers for; both   *)
(* events are attested.                                                    *)
(*                                                                         *)
(* Three call chains can drive a loop: the hook finalizeMint does not wait *)
(* for, the hook a conversion does not wait for, and the money tick, which *)
(* resumes from the records; its sweeps visit records in any order.  The   *)
(* counters and error texts of the records are left out, with the puts     *)
(* that write nothing else, and so are failing writes (BtcsoqMint).  A     *)
(* pause is a hook that is deferred.  Other programs of the gateway pay    *)
(* through the same client (Theater); here they only use up its channel.   *)
(***************************************************************************)
EXTENDS PaymentRail, GatewayStore

CONSTANTS
    Keys,           \* deposit outpoints with a minted receipt
    MaxDaily        \* maxDailyConvertShors, in conversions; 0 = unlimited

Kinds == {"convert", "ask"}     \* converted-usdsoq, lightning-paid
Tick == <<"tick", "tick">>
Chains == (Kinds \X Keys) \cup {Tick}

ASSUME LegsAssumption == Payers = Chains /\ MaxDaily \in Nat

VARIABLES
    pc,             \* what each chain awaits, and for which loop
    aged,           \* loops claimed more than 24 h ago
    treasury,       \* treasury deposits of each loop on the chain
    tardy,          \* a send whose caller gave up: none, under way, landed (one for a loop)
    strays,         \* treasury deposits that pay an address configured earlier
    payouts,        \* treasury deposits the engine has paid out for
    unattested      \* history: events whose attestation a crash cut off

worldVars == <<treasury, tardy, strays, payouts>>
vars == <<railVars, storeVars, pc, aged, worldVars, unattested>>

Idle == [at |-> "idle"]

Contents == [minted |-> {},
             convert |-> [k \in Keys |-> [status |-> "none", sent |-> 0]],
             ask |-> [k \in Keys |-> [status |-> "none", invoice |-> NoInvoice]],
             att |-> [e \in Kinds \X Keys |-> "none"]]

Init ==
    /\ RailInit
    /\ StoreInit(Contents)
    /\ pc = [c \in Chains |-> Idle]
    /\ aged = {}
    /\ treasury = [k \in Keys |-> 0]
    /\ tardy = [k \in Keys |-> "none"]
    /\ strays = [k \in Keys |-> {}]
    /\ payouts = [k \in Keys |-> {}]
    /\ unattested = {}

At(c, label) == pc[c].at = label

Key(c) == pc[c].key

Takes(c, label, k) == pc' = [pc EXCEPT ![c] = [at |-> label, key |-> k]]

Goes(c, label) == Takes(c, label, Key(c))

Ends(c) == pc' = [pc EXCEPT ![c] = Idle]

Convert(k) == mem.convert[k]
Ask(k) == mem.ask[k]

WithConvert(k, rec) == [mem EXCEPT !.convert[k] = rec]
WithAsk(k, rec) == [mem EXCEPT !.ask[k] = rec]

-----------------------------------------------------------------------------
(* The conversion                                                          *)

(* Mutant: the sum is over every conversion there is.                      *)
EverConverted == {k \in Keys : Convert(k).status # "none"}

DailyConverted == {k \in Keys : Convert(k).status # "none"} \ aged

(* convertBreakerReason for n more conversions.                            *)
Defers(n) == MaxDaily > 0 /\ Cardinality(DailyConverted) + n > MaxDaily

Unclaimed(k) == Convert(k).status = "none"

(* startConvertLeg, up to its await on tipHeight.                          *)
ConvertStarts(c, k) ==
    IF Unclaimed(k) /\ ~Defers(1) THEN Takes(c, "height", k) ELSE Ends(c)

(* finalizeMint: the mint is recorded, then the leg rides behind it.       *)
MintLands(k) ==
    LET hook == <<"convert", k>> IN
    /\ At(hook, "idle")
    /\ k \notin mem.minted
    /\ Put(hook, [mem EXCEPT !.minted = @ \cup {k}])
    /\ Takes(hook, "minted", k)
    /\ UNCHANGED <<railVars, aged, worldVars, unattested>>

MintSaved(c) ==
    /\ At(c, "minted")
    /\ Settle(c)
    /\ ConvertStarts(c, Key(c)) \/ Ends(c)
    /\ UNCHANGED <<railVars, aged, worldVars, unattested>>

(* The sweep over minted loops without a conversion.                       *)
TickConverts(k) ==
    /\ At(Tick, "idle")
    /\ k \in mem.minted /\ Unclaimed(k) /\ ~Defers(1)
    /\ Takes(Tick, "height", k)
    /\ UNCHANGED <<railVars, storeVars, aged, worldVars, unattested>>

(* claimConvert: the first claim wins; the breaker is not looked at again. *)
ConvertClaims(c) ==
    /\ At(c, "height")
    /\ IF Unclaimed(Key(c))
       THEN /\ Put(c, WithConvert(Key(c), [status |-> "converting", sent |-> 0]))
            /\ Goes(c, "claimed")
            /\ aged' = aged \ {Key(c)}
       ELSE Ends(c) /\ UNCHANGED <<storeVars, aged>>
    /\ UNCHANGED <<railVars, worldVars, unattested>>

Sending == {"chain", "send", "sent", "execute", "converted"}
Attesting == {"attest", "sign", "signed"}

(* convertingInFlight: until the attestation is done.                      *)
ConvertInFlight(k) ==
    \E c \in Chains : /\ pc[c] # Idle
                      /\ Key(c) = k
                      /\ pc[c].at \in Sending
                         \/ (pc[c].at \in Attesting /\ pc[c].event = "convert")

(* attemptConvert, up to its first await.                                  *)
ConvertAttempts(c, k) ==
    IF ConvertInFlight(k) \/ Defers(IF Convert(k).sent = 0 THEN 1 ELSE 0) THEN Ends(c)
    ELSE Takes(c, IF Convert(k).sent = 0 THEN "chain" ELSE "execute", k)

ConvertClaimed(c) ==
    /\ At(c, "claimed")
    /\ Settle(c)
    /\ ConvertAttempts(c, Key(c)) \/ (c # Tick /\ Ends(c))
    /\ UNCHANGED <<railVars, aged, worldVars, unattested>>

TickDrivesConvert(k) ==
    /\ At(Tick, "idle")
    /\ Convert(k).status = "converting"
    /\ ConvertAttempts(Tick, k)
    /\ UNCHANGED <<railVars, storeVars, aged, worldVars, unattested>>

Sent(c, tx) ==
    /\ Put(c, WithConvert(Key(c), [Convert(Key(c)) EXCEPT !.sent = tx]))
    /\ Goes(c, "sent")

(* Mutant: a send is not looked for before it is made.                     *)
SentBlind(c) ==
    /\ At(c, "chain")
    /\ Goes(c, "send")
    /\ UNCHANGED <<railVars, storeVars, aged, worldVars, unattested>>

(* findMintTx: a tagged deposit that is on the chain is taken up, unless   *)
(* it pays another address than the one configured now: the record stays   *)
(* as it is (only its error text is written).                              *)
SentIsLookedFor(c) ==
    /\ At(c, "chain")
    /\ \/ treasury[Key(c)] = 0 /\ Goes(c, "send") /\ UNCHANGED storeVars
       \/ \E tx \in (1 .. treasury[Key(c)]) \ strays[Key(c)] : Sent(c, tx)
       \/ strays[Key(c)] # {} /\ Ends(c) /\ UNCHANGED storeVars
    /\ UNCHANGED <<railVars, aged, worldVars, unattested>>

(* The chain's height, or the deposit, is not to be had.                   *)
LookThrows(c) ==
    /\ At(c, "height") \/ At(c, "chain")
    /\ Fault
    /\ Ends(c)
    /\ UNCHANGED <<lspVars, clientVars, late, storeVars, aged, worldVars, unattested>>

TreasuryPaid(k) == treasury' = [treasury EXCEPT ![k] = @ + 1]

SendAnswered(c) ==
    /\ At(c, "send")
    /\ TreasuryPaid(Key(c))
    /\ Sent(c, treasury'[Key(c)])
    /\ UNCHANGED <<railVars, aged, tardy, strays, payouts, unattested>>

(* The signer's answer is lost, its work is not done, or done later.       *)
SendThrows(c) ==
    /\ At(c, "send")
    /\ Fault
    /\ \/ TreasuryPaid(Key(c)) /\ UNCHANGED tardy
       \/ UNCHANGED <<treasury, tardy>>
       \/ /\ tardy[Key(c)] = "none"
          /\ tardy' = [tardy EXCEPT ![Key(c)] = "under way"]
          /\ UNCHANGED treasury
    /\ Ends(c)
    /\ UNCHANGED <<lspVars, clientVars, late, storeVars, aged, strays, payouts, unattested>>

TardyLands(k) ==
    /\ tardy[k] \in {"under way", "astray"}
    /\ tardy' = [tardy EXCEPT ![k] = "landed"]
    /\ TreasuryPaid(k)
    /\ strays' = IF tardy[k] = "astray"
                 THEN [strays EXCEPT ![k] = @ \cup {treasury'[k]}] ELSE strays
    /\ UNCHANGED <<railVars, storeVars, pc, aged, payouts, unattested>>

SentSaved(c) ==
    /\ At(c, "sent")
    /\ Settle(c)
    /\ Goes(c, "execute")
    /\ UNCHANGED <<railVars, aged, worldVars, unattested>>

(* The engine pays out once per treasury deposit.                          *)
PaysOut(k) == payouts' = [payouts EXCEPT ![k] = @ \cup {Convert(k).sent}]

(* Mutant: the attestation is written instead of the record.               *)
ExecutedUnrecorded(c) ==
    /\ At(c, "execute")
    /\ PaysOut(Key(c))
    /\ Put(c, [mem EXCEPT !.att[<<"convert", Key(c)>>] = "unsigned"])
    /\ Goes(c, "converted")
    /\ UNCHANGED <<railVars, aged, treasury, tardy, strays, unattested>>

Executed(c) ==
    /\ At(c, "execute")
    /\ PaysOut(Key(c))
    /\ Put(c, WithConvert(Key(c), [Convert(Key(c)) EXCEPT !.status = "converted"]))
    /\ Goes(c, "converted")
    /\ UNCHANGED <<railVars, aged, treasury, tardy, strays, unattested>>

(* Refused while the deposit has too few confirmations, or the answer is   *)
(* lost.                                                                   *)
ExecuteThrows(c) ==
    /\ At(c, "execute")
    /\ Fault
    /\ PaysOut(Key(c)) \/ UNCHANGED payouts
    /\ Ends(c)
    /\ UNCHANGED <<lspVars, clientVars, late, storeVars, aged, treasury, tardy, strays, unattested>>

-----------------------------------------------------------------------------
(* attest                                                                  *)

Attests(c, e, label) == pc' = [pc EXCEPT ![c] = [at |-> label, key |-> e[2], event |-> e[1]]]

WithAttestation(e, v) == [mem EXCEPT !.att[e] = v]

(* What follows the attestation: the 402 leg rides behind the conversion.  *)
Follows(c, e) ==
    LET hook == <<"ask", e[2]>> IN
    IF e[1] = "convert" /\ At(hook, "idle") /\ Ask(e[2]).status = "none"
    THEN pc' = [pc EXCEPT ![c] = Idle, ![hook] = [at |-> "start", key |-> e[2]]]
    ELSE Ends(c)

EventSaved(c) ==
    /\ At(c, "converted") \/ At(c, "answered")
    /\ LET e == <<IF At(c, "converted") THEN "convert" ELSE "ask", Key(c)>> IN
         IF mem.att[e] = "none"
         THEN SettlePut(c, WithAttestation(e, "unsigned")) /\ Attests(c, e, "attest")
         ELSE Settle(c) /\ Follows(c, e)
    /\ UNCHANGED <<railVars, aged, worldVars, unattested>>

Event(c) == <<pc[c].event, pc[c].key>>

AttestationSaved(c) ==
    /\ At(c, "attest")
    /\ Settle(c)
    /\ Attests(c, Event(c), "sign")
    /\ UNCHANGED <<railVars, aged, worldVars, unattested>>

Signed(c) ==
    /\ At(c, "sign")
    /\ Put(c, WithAttestation(Event(c), "signed"))
    /\ Attests(c, Event(c), "signed")
    /\ UNCHANGED <<railVars, aged, worldVars, unattested>>

SignThrows(c) ==
    /\ At(c, "sign") \/ At(c, "resign")
    /\ Fault
    /\ IF At(c, "sign") THEN Follows(c, Event(c)) ELSE Ends(c)
    /\ UNCHANGED <<lspVars, clientVars, late, storeVars, aged, worldVars, unattested>>

SignedSaved(c) ==
    /\ At(c, "signed")
    /\ Settle(c)
    /\ Follows(c, Event(c))
    /\ UNCHANGED <<railVars, aged, worldVars, unattested>>

(* Mutant: the sweep takes the attestations that have a signature.         *)
TickSignsAgain(e) ==
    /\ At(Tick, "idle")
    /\ mem.att[e] = "signed"
    /\ pc' = [pc EXCEPT ![Tick] = [at |-> "resign", key |-> e[2], event |-> e[1]]]
    /\ UNCHANGED <<railVars, storeVars, aged, worldVars, unattested>>

(* The sweep over unsigned attestations.                                   *)
TickSigns(e) ==
    /\ At(Tick, "idle")
    /\ mem.att[e] = "unsigned"
    /\ pc' = [pc EXCEPT ![Tick] = [at |-> "resign", key |-> e[2], event |-> e[1]]]
    /\ UNCHANGED <<railVars, storeVars, aged, worldVars, unattested>>

Resigned ==
    /\ At(Tick, "resign")
    /\ Put(Tick, WithAttestation(Event(Tick), "signed"))
    /\ Takes(Tick, "saving", Key(Tick))
    /\ UNCHANGED <<railVars, aged, worldVars, unattested>>

(* A put nothing follows.                                                  *)
Saved(c) ==
    /\ At(c, "saving") \/ At(c, "dropped")
    /\ Settle(c)
    /\ Ends(c)
    /\ UNCHANGED <<railVars, aged, worldVars, unattested>>

-----------------------------------------------------------------------------
(* The 402 leg                                                             *)

AskClaims(c, k) ==
    /\ Put(c, WithAsk(k, [status |-> "asking", invoice |-> NoInvoice]))
    /\ Takes(c, "asked", k)

(* startLn402Leg: the first claim wins.                                    *)
AskStarts(c) ==
    /\ At(c, "start")
    /\ IF Ask(Key(c)).status = "none" THEN AskClaims(c, Key(c))
       ELSE Ends(c) /\ UNCHANGED storeVars
    /\ UNCHANGED <<railVars, aged, worldVars, unattested>>

(* The sweep over converted loops without an ask.                          *)
TickAsks(k) ==
    /\ At(Tick, "idle")
    /\ Convert(k).status = "converted" /\ Ask(k).status = "none"
    /\ AskClaims(Tick, k)
    /\ UNCHANGED <<railVars, aged, worldVars, unattested>>

Asking == {"challenge", "pinned", "status", "dropped", "paying", "redeem", "answered"}

AskInFlight(k) ==
    \E c \in Chains : /\ pc[c] # Idle
                      /\ Key(c) = k
                      /\ pc[c].at \in Asking
                         \/ (pc[c].at \in Attesting /\ pc[c].event = "ask")

(* attempt402, up to its first await.                                      *)
AskAttempts(c, k) ==
    IF AskInFlight(k) THEN Ends(c)
    ELSE Takes(c, IF Ask(k).invoice = NoInvoice THEN "challenge" ELSE "status", k)

AskClaimed(c) ==
    /\ At(c, "asked")
    /\ Settle(c)
    /\ AskAttempts(c, Key(c)) \/ (c # Tick /\ Ends(c))
    /\ UNCHANGED <<railVars, aged, worldVars, unattested>>

TickDrivesAsk(k) ==
    /\ At(Tick, "idle")
    /\ Ask(k).status = "asking"
    /\ AskAttempts(Tick, k)
    /\ UNCHANGED <<railVars, storeVars, aged, worldVars, unattested>>

(* The invoice is pinned in the record before it is paid.                  *)
Challenged(c) ==
    /\ At(c, "challenge")
    /\ Issue(1, Key(c))
    /\ Put(c, WithAsk(Key(c), [Ask(Key(c)) EXCEPT !.invoice = Issued]))
    /\ Goes(c, "pinned")
    /\ UNCHANGED <<channels, clientVars, late, faults, aged, worldVars, unattested>>

ChallengeThrows(c) ==
    /\ At(c, "challenge")
    /\ Fault
    /\ Ends(c)
    /\ UNCHANGED <<lspVars, clientVars, late, storeVars, aged, worldVars, unattested>>

PinnedSaved(c) ==
    /\ At(c, "pinned")
    /\ Settle(c)
    /\ Goes(c, "status")
    /\ UNCHANGED <<railVars, aged, worldVars, unattested>>

Invoice(c) == Ask(Key(c)).invoice

Dropped(c) == WithAsk(Key(c), [Ask(Key(c)) EXCEPT !.invoice = NoInvoice])

(* An expired invoice is dropped, a pending one is paid, a paid one is     *)
(* redeemed.                                                               *)
StatusRead(c) ==
    /\ At(c, "status")
    /\ LET status == Status(Invoice(c)) IN
         \/ /\ status = "expired"
            /\ Put(c, Dropped(c))
            /\ Goes(c, "dropped")
            /\ UNCHANGED railVars
         \/ /\ status = "pending"
            /\ PayBegins(c, Invoice(c))
            /\ Goes(c, "paying")
            /\ UNCHANGED <<storeVars, invoices, faults>>
         \/ /\ status \in {"paid", "redeemed"}
            /\ Goes(c, "redeem")
            /\ UNCHANGED <<railVars, storeVars>>
    /\ UNCHANGED <<aged, worldVars, unattested>>

AskPaid(c) ==
    /\ At(c, "paying")
    /\ \/ FoundPaid(c) /\ Goes(c, "redeem")
       \/ /\ PostAnswered(c)
          /\ IF Accepts(call[c].post) THEN Goes(c, "redeem") ELSE Ends(c)
    /\ UNCHANGED <<storeVars, aged, worldVars, unattested>>

(* Mutant: a payment that threw is taken for a dead invoice.               *)
PayThrewAndDropped(c) ==
    /\ At(c, "paying")
    /\ PayThrows(c) \/ PostThrows(c)
    /\ Put(c, Dropped(c))
    /\ Goes(c, "dropped")
    /\ UNCHANGED <<aged, worldVars, unattested>>

AskPayThrows(c) ==
    /\ At(c, "paying")
    /\ PayThrows(c) \/ PostThrows(c)
    /\ Ends(c)
    /\ UNCHANGED <<storeVars, aged, worldVars, unattested>>

AskAnswered(c) ==
    /\ At(c, "redeem")
    /\ Redeem(Invoice(c))
    /\ Put(c, WithAsk(Key(c), [Ask(Key(c)) EXCEPT !.status = "answered"]))
    /\ Goes(c, "answered")
    /\ UNCHANGED <<clientVars, late, faults, aged, worldVars, unattested>>

(* The seller challenges again, or its answer is lost.                     *)
RedeemThrows(c) ==
    /\ At(c, "redeem")
    /\ \/ ~Redeemable(Invoice(c)) /\ UNCHANGED <<lspVars, faults>>
       \/ Fault /\ UNCHANGED lspVars
       \/ Fault /\ Redeem(Invoice(c))
    /\ Ends(c)
    /\ UNCHANGED <<clientVars, late, storeVars, aged, worldVars, unattested>>

-----------------------------------------------------------------------------
DayPasses ==
    /\ aged' = {k \in Keys : ~Unclaimed(k)}
    /\ UNCHANGED <<railVars, storeVars, pc, worldVars, unattested>>

InvoiceExpires ==
    /\ Fault
    /\ \E i \in DOMAIN invoices : Expire(i)
    /\ UNCHANGED <<clientVars, late, storeVars, pc, aged, worldVars, unattested>>

(* Other payers of the client's channel.                                   *)
OthersPay ==
    /\ cached # 0
    /\ channels[cached].peer < Capacity
    /\ Fault
    /\ channels' = [channels EXCEPT ![cached] =
                      [index |-> channels[cached].index + 1, peer |-> channels[cached].peer + 1]]
    /\ UNCHANGED <<invoices, clientVars, late, storeVars, pc, aged, worldVars, unattested>>

(* The sends of L, and those under way before, land later; to a process    *)
(* that is configured with another treasury, astray.                       *)
Delays(L, fate) ==
    /\ tardy' = [k \in Keys |-> IF k \in L \/ tardy[k] = "under way" THEN fate ELSE tardy[k]]
    /\ strays' = IF fate = "astray" THEN [k \in Keys |-> 1 .. treasury'[k]] ELSE strays

(* The process ends: each request under way is served, or not, or, a send, *)
(* served later.  The next one may be configured with another treasury.    *)
Crash ==
    /\ RailForgets
    /\ \E S \in SUBSET {c \in Chains : pc[c].at \in {"send", "execute", "redeem"}},
          L \in SUBSET {k \in Keys : tardy[k] = "none"}, fate \in {"under way", "astray"} :
         LET served(k, label) == \E c \in S : At(c, label) /\ Key(c) = k IN
         /\ \A k \in L : \E c \in Chains \ S : At(c, "send") /\ Key(c) = k
         /\ treasury' = [k \in Keys |-> IF served(k, "send") THEN treasury[k] + 1 ELSE treasury[k]]
         /\ Delays(L, fate)
         /\ payouts' = [k \in Keys |-> IF served(k, "execute")
                                       THEN payouts[k] \cup {Convert(k).sent} ELSE payouts[k]]
         /\ invoices' = [i \in DOMAIN invoices |->
                           IF Redeemable(i) /\ \E c \in S : At(c, "redeem") /\ Invoice(c) = i
                           THEN [invoices[i] EXCEPT !.status = "redeemed"] ELSE invoices[i]]
    /\ Reload
    /\ pc' = [c \in Chains |-> Idle]
    /\ unattested' = {e \in Kinds \X Keys :
         /\ disk.att[e] = "none"
         /\ IF e[1] = "convert" THEN disk.convert[e[2]].status = "converted"
            ELSE disk.ask[e[2]].status = "answered"}
    /\ UNCHANGED aged

-----------------------------------------------------------------------------
ConvertStep(c) ==
    \/ MintSaved(c) \/ ConvertClaims(c) \/ ConvertClaimed(c) \/ SentIsLookedFor(c)
    \/ LookThrows(c)
    \/ SendAnswered(c) \/ SendThrows(c) \/ SentSaved(c) \/ Executed(c) \/ ExecuteThrows(c)

AttestStep(c) ==
    EventSaved(c) \/ AttestationSaved(c) \/ Signed(c) \/ SignThrows(c) \/ SignedSaved(c) \/ Saved(c)

AskStep(c) ==
    \/ AskStarts(c) \/ AskClaimed(c) \/ Challenged(c) \/ ChallengeThrows(c) \/ PinnedSaved(c)
    \/ StatusRead(c) \/ AskPaid(c) \/ AskPayThrows(c) \/ AskAnswered(c) \/ RedeemThrows(c)
    \/ RailStep(c) /\ UNCHANGED <<storeVars, pc, aged, worldVars, unattested>>

ChainStep(c) == ConvertStep(c) \/ AttestStep(c) \/ AskStep(c)

Sweeps(k) ==
    \/ TickConverts(k) \/ TickDrivesConvert(k) \/ TickAsks(k) \/ TickDrivesAsk(k)
    \/ \E kind \in Kinds : TickSigns(<<kind, k>>)

Next ==
    \/ \E k \in Keys : MintLands(k) \/ Sweeps(k) \/ TardyLands(k)
    \/ \E c \in Chains : ChainStep(c)
    \/ Resigned \/ DayPasses \/ InvoiceExpires \/ OthersPay \/ Crash
    \/ LateLands /\ UNCHANGED <<storeVars, pc, aged, worldVars, unattested>>

Spec == Init /\ [][Next]_vars

(* Every await ends; the tick comes again, and its sweeps pass over every  *)
(* record; days pass.                                                      *)
Fairness ==
    /\ WF_vars(Resigned \/ \E c \in Chains : ChainStep(c))
    /\ \A k \in Keys : /\ SF_vars(TickConverts(k)) /\ SF_vars(TickDrivesConvert(k))
                       /\ SF_vars(TickAsks(k)) /\ SF_vars(TickDrivesAsk(k))
    /\ \A e \in Kinds \X Keys : SF_vars(TickSigns(e))
    /\ WF_vars(DayPasses)

FairSpec == Spec /\ Fairness

-----------------------------------------------------------------------------

(* One conversion per loop, ever (gateway.ts:682, store.ts:99): however    *)
(* the hook, the tick and the next process interleave, the treasury is     *)
(* paid once for a loop - once more if a send the signer still held lands  *)
(* after the chain was looked at - and the engine pays out for one deposit.*)
PaidOnce ==
    \A k \in Keys :
        /\ treasury[k] <= 1 + (IF tardy[k] = "landed" THEN 1 ELSE 0)
        /\ Cardinality(payouts[k]) <= 1
        /\ Convert(k).status = "converted" => payouts[k] = {Convert(k).sent}

(* One paid invoice per loop (gateway.ts:860): lost answers, expiries and  *)
(* restarts never pay a second one, and an answered loop paid its own.     *)
OneInvoicePaid ==
    \A k \in Keys :
        LET paid == {i \in DOMAIN invoices : invoices[i].for = k /\ invoices[i].on # 0} IN
        /\ Cardinality(paid) <= 1
        /\ Ask(k).status = "answered" => paid = {Ask(k).invoice}

(* A signature is over what happened: an attested event is on disk as      *)
(* done (gateway.ts:957).                                                  *)
AttestedIsDone ==
    \A k \in Keys :
        /\ disk.att[<<"convert", k>>] # "none" => disk.convert[k].status = "converted"
        /\ disk.att[<<"ask", k>>] # "none" => disk.ask[k].status = "answered"

(* What the code does not get out of: the seller's answer was lost, the    *)
(* channel the client keeps has no room for the price, or the deposit pays *)
(* an earlier treasury.                                                    *)
Kept == IF cached # 0 THEN cached ELSE saved

Exhausted == Kept # 0 /\ channels[Kept].peer = Capacity

Stranded(k) ==
    \/ /\ Ask(k).status = "asking" /\ Ask(k).invoice # NoInvoice
       /\ \/ Status(Ask(k).invoice) = "redeemed"
          \/ Status(Ask(k).invoice) = "pending" /\ Exhausted
    \/ Convert(k).status = "converting" /\ Convert(k).sent = 0 /\ strays[k] # {}

(* A minted loop reaches its answer (gateway.ts:1119), through any crash.  *)
(* It does not when the seller's answer is lost after it was given, when   *)
(* the payer's channel is used up before it paid - the client keeps it,    *)
(* and every payment throws (ln402.ts:94, 183) - or when the deposit found *)
(* on the chain pays a treasury of an earlier configuration                *)
(* (gateway.ts:702).                                                       *)
LoopEnds ==
    \A k \in Keys : k \in disk.minted ~> (Ask(k).status = "answered" \/ Stranded(k))

(* What is done is signed in the end, unless a crash fell between the two. *)
DoneIsSigned ==
    \A k \in Keys :
        /\ Convert(k).status = "converted" ~> (mem.att[<<"convert", k>>] = "signed"
                                               \/ <<"convert", k>> \in unattested
                                               \/ Convert(k).status # "converted")
        /\ Ask(k).status = "answered" ~> (mem.att[<<"ask", k>>] = "signed"
                                          \/ <<"ask", k>> \in unattested
                                          \/ Ask(k).status # "answered")
====
