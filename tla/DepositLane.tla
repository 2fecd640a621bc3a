---- MODULE DepositLane ----
(***************************************************************************)
(* The bitcoin lane from the wallet to the mint: the adapter's poll cursor *)
(* (relayer/src/cea/bitcoin-cea.ts), the gateway's dedup of what it        *)
(* reports (btcsoq/gateway.ts), the router that hands a confirmed deposit  *)
(* to the mint strategy (cea/router.ts, index.ts), and the file the cursor *)
(* and the deposits are kept in.                                           *)
(*                                                                         *)
(* checkNow is called by a timer that waits for nothing and by bitcoind's  *)
(* blocknotify: while one call hands its batch over, another skips the     *)
(* poll and persists the cursor.  What a mint does on its way is           *)
(* BtcsoqMint's business; here it lands or does not.  Blocks are heights,  *)
(* a cursor is the height of its block, and no block is replaced.          *)
(***************************************************************************)
EXTENDS DuaRouter, GatewayStore

CONSTANTS
    Callers,        \* who calls gateway.checkNow: the timer, blocknotify
    Solicited,      \* deposits to the address of an intent
    Finality,       \* finalityConf
    MaxTip,         \* blocks mined (bound)
    MaxTroubles     \* crashes and failing writes (bound)

ASSUME LaneAssumption ==
    /\ Solicited \subseteq Burns
    /\ Finality \in Nat \ {0}
    /\ MaxTip \in Nat /\ Finality <= MaxTip
    /\ "tick" \notin Callers

VARIABLES
    tip,            \* the newest block
    block,          \* each deposit's block; 0: unconfirmed, NotSent: not sent
    cursor,         \* the adapter's cursor
    known,          \* the gateway's `seen': the confidence it last acted on
    check,          \* where each call of checkNow is
    troubles,
    cutOff,         \* history: deposits in a batch that a crash or failed write cut off
    older           \* history: deposits older than a start without a saved cursor

chainVars == <<tip, block>>
checkVars == <<cursor, known, check>>
boundVars == <<troubles, cutOff, older>>
vars == <<paulVars, routerVars, storeVars, chainVars, checkVars, boundVars>>

NotSent == MaxTip + 1
NoCursor == 0
Idle == [at |-> "idle", todo |-> {}]

Empty == [dep |-> [d \in Burns |-> 0], mint |-> {}, cursor |-> NoCursor]

(* The first start: no saved cursor, the poll begins at the tip.           *)
Init ==
    /\ PaulInit
    /\ RouterInit
    /\ StoreInit(Empty)
    /\ tip = Finality
    /\ block = [d \in Burns |-> NotSent]
    /\ cursor = Finality
    /\ known = [d \in Burns |-> 0]
    /\ check = [c \in Callers |-> Idle]
    /\ troubles = 0
    /\ cutOff = {}
    /\ older = {}

-----------------------------------------------------------------------------
(* The bitcoin chain: deposits are sent, and confirmed by blocks.          *)

Deposit(d) ==
    /\ block[d] = NotSent
    /\ block' = [block EXCEPT ![d] = 0]
    /\ UNCHANGED <<paulVars, routerVars, storeVars, tip, checkVars, boundVars>>

Mine ==
    /\ tip < MaxTip
    /\ tip' = tip + 1
    /\ \E S \in SUBSET {d \in Burns : block[d] = 0} :
         block' = [d \in Burns |-> IF d \in S THEN tip + 1 ELSE block[d]]
    /\ UNCHANGED <<paulVars, routerVars, storeVars, checkVars, boundVars>>

InChain(d) == block[d] \in 1 .. tip

Confirmations(d) == IF InChain(d) THEN tip - block[d] + 1 ELSE 0

ConfidenceFor(n) == IF n = 0 THEN 1 ELSE IF n >= Finality THEN 3 ELSE 2

-----------------------------------------------------------------------------
(* checkNow                                                                *)

Goes(c, where) == check' = [check EXCEPT ![c] = where]

Checking == \E c \in Callers : check[c].at \in {"handing", "put", "routed", "minted"}

(* After the adapter's checkNow, whatever it did: the cursor is persisted  *)
(* when it is not the saved one.                                           *)
PersistCursor(c) ==
    LET saved == [mem EXCEPT !.cursor = cursor'] IN
    IF saved = mem THEN Goes(c, Idle) /\ UNCHANGED storeVars
    ELSE \/ Put(c, saved) /\ Goes(c, [at |-> "saving", todo |-> {}])
         \/ PutRejected(saved) /\ Goes(c, Idle)

(* A call that finds another one checking polls nothing.                   *)
CheckSkips(c) ==
    /\ check[c] = Idle
    /\ Checking
    /\ cursor # mem.cursor
    /\ UNCHANGED cursor
    /\ PersistCursor(c)
    /\ UNCHANGED <<paulVars, routerVars, chainVars, known, boundVars>>

(* The poll's await on the wallet is folded into its answer: while it      *)
(* lasts the cursor is the saved one, and nobody else polls.               *)
PollBegins(c) == check[c] = Idle /\ ~Checking

(* listsinceblock fails: no events, and the cursor stays.                  *)
PollFails(c) ==
    /\ PollBegins(c)
    /\ cursor # mem.cursor
    /\ UNCHANGED cursor
    /\ PersistCursor(c)
    /\ UNCHANGED <<paulVars, routerVars, chainVars, known, boundVars>>

(* listsinceblock: what is unconfirmed or in a block above the cursor.     *)
Listed == {d \in Burns : block[d] = 0 \/ (InChain(d) /\ block[d] > cursor)}

(* Mutants: lastblock without target_confirmations; one block further.     *)
LastBlockAtTip == tip

(* lastblock: the block with target_confirmations = finalityConf.          *)
LastBlock == tip - Finality + 1

(* The cursor moves before anything is handed over.                        *)
PollLists(c) ==
    /\ PollBegins(c)
    /\ cursor' = LastBlock
    /\ Goes(c, [at |-> "handing",
                todo |-> {<<d, ConfidenceFor(Confirmations(d))>> : d \in Listed}])
    /\ UNCHANGED <<paulVars, routerVars, storeVars, chainVars, known, boundVars>>

-----------------------------------------------------------------------------
(* onDepositEvent, one event of the batch at a time                        *)

Event(c) == check[c].event[1]
Level(c) == check[c].event[2]

(* What a call still has to put.                                           *)
Pending(c) ==
    {e[1] : e \in check[c].todo} \cup (IF check[c].at = "put" THEN {Event(c)} ELSE {})

Hands(c, d, l) ==
    /\ check[c].at = "handing"
    /\ <<d, l>> \in check[c].todo

(* Nothing new to say of the deposit.                                      *)
EventKnown(c, d, l) ==
    /\ Hands(c, d, l)
    /\ l <= known[d]
    /\ check' = [check EXCEPT ![c].todo = @ \ {<<d, l>>}]
    /\ UNCHANGED <<paulVars, routerVars, storeVars, chainVars, cursor, known, boundVars>>

(* The gate is passed, and after the SPV proof the deposit is put.  A put  *)
(* that rejects throws out of the callback: the batch's rest is dropped.   *)
EventPut(c, d, l) ==
    /\ Hands(c, d, l)
    /\ l > known[d]
    /\ known' = [known EXCEPT ![d] = l]
    /\ LET m == [mem EXCEPT !.dep[d] = l] IN
         \/ /\ Put(c, m)
            /\ Goes(c, [at |-> "put", todo |-> check[c].todo \ {<<d, l>>}, event |-> <<d, l>>])
            /\ UNCHANGED cutOff
         \/ /\ PutRejected(m)
            /\ Goes(c, Idle)
            /\ cutOff' = cutOff \cup Pending(c)
    /\ UNCHANGED <<paulVars, routerVars, chainVars, cursor, troubles, older>>

Back(c) == [at |-> "handing", todo |-> check[c].todo]

(* Mutant: the deposit's put is not awaited.                               *)
EventRoutedEarly(c) ==
    /\ check[c].at = "put"
    /\ OnBurnDetected(Event(c), Level(c))
    /\ Goes(c, [check[c] EXCEPT !.at = "routed"])
    /\ UNCHANGED <<storeVars, chainVars, cursor, known, boundVars>>

(* The deposit is on disk.  What is past the mempool goes to the router.   *)
EventRouted(c) ==
    /\ check[c].at = "put"
    /\ Settle(c)
    /\ IF Level(c) = 1
       THEN Goes(c, Back(c)) /\ UNCHANGED <<paulVars, routerVars>>
       ELSE /\ OnBurnDetected(Event(c), Level(c))
            /\ Goes(c, [check[c] EXCEPT !.at = "routed"])
    /\ UNCHANGED <<chainVars, cursor, known, boundVars>>

(* The callback of an event the router does not act on returns.            *)
RouterReturns(c) ==
    /\ check[c].at = "routed"
    /\ Handled(Event(c))
    /\ Goes(c, Back(c))
    /\ UNCHANGED <<paulVars, routerVars, storeVars, chainVars, cursor, known, boundVars>>

-----------------------------------------------------------------------------
(* The mint strategy, and the money tick beside it                         *)

Lands(d) == [mem EXCEPT !.mint = @ \cup {d}]

(* Mutant: no sweep over the deposits that have no mint.                   *)
MintsWhenRouted(d) ==
    /\ d \in Solicited /\ mem.dep[d] >= 2 /\ d \notin mem.mint
    /\ strategies[d] # {}

Mints(d) == d \in Solicited /\ mem.dep[d] >= 2 /\ d \notin mem.mint

StrategyRuns(c) ==
    /\ check[c].at = "routed"
    /\ Level(c) \in strategies[Event(c)]

StrategyMints(c) ==
    /\ StrategyRuns(c)
    /\ Mints(Event(c))
    /\ Put(c, Lands(Event(c)))
    /\ Goes(c, [check[c] EXCEPT !.at = "minted"])
    /\ UNCHANGED <<paulVars, routerVars, chainVars, cursor, known, boundVars>>

StrategyMinted(c) ==
    /\ check[c].at = "minted"
    /\ Settle(c)
    /\ StrategyAnswered(Event(c), Level(c), TRUE)
    /\ Goes(c, Back(c))
    /\ UNCHANGED <<chainVars, cursor, known, boundVars>>

(* A recorded mint is answered as it is; null says unsolicited, held,      *)
(* deferred, failed, or in flight elsewhere.                               *)
StrategyReturns(c) ==
    /\ StrategyRuns(c)
    /\ StrategyAnswered(Event(c), Level(c), Event(c) \in mem.mint)
    /\ Goes(c, Back(c))
    /\ UNCHANGED <<storeVars, chainVars, cursor, known, boundVars>>

(* moneyTick mints what is recorded, whoever reported it.                  *)
TickMints(d) ==
    /\ "tick" \notin Awaiting
    /\ Mints(d)
    /\ Put("tick", Lands(d))
    /\ UNCHANGED <<paulVars, routerVars, chainVars, checkVars, boundVars>>

TickSettles ==
    /\ Settle("tick")
    /\ UNCHANGED <<paulVars, routerVars, chainVars, checkVars, boundVars>>

-----------------------------------------------------------------------------
(* The batch is through: the guard is free, the cursor is persisted.       *)
BatchEnds(c) ==
    /\ check[c].at = "handing"
    /\ check[c].todo = {}
    /\ UNCHANGED cursor
    /\ PersistCursor(c)
    /\ UNCHANGED <<paulVars, routerVars, chainVars, known, boundVars>>

SaveEnds(c) ==
    /\ check[c].at = "saving"
    /\ Settle(c)
    /\ Goes(c, Idle)
    /\ UNCHANGED <<paulVars, routerVars, chainVars, cursor, known, boundVars>>

(* A write fails: the callers that await one throw; a strategy's throw is  *)
(* the router's to catch.                                                  *)
StoreFault ==
    /\ troubles < MaxTroubles
    /\ troubles' = troubles + 1
    /\ WriteFails
    /\ cutOff' = cutOff \cup UNION {Pending(c) : c \in {k \in Callers : check[k].at = "put"}}
    /\ check' = [c \in Callers |-> IF check[c].at \in {"put", "saving"} THEN Idle
                                   ELSE IF check[c].at = "minted" THEN Back(c)
                                   ELSE check[c]]
    /\ IF \E c \in Callers : check[c].at = "minted"
       THEN \E c \in Callers : check[c].at = "minted"
                               /\ StrategyAnswered(Event(c), Level(c), FALSE)
       ELSE UNCHANGED <<paulVars, routerVars>>
    /\ UNCHANGED <<chainVars, cursor, known, older>>

(* The process ends - once more if its store rejects every write - and     *)
(* starts again with the cursor and the deposits of the file.              *)
Crash ==
    /\ poisoned \/ troubles < MaxTroubles
    /\ troubles' = IF poisoned THEN troubles ELSE troubles + 1
    /\ Reload
    /\ RouterForgets
    /\ cursor' = IF disk.cursor = NoCursor THEN tip ELSE disk.cursor
    /\ known' = disk.dep
    /\ check' = [c \in Callers |-> Idle]
    /\ cutOff' = cutOff \cup UNION {Pending(c) : c \in Callers}
    /\ older' = IF disk.cursor = NoCursor THEN {d \in Burns : InChain(d)} ELSE older
    /\ UNCHANGED <<paul, chainVars>>

-----------------------------------------------------------------------------
CheckStep(c) ==
    \/ EventRouted(c) \/ RouterReturns(c) \/ StrategyMints(c) \/ StrategyMinted(c)
    \/ StrategyReturns(c) \/ BatchEnds(c) \/ SaveEnds(c)
    \/ \E d \in Burns, l \in Levels : EventKnown(c, d, l) \/ EventPut(c, d, l)

Next ==
    \/ \E d \in Burns : Deposit(d) \/ TickMints(d)
    \/ \E c \in Callers : \/ CheckSkips(c) \/ PollFails(c) \/ PollLists(c)
                          \/ CheckStep(c)
    \/ Mine \/ TickSettles \/ StoreFault \/ Crash

Spec == Init /\ [][Next]_vars

(* Some await always ends; a wallet asked again and again by the timer     *)
(* answers, and a mint driven again and again lands (what BtcsoqMint shows *)
(* of it).                                                                 *)
Fairness ==
    /\ WF_vars(TickSettles \/ \E c \in Callers : CheckStep(c))
    /\ SF_vars(\E c \in Callers : PollLists(c))
    /\ \A d \in Solicited : SF_vars(TickMints(d))

FairSpec == Spec /\ Fairness

-----------------------------------------------------------------------------

Covered(d) == InChain(d) /\ block[d] <= disk.cursor

(* The saved cursor stays behind the ledger: a deposit at or below it is   *)
(* on disk as finalized, or in a batch under way - unless a crash or a     *)
(* failed write cut its batch off (gateway.ts:280, bitcoin-cea.ts:140).    *)
SkippedOnlyByCut ==
    \A d \in Burns : Covered(d) =>
        disk.dep[d] = 3 \/ d \in cutOff \cup older \/ \E c \in Callers : d \in Pending(c)

(* The router's record of a deposit never tells more than the ledger: a    *)
(* confidence that is not on disk, or a receipt that is not recorded.      *)
RecordBehindLedger ==
    \A d \in Burns : releases[d] # NoRecord =>
        /\ releases[d].level <= disk.dep[d]
        /\ releases[d].method = "strategy" => d \in mem.mint

(* A solicited deposit in the chain has its receipt in the end, through    *)
(* the router or beside it, unless its batch was cut off or the store is   *)
(* rejecting every write.                                                  *)
DepositIsMinted ==
    \A d \in Solicited : InChain(d) ~> (d \in mem.mint \/ d \in cutOff \cup older \/ poisoned)

====
