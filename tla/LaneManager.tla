---- MODULE LaneManager ----
(***************************************************************************)
(* The lane manager (relayer/lane-manager.py): an HTTP thread that serves  *)
(* releases one at a time, threads that sync the coins of the lanes with   *)
(* ElectrumX and top the lanes up, and one SQLite file, which survives.    *)
(*                                                                         *)
(* Every statement block under _db_lock is a step; between two of them,    *)
(* and around every call to ElectrumX or the signer, other threads run.    *)
(* The signer chooses the coins it spends by itself: the coin a release    *)
(* reserves is only noted.  Amounts are counted in the smallest            *)
(* denomination and the fee is less than one of it.                        *)
(***************************************************************************)
EXTENDS Naturals, Sequences, FiniteSets, FiniteSetsExt

CONSTANTS
    Burns, NoRequest,
    Net,            \* net_amount of each burn's release
    Coins,          \* outputs the signer ever pays to a lane address
    Denominations,  \* LANE_DENOMINATIONS
    Addresses,      \* addresses that may be registered as a lane's
    SignerAddress,  \* signer_addrs[0], where every new lane coin goes
    Legacy,         \* address -> denomination, registered by an earlier version; 0: not
    MinDepth, TargetDepth,
    SyncThreads,    \* the background thread's sync, and /sync in the HTTP thread
    RefillThreads,  \* the background thread's refill, and what /refill starts
    MaxAsks,        \* connections to /bridge and /sync of one behaviour (bound)
    MaxUpsets       \* crashes, failed queries, sends and statements (bound)

(* Where do_bridge_release can be.                                         *)
Steps == {"find", "reserve", "send", "book", "revert"}

ASSUME LaneAssumption ==
    /\ Net \in [Burns -> Nat \ {0}]
    /\ Denominations \subseteq Nat \ {0}
    /\ SignerAddress \in Addresses
    /\ Legacy \in [Addresses -> Denominations \cup {0}]
    /\ NoRequest \notin [burn : Burns, live : BOOLEAN, paid : BOOLEAN]
    /\ NoRequest \notin [burn : Burns, live : BOOLEAN, step : Steps,
                       coin : SUBSET Coins, sent : BOOLEAN]

VARIABLES
    call, backlog,  \* callers, and connections not yet accepted
    request,        \* what the HTTP thread serves, and how far it is
    rows,           \* table utxos: status (none: no row), denomination
    books,          \* table releases: status (none: no row), coin
    lanes,          \* table lane_addresses: denomination; 0: no row
    coin,           \* the chain: where a coin is, its amount, whether it is unspent
    syncs, refills, \* what each thread is at
    sends,          \* history: how often each burn was paid
    blamed,         \* history: coins marked by a sync that could not have seen them
    asks, faults, crashes

httpVars == <<call, backlog, request>>
dbVars == <<rows, books, lanes>>
pastVars == <<sends, blamed>>
countVars == <<asks, faults, crashes>>
vars == <<httpVars, dbVars, coin, syncs, refills, pastVars, countVars>>

NoCoin == [at |-> SignerAddress, amount |-> 0, unspent |-> FALSE]
Idle == [step |-> "idle"]

Init ==
    /\ call = [b \in Burns |-> "idle"]
    /\ backlog = <<>>
    /\ request = NoRequest
    /\ rows = [c \in Coins |-> [status |-> "none", lane |-> 0]]
    /\ books = [b \in Burns |-> [status |-> "none", coin |-> {}]]
    /\ lanes = Legacy
    /\ coin = [c \in Coins |-> NoCoin]
    /\ syncs = [t \in SyncThreads |-> Idle]
    /\ refills = [t \in RefillThreads |-> Idle]
    /\ sends = [b \in Burns |-> 0]
    /\ blamed = {}
    /\ asks = 0
    /\ faults = 0
    /\ crashes = 0

Fault == faults + crashes < MaxUpsets /\ faults' = faults + 1 /\ UNCHANGED <<asks, crashes>>

(***************************************************************************)
(* Callers.                                                                *)
(***************************************************************************)
Connect(b) ==
    /\ call[b] = "idle"
    /\ asks < MaxAsks
    /\ asks' = asks + 1
    /\ call' = [call EXCEPT ![b] = "asked"]
    /\ backlog' = Append(backlog, [burn |-> b, live |-> TRUE])
    /\ UNCHANGED <<request, dbVars, coin, syncs, refills, pastVars, faults, crashes>>

Collect(b) ==
    /\ call[b] \in {"ok", "error"}
    /\ call' = [call EXCEPT ![b] = "idle"]
    /\ UNCHANGED <<backlog, request, dbVars, coin, syncs, refills, pastVars, countVars>>

GiveUp(b) ==
    /\ call[b] = "asked"
    /\ call' = [call EXCEPT ![b] = "idle"]
    /\ backlog' = [i \in DOMAIN backlog |->
                    [backlog[i] EXCEPT !.live = @ /\ backlog[i].burn # b]]
    /\ request' = IF request = NoRequest THEN NoRequest
                  ELSE [request EXCEPT !.live = @ /\ request.burn # b]
    /\ UNCHANGED <<dbVars, coin, syncs, refills, pastVars, countVars>>

(***************************************************************************)
(* The HTTP thread: POST /bridge, do_bridge_release.                       *)
(***************************************************************************)
At(step) == request # NoRequest /\ request.step = step
GoTo(step) == request' = [request EXCEPT !.step = step]

Accept ==
    /\ request = NoRequest
    /\ \A t \in SyncThreads : t = "http" => syncs[t] = Idle
    /\ backlog # <<>>
    /\ LET b == Head(backlog).burn IN
         /\ request' = [burn |-> b, live |-> Head(backlog).live, step |-> "find",
                        coin |-> {}, sent |-> FALSE]
         /\ books' = IF books[b].status = "none"
                     THEN [books EXCEPT ![b].status = "pending"] ELSE books
    /\ backlog' = Tail(backlog)
    /\ UNCHANGED <<call, rows, lanes, coin, syncs, refills, pastVars, countVars>>

Reply(outcome) ==
    /\ call' = IF request.live THEN [call EXCEPT ![request.burn] = outcome] ELSE call
    /\ request' = NoRequest
    /\ UNCHANGED backlog

(* Mutant: a coin is taken whatever its row says.                          *)
AvailableAnyway == {c \in Coins : rows[c].status \in {"available", "spent"}}

Available == {c \in Coins : rows[c].status = "available"}

(* The smallest denomination that covers the amount, else the largest.     *)
TargetLane(net) ==
    LET covering == {d \in Denominations : d >= net}
    IN IF covering # {} THEN Min(covering) ELSE Max(Denominations)

(* A coin of that lane, else the smallest one that covers amount and fee.  *)
(* (Rows inserted by one query share their created_at.)                    *)
BestCoins(net) ==
    LET lane == {c \in Available : rows[c].lane = TargetLane(net)}
        larger == {c \in Available : coin[c].amount > net}
    IN IF lane # {} THEN lane
       ELSE {c \in larger : \A d \in larger : coin[c].amount <= coin[d].amount}

FindBest ==
    /\ At("find")
    /\ \E c \in BestCoins(Net[request.burn]) :
         request' = [request EXCEPT !.coin = {c}, !.step = "reserve"]
    /\ UNCHANGED <<call, backlog, dbVars, coin, syncs, refills, pastVars, countVars>>

LaneExhausted ==
    /\ At("find")
    /\ BestCoins(Net[request.burn]) = {}
    /\ Reply("error")
    /\ UNCHANGED <<dbVars, coin, syncs, refills, pastVars, countVars>>

(* Nothing tells whether the row was still available.                      *)
Reserve ==
    /\ At("reserve")
    /\ rows' = [c \in Coins |->
                  IF c \in request.coin \cap Available
                  THEN [rows[c] EXCEPT !.status = "reserved"] ELSE rows[c]]
    /\ GoTo("send")
    /\ UNCHANGED <<call, backlog, books, lanes, coin, syncs, refills, pastVars, countVars>>

(* The signer spends what it likes: coins of the lanes, or others.         *)
SignerSpends(ledger) ==
    {ledger} \cup {[ledger EXCEPT ![c].unspent = FALSE] : c \in {d \in Coins : ledger[d].unspent}}

Send ==
    /\ At("send")
    /\ coin' \in SignerSpends(coin)
    /\ sends' = [sends EXCEPT ![request.burn] = @ + 1]
    /\ \/ request' = [request EXCEPT !.step = "book", !.sent = TRUE] /\ UNCHANGED countVars
       \/ request' = [request EXCEPT !.step = "revert", !.sent = TRUE] /\ Fault
    /\ UNCHANGED <<call, backlog, dbVars, syncs, refills, blamed>>

SendRefused ==
    /\ At("send")
    /\ GoTo("revert")
    /\ Fault
    /\ UNCHANGED <<call, backlog, dbVars, coin, syncs, refills, pastVars>>

SetCoins(C, status) ==
    rows' = [c \in Coins |-> IF c \in C THEN [rows[c] EXCEPT !.status = status] ELSE rows[c]]

Book ==
    /\ At("book")
    /\ SetCoins(request.coin, "spent")
    /\ books' = [books EXCEPT ![request.burn] = [status |-> "complete", coin |-> request.coin]]
    /\ Reply("ok")
    /\ UNCHANGED <<lanes, coin, syncs, refills, pastVars, countVars>>

(* The statements of the try fail after the send: its except runs.         *)
BookFails ==
    /\ At("book")
    /\ GoTo("revert")
    /\ Fault
    /\ UNCHANGED <<call, backlog, dbVars, coin, syncs, refills, pastVars>>

(* Mutant: the coin of a release that failed stays reserved.               *)
RevertBooksOnly ==
    /\ At("revert")
    /\ books' = [books EXCEPT ![request.burn].status = "failed"]
    /\ Reply("error")
    /\ UNCHANGED <<rows, lanes, coin, syncs, refills, pastVars, countVars>>

(* Mutant: the handler ends without an answer.                             *)
RevertSilently ==
    /\ At("revert")
    /\ SetCoins(request.coin, "available")
    /\ books' = [books EXCEPT ![request.burn].status = "failed"]
    /\ request' = NoRequest
    /\ UNCHANGED <<call, backlog, lanes, coin, syncs, refills, pastVars, countVars>>

(* Whatever became of the row meanwhile.                                   *)
Revert ==
    /\ At("revert")
    /\ SetCoins(request.coin, "available")
    /\ books' = [books EXCEPT ![request.burn].status = "failed"]
    /\ Reply("error")
    /\ UNCHANGED <<lanes, coin, syncs, refills, pastVars, countVars>>

(* The trouble that led here goes on (it is not counted against the bound).*)
RevertFails ==
    /\ At("revert")
    /\ Reply("error")
    /\ faults' = faults + 1
    /\ UNCHANGED <<dbVars, coin, syncs, refills, pastVars, asks, crashes>>

Bridge == Accept \/ FindBest \/ LaneExhausted \/ Reserve \/ Send \/ SendRefused
          \/ Book \/ BookFails \/ Revert \/ RevertFails

(***************************************************************************)
(* sync_utxos.                                                             *)
(***************************************************************************)
Registered == {a \in Addresses : lanes[a] # 0}

SyncBegin(t) ==
    /\ syncs[t] = Idle
    /\ t = "http" => request = NoRequest /\ asks < MaxAsks
    /\ asks' = IF t = "http" THEN asks + 1 ELSE asks
    /\ Registered # {}
    /\ syncs' = [syncs EXCEPT ![t] = [step |-> "query", todo |-> Registered,
                                     live |-> {}, unsure |-> {}]]
    /\ UNCHANGED <<httpVars, dbVars, coin, refills, pastVars, faults, crashes>>

(* The coins at an address that have no row yet.  (Mutant: only these      *)
(* count as live.)                                                         *)
NewAt(a) == {c \in Coins : coin[c].unspent /\ coin[c].at = a /\ rows[c].status = "none"}

(* listunspent.                                                            *)
LiveAt(a) == {c \in Coins : coin[c].unspent /\ coin[c].at = a}

(* Another sync that has already asked the address will not see what this  *)
(* one adds: history notes such coins in its unsure.                       *)
SyncQuery(t) ==
    /\ syncs[t] # Idle
    /\ \E a \in syncs[t].todo :
         /\ syncs' = [u \in SyncThreads |->
              IF u = t THEN [syncs[u] EXCEPT !.todo = @ \ {a}, !.live = @ \cup LiveAt(a)]
              ELSE IF syncs[u] # Idle /\ a \notin syncs[u].todo
              THEN [syncs[u] EXCEPT !.unsure = @ \cup NewAt(a)] ELSE syncs[u]]
         /\ rows' = [c \in Coins |->
                       IF c \in LiveAt(a) /\ rows[c].status = "none"
                       THEN [status |-> "available", lane |-> lanes[a]] ELSE rows[c]]
    /\ UNCHANGED <<httpVars, books, lanes, coin, refills, pastVars, countVars>>

(* A query that fails leaves its address's coins out of the live set.      *)
SyncQueryFails(t) ==
    /\ syncs[t] # Idle
    /\ \E a \in syncs[t].todo :
         syncs' = [syncs EXCEPT ![t].todo = @ \ {a},
                                ![t].unsure = @ \cup LiveAt(a)]
    /\ Fault
    /\ UNCHANGED <<httpVars, dbVars, coin, refills, pastVars>>

Unseen(t) == Available \ syncs[t].live

SyncMark(t) ==
    /\ syncs[t] # Idle
    /\ syncs[t].todo = {}
    /\ SetCoins(Unseen(t), "stale")
    /\ blamed' = blamed \cup (Unseen(t) \cap syncs[t].unsure)
    /\ syncs' = [syncs EXCEPT ![t] = Idle]
    /\ UNCHANGED <<httpVars, books, lanes, coin, refills, sends, countVars>>

Sync(t) == SyncBegin(t) \/ SyncQuery(t) \/ SyncQueryFails(t) \/ SyncMark(t)

(***************************************************************************)
(* refill_lanes, fund_lane_utxo.                                           *)
(***************************************************************************)
Depth(d) == Cardinality({c \in Available : rows[c].lane = d})

(* The depths are read once, before the first coin is funded.              *)
RefillBegin(t) ==
    /\ refills[t] = Idle
    /\ refills' = [refills EXCEPT ![t] = [step |-> "fund", fresh |-> TRUE, needed |->
         [d \in Denominations |-> IF Depth(d) < MinDepth THEN TargetDepth - Depth(d) ELSE 0]]]
    /\ UNCHANGED <<httpVars, dbVars, coin, syncs, pastVars, countVars>>

Wanting(t) == {d \in Denominations : refills[t].needed[d] > 0}

(* The address keeps the denomination it was first registered with.        *)
FundRegister(t) ==
    /\ refills[t].step = "fund"
    /\ Wanting(t) # {}
    /\ lanes' = IF lanes[SignerAddress] = 0
                THEN [lanes EXCEPT ![SignerAddress] = Min(Wanting(t))] ELSE lanes
    /\ refills' = [refills EXCEPT ![t].step = "send"]
    /\ UNCHANGED <<httpVars, rows, books, coin, syncs, pastVars, countVars>>

FundSend(t) ==
    /\ refills[t].step = "send"
    /\ \E c \in {d \in Coins : coin[d].amount = 0}, ledger \in SignerSpends(coin) :
         coin' = [ledger EXCEPT ![c] = [at |-> SignerAddress, amount |-> Min(Wanting(t)),
                                        unspent |-> TRUE]]
    /\ LET d == Min(Wanting(t)) IN
         \/ /\ refills' = [refills EXCEPT ![t].step = "fund", ![t].needed[d] = @ - 1,
                                        ![t].fresh = refills[t].needed[d] = 1]
            /\ UNCHANGED countVars
         \/ /\ refills' = [refills EXCEPT ![t].step = "fund", ![t].needed[d] = 0,
                                        ![t].fresh = TRUE]
            /\ Fault
    /\ UNCHANGED <<httpVars, dbVars, syncs, pastVars>>

(* The signer refuses: on to the next denomination.                        *)
FundRefused(t) ==
    /\ refills[t].step = "send"
    /\ refills' = [refills EXCEPT ![t].step = "fund", ![t].needed[Min(Wanting(t))] = 0,
                                  ![t].fresh = TRUE]
    /\ UNCHANGED <<httpVars, dbVars, coin, syncs, pastVars, countVars>>

(* All is funded, or the balance (or the signer's answer) does not allow   *)
(* the next denomination.                                                  *)
RefillEnds(t) ==
    /\ refills[t].step = "fund"
    /\ refills[t].fresh
    /\ refills' = [refills EXCEPT ![t] = Idle]
    /\ UNCHANGED <<httpVars, dbVars, coin, syncs, pastVars, countVars>>

Refill(t) == RefillBegin(t) \/ FundRegister(t) \/ FundSend(t) \/ FundRefused(t) \/ RefillEnds(t)

(* The process ends: threads and connections are gone, the file stays.     *)
Crash ==
    /\ faults + crashes < MaxUpsets
    /\ crashes' = crashes + 1
    /\ call' = [b \in Burns |-> IF call[b] = "asked" THEN "error" ELSE call[b]]
    /\ backlog' = <<>>
    /\ request' = NoRequest
    /\ syncs' = [t \in SyncThreads |-> Idle]
    /\ refills' = [t \in RefillThreads |-> Idle]
    /\ UNCHANGED <<dbVars, coin, pastVars, asks, faults>>

Next ==
    \/ \E b \in Burns : Connect(b) \/ Collect(b) \/ GiveUp(b)
    \/ Bridge
    \/ \E t \in SyncThreads : Sync(t)
    \/ \E t \in RefillThreads : Refill(t)
    \/ Crash

Spec == Init /\ [][Next]_vars

(* No coin is told as the release of two burns, whatever syncs and         *)
(* refills, failed releases and crashes came between them.                 *)
CoinToldOnce ==
    \A a, b \in Burns :
       a # b /\ books[a].status = "complete" /\ books[b].status = "complete"
          => books[a].coin \cap books[b].coin = {}

(* A coin is reserved only while the release that reserved it is served: a *)
(* failed release gives it back.  (A crash, or a file that cannot be       *)
(* written, leaves it reserved for ever.)                                  *)
ReservedIsServed ==
    \A c \in Coins :
       rows[c].status = "reserved" /\ crashes = 0 /\ faults < 2
          => request # NoRequest /\ request.coin = {c}

(* A coin that is marked stale is spent, whatever releases, refills and    *)
(* other syncs did between the queries and the marking.  The exceptions    *)
(* are a coin at whose address the query of the marking sync failed, and   *)
(* one whose row another sync added after the marking one had asked there. *)
StaleIsGone ==
    \A c \in Coins : rows[c].status = "stale" /\ coin[c].unspent => c \in blamed

(* The lane manager is what the router takes it for: requests are served   *)
(* in their order, each pays at most once and is answered, and what an     *)
(* answer of ok tells was sent.                                            *)
Paul == INSTANCE PaulService WITH
    waiting <- backlog,
    paul <- sends,
    serving <- IF request = NoRequest THEN NoRequest
               ELSE [burn |-> request.burn, live |-> request.live, paid |-> request.sent]
PaulSpec == Paul!PaulSpec

====
