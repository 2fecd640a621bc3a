---- MODULE LaneManagerInv ----
(***************************************************************************)
(* The inductive invariants of the lane manager: what the rows of the      *)
(* coins, the book of the releases and a sync in progress have to do with  *)
(* each other and with the chain, between any two steps of its threads.    *)
(***************************************************************************)
EXTENDS LaneManager

-----------------------------------------------------------------------------
(* Types.                                                                  *)

Requests == [burn : Burns, live : BOOLEAN, step : Steps, coin : SUBSET Coins, sent : BOOLEAN]
RowStatus == {"none", "available", "reserved", "spent", "stale"}
BookStatus == {"none", "pending", "complete", "failed"}
Querying == [step : {"query"}, todo : SUBSET Addresses,
             live : SUBSET Coins, unsure : SUBSET Coins]

RefillsTyped ==
    \A t \in RefillThreads :
       refills[t] # Idle => /\ DOMAIN refills[t] = {"step", "fresh", "needed"}
                            /\ refills[t].step \in {"fund", "send"}

TypeOK ==
    /\ request # NoRequest => request \in Requests
    /\ rows \in [Coins -> [status : RowStatus, lane : Nat]]
    /\ books \in [Burns -> [status : BookStatus, coin : SUBSET Coins]]
    /\ lanes \in [Addresses -> Nat]
    /\ coin \in [Coins -> [at : Addresses, amount : Nat, unspent : BOOLEAN]]
    /\ syncs \in [SyncThreads -> {Idle} \cup Querying]
    /\ DOMAIN refills = RefillThreads
    /\ RefillsTyped
    /\ faults \in Nat /\ crashes \in Nat

-----------------------------------------------------------------------------
(* What is told: the book of a release that is complete tells coins whose  *)
(* rows are spent, and the coin of the release in progress has a row that  *)
(* no other release has spent: only the one HTTP thread books.             *)

ToldAreSpent ==
    \A b \in Burns : books[b].status = "complete" =>
       \A c \in books[b].coin : rows[c].status = "spent"

TakenAreUnspent ==
    request # NoRequest => \A c \in request.coin : rows[c].status \notin {"none", "spent"}

ToldInv == ToldAreSpent /\ TakenAreUnspent /\ CoinToldOnce

-----------------------------------------------------------------------------
(* What is reserved: the request has one coin once it has found one, only  *)
(* a release past its reservation has a reserved coin, and a release is    *)
(* reverted after a failure.                                               *)

OneTaken ==
    request # NoRequest =>
       /\ request.step # "find" => \E c \in Coins : request.coin = {c}
       /\ request.step = "revert" => faults # 0

ReservedAfterReserve ==
    \A c \in Coins :
       rows[c].status = "reserved" /\ crashes = 0 /\ faults < 2
          => /\ request # NoRequest
             /\ request.coin = {c}
             /\ request.step \in {"send", "book", "revert"}

ReserveInv == OneTaken /\ ReservedAfterReserve

-----------------------------------------------------------------------------
(* What is stale: a refill sends only for a denomination that wants coins, *)
(* a row is that of a coin which was paid to a registered address, and a   *)
(* sync has seen, has yet to ask for, or is not to know of every unspent   *)
(* coin with a row, also of one that a failed release will give back.      *)

WantedAreSent ==
    \A t \in RefillThreads : refills[t].step = "send" => Wanting(t) # {}

RowsAreCoins ==
    \A c \in Coins :
       /\ coin[c].unspent => coin[c].amount # 0
       /\ rows[c].status # "none" => coin[c].amount # 0 /\ lanes[coin[c].at] # 0

SeenOrAsked ==
    \A t \in SyncThreads, c \in Coins :
       syncs[t] # Idle /\ rows[c].status # "none" /\ coin[c].unspent
       => c \in syncs[t].live \cup syncs[t].unsure \/ coin[c].at \in syncs[t].todo

AskedAreRegistered ==
    \A t \in SyncThreads : syncs[t] # Idle => \A a \in syncs[t].todo : lanes[a] # 0

StaleInv ==
    /\ WantedAreSent /\ RowsAreCoins
    /\ AskedAreRegistered /\ SeenOrAsked
    /\ StaleIsGone

LaneInv == TypeOK /\ ToldInv /\ ReserveInv /\ StaleInv

====
