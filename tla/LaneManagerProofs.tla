---- MODULE LaneManagerProofs ----
(***************************************************************************)
(* What the lane manager keeps, for any burns, coins, lanes, threads, and  *)
(* any number of connections, failures and crashes: the invariants of      *)
(* LaneManagerInv, and that it implements PaulService.                     *)
(***************************************************************************)
EXTENDS LaneManagerInv, SequenceTheorems, WellFoundedInduction, TLAPS

Connections == [burn : Burns, live : BOOLEAN]

(* What is served is a request of a caller; it has paid nothing before the *)
(* send, and has paid when its release is booked.                          *)
ServedInv ==
    /\ call \in [Burns -> {"idle", "asked", "ok", "error"}]
    /\ backlog \in Seq(Connections)
    /\ request # NoRequest =>
         /\ request \in Requests
         /\ request.step \in {"find", "reserve", "send"} => ~request.sent
         /\ request.step = "book" => request.sent

ServeVars == <<call, backlog, request, sends>>

-----------------------------------------------------------------------------
(* The invariant.                                                          *)

LEMMA ServedStarts == Init => ServedInv
BY DEF Init, ServedInv

(* The coin a release takes is a coin, and nothing else of it changes.     *)
LEMMA BestAreCoins ==
    ASSUME NEW net
    PROVE  BestCoins(net) \subseteq Coins
BY DEF BestCoins, Available

LEMMA FoundIsRequest ==
    ASSUME ServedInv, FindBest
    PROVE  /\ request \in Requests
           /\ request' \in Requests
           /\ request'.step = "reserve"
           /\ \A field \in {"burn", "live", "sent"} : request'[field] = request[field]
           /\ ~request.sent
<1>1. PICK c \in BestCoins(Net[request.burn]) :
        request' = [request EXCEPT !.coin = {c}, !.step = "reserve"]
  BY DEF FindBest
<1>2. {c} \in SUBSET Coins
  BY BestAreCoins
<1>3. request \in Requests /\ ~request.sent
  BY DEF FindBest, At, ServedInv
<1>4. QED
  BY <1>1, <1>2, <1>3 DEF Requests, Steps

(* A caller's step: what is served goes on, heard or unheard.              *)
LEMMA CallersServed ==
    ASSUME ServedInv, NEW b \in Burns, Connect(b) \/ Collect(b) \/ GiveUp(b)
    PROVE  ServedInv'
<1>1. CASE Connect(b)
  <2>1. [burn |-> b, live |-> TRUE] \in Connections
    BY DEF Connections
  <2>2. QED
    BY <1>1, <2>1, AppendProperties DEF Connect, ServedInv
<1>2. CASE Collect(b)
  BY <1>2 DEF Collect, ServedInv
<1>3. CASE GiveUp(b)
  <2>1. backlog' \in Seq(Connections)
    <3>1. /\ backlog \in Seq(Connections)
          /\ DOMAIN backlog = 1 .. Len(backlog)
          /\ Len(backlog) \in Nat
      BY DEF ServedInv
    <3>2. \A i \in 1 .. Len(backlog) :
            [backlog[i] EXCEPT !.live = @ /\ backlog[i].burn # b] \in Connections
      <4>1. SUFFICES ASSUME NEW i \in 1 .. Len(backlog)
                     PROVE  [backlog[i] EXCEPT !.live = @ /\ backlog[i].burn # b] \in Connections
        OBVIOUS
      <4>2. backlog[i] \in Connections
        BY <3>1, ElementOfSeq
      <4>3. PICK heard \in BOOLEAN : heard = (backlog[i].live /\ backlog[i].burn # b)
        OBVIOUS
      <4>4. [backlog[i] EXCEPT !.live = heard] \in Connections
        BY <4>2 DEF Connections
      <4>5. QED
        BY <4>3, <4>4
    <3>3. backlog' = [i \in 1 .. Len(backlog) |->
                        [backlog[i] EXCEPT !.live = @ /\ backlog[i].burn # b]]
      BY <1>3, <3>1 DEF GiveUp
    <3>4. QED
      BY <3>1, <3>2, <3>3, SeqDef
  <2>2. call' \in [Burns -> {"idle", "asked", "ok", "error"}]
    BY <1>3 DEF GiveUp, ServedInv
  <2>3. request' # NoRequest =>
          /\ request' \in Requests
          /\ request'.step \in {"find", "reserve", "send"} => ~request'.sent
          /\ request'.step = "book" => request'.sent
    BY <1>3 DEF GiveUp, ServedInv, Requests
  <2>4. QED
    BY <2>1, <2>2, <2>3 DEF ServedInv
<1>4. QED
  BY <1>1, <1>2, <1>3

(* A step of the release: only the send pays, and what is booked was sent. *)
LEMMA BridgeServed ==
    ASSUME ServedInv, Bridge
    PROVE  ServedInv'
<1> USE DEF At, GoTo, Reply, Fault
<1>1. CASE Accept
  <2>1. /\ Head(backlog) \in Connections
        /\ Tail(backlog) \in Seq(Connections)
    BY <1>1, HeadTailProperties DEF Accept, ServedInv
  <2>2. request' \in Requests
    BY <1>1, <2>1 DEF Accept, Requests, Connections, Steps
  <2>3. request'.step = "find" /\ ~request'.sent
    BY <1>1 DEF Accept
  <2>4. QED
    BY <1>1, <2>1, <2>2, <2>3 DEF Accept, ServedInv
<1>2. CASE FindBest
  BY <1>2, FoundIsRequest DEF FindBest, ServedInv
<1>3. CASE Reserve
  BY <1>3 DEF Reserve, ServedInv, Requests, Steps
<1>4. CASE Send
  BY <1>4 DEF Send, ServedInv, Requests, Steps
<1>5. CASE SendRefused \/ BookFails
  BY <1>5 DEF SendRefused, BookFails, ServedInv, Requests, Steps
<1>6. CASE LaneExhausted \/ Book \/ Revert \/ RevertFails
  BY <1>6 DEF LaneExhausted, Book, Revert, RevertFails, ServedInv, Requests
<1>7. QED
  BY <1>1, <1>2, <1>3, <1>4, <1>5, <1>6 DEF Bridge

LEMMA SyncsApart ==
    ASSUME NEW t \in SyncThreads, Sync(t)
    PROVE  UNCHANGED ServeVars
BY DEF Sync, SyncBegin, SyncQuery, SyncQueryFails, SyncMark, ServeVars, httpVars, pastVars

LEMMA RefillsApart ==
    ASSUME NEW t \in RefillThreads, Refill(t)
    PROVE  UNCHANGED ServeVars
BY DEF Refill, RefillBegin, FundRegister, FundSend, FundRefused, RefillEnds, ServeVars, httpVars, pastVars

LEMMA ApartServed ==
    ASSUME ServedInv, UNCHANGED ServeVars
    PROVE  ServedInv'
BY DEF ServedInv, ServeVars

LEMMA CrashServed ==
    ASSUME ServedInv, Crash
    PROVE  ServedInv'
BY DEF ServedInv, Crash

LEMMA StepServed ==
    ASSUME ServedInv, [Next]_vars
    PROVE  ServedInv'
<1>1. CASE \E b \in Burns : Connect(b) \/ Collect(b) \/ GiveUp(b)
  BY <1>1, CallersServed
<1>2. CASE Bridge
  BY <1>2, BridgeServed
<1>3. CASE \E t \in SyncThreads : Sync(t)
  BY <1>3, SyncsApart, ApartServed
<1>4. CASE \E t \in RefillThreads : Refill(t)
  BY <1>4, RefillsApart, ApartServed
<1>5. CASE Crash
  BY <1>5, CrashServed
<1>6. CASE UNCHANGED vars
  BY <1>6, ApartServed DEF vars, httpVars, ServeVars, pastVars
<1>7. QED
  BY <1>1, <1>2, <1>3, <1>4, <1>5, <1>6 DEF Next

(* Nothing is booked as released that was not sent, in any behaviour.      *)
THEOREM ServedHolds == Spec => []ServedInv
<1>1. QED
  BY ServedStarts, StepServed, PTL DEF Spec

-----------------------------------------------------------------------------
(* Types.                                                                  *)

(* A set of denominations that is not empty has a least one.               *)
LEMMA LeastIsLeast ==
    ASSUME NEW S, S \subseteq Nat, S # {}
    PROVE  Min(S) \in S /\ \A x \in S : Min(S) <= x
<1> DEFINE Below == OpToRel(<, Nat)
<1>1. \A x, y \in Nat : <<x, y>> \in Below <=> x < y
  BY DEF OpToRel
<1>2. \E x \in S : \A y \in S : ~(<<y, x>> \in Below)
  <2> HIDE DEF Below
  <2>1. IsWellFoundedOn(Below, Nat)
    BY NatLessThanWellFounded DEF Below
  <2>2. QED
    BY <2>1, WFMin
<1>3. PICK x \in S : \A y \in S : ~(<<y, x>> \in Below)
  BY <1>2
<1>4. \A y \in S : x <= y
  <2>1. SUFFICES ASSUME NEW y \in S
                 PROVE  x <= y
    OBVIOUS
  <2>2. x \in Nat /\ y \in Nat
    OBVIOUS
  <2>3. ~(y < x)
    BY <1>1, <1>3, <2>2, Zenon
  <2>4. QED
    BY <2>2, <2>3
<1>5. QED
  BY <1>4 DEF Min

LEMMA FundedIsCoin ==
    ASSUME NEW t, Wanting(t) # {}
    PROVE  Min(Wanting(t)) \in Denominations /\ Min(Wanting(t)) \in Nat /\ Min(Wanting(t)) # 0
<1>1. Wanting(t) \subseteq Denominations /\ Wanting(t) \subseteq Nat
  BY LaneAssumption DEF Wanting
<1>2. Min(Wanting(t)) \in Wanting(t)
  BY <1>1, LeastIsLeast
<1>3. QED
  BY <1>1, <1>2, LaneAssumption

(* A statement that sets the status of some rows.                          *)
LEMMA SetCoinsSets ==
    ASSUME TypeOK, NEW C, NEW status \in RowStatus, SetCoins(C, status)
    PROVE  /\ rows' \in [Coins -> [status : RowStatus, lane : Nat]]
           /\ \A c \in Coins : rows'[c].status = IF c \in C THEN status ELSE rows[c].status
BY DEF TypeOK, SetCoins

LEMMA ReserveSets ==
    ASSUME TypeOK, Reserve
    PROVE  /\ rows' \in [Coins -> [status : RowStatus, lane : Nat]]
           /\ \A c \in Coins : rows'[c].status =
                 IF c \in request.coin /\ rows[c].status = "available"
                 THEN "reserved" ELSE rows[c].status
BY DEF TypeOK, Reserve, Available, RowStatus

(* A query of one address adds the rows that are missing.                  *)
LEMMA QueryAdds ==
    ASSUME TypeOK, NEW t \in SyncThreads, NEW a \in syncs[t].todo, syncs[t] # Idle,
           rows' = [c \in Coins |->
                      IF c \in LiveAt(a) /\ rows[c].status = "none"
                      THEN [status |-> "available", lane |-> lanes[a]] ELSE rows[c]]
    PROVE  /\ a \in Addresses
           /\ rows' \in [Coins -> [status : RowStatus, lane : Nat]]
           /\ \A c \in Coins : rows'[c].status =
                 IF c \in LiveAt(a) /\ rows[c].status = "none"
                 THEN "available" ELSE rows[c].status
<1>1. a \in Addresses
  BY DEF TypeOK, Querying
<1>2. QED
  BY <1>1 DEF TypeOK, RowStatus

(* The signer spends at most one coin and moves none.                      *)
LEMMA SpendsOne ==
    ASSUME TypeOK, NEW ledger \in SignerSpends(coin)
    PROVE  /\ ledger \in [Coins -> [at : Addresses, amount : Nat, unspent : BOOLEAN]]
           /\ \A c \in Coins : /\ ledger[c].at = coin[c].at
                               /\ ledger[c].amount = coin[c].amount
                               /\ ledger[c].unspent => coin[c].unspent
<1>1. CASE ledger = coin
  BY <1>1 DEF TypeOK
<1>2. CASE \E d \in Coins : ledger = [coin EXCEPT ![d].unspent = FALSE]
  <2>1. PICK d \in Coins, gone \in BOOLEAN :
          gone = FALSE /\ ledger = [coin EXCEPT ![d].unspent = gone]
    BY <1>2
  <2>2. \A c \in Coins : ledger[c] = IF c = d THEN [coin[c] EXCEPT !.unspent = gone] ELSE coin[c]
    BY <2>1 DEF TypeOK
  <2>3. ~gone
    BY <2>1
  <2>4. QED
    BY <2>1, <2>2, <2>3 DEF TypeOK
<1>3. QED
  BY <1>1, <1>2 DEF SignerSpends

(* The steps that go on with a request.                                    *)
GoesOn == /\ request' \in Requests
          /\ request' # NoRequest
          /\ request'.burn = request.burn
          /\ request'.coin = request.coin

LEMMA RequestsAreServed ==
    ASSUME NEW r \in Requests
    PROVE  r # NoRequest
BY LaneAssumption DEF Requests

LEMMA StepsGoOn ==
    ASSUME TypeOK, request # NoRequest, NEW step \in Steps, NEW sent \in BOOLEAN,
           \/ request' = [request EXCEPT !.step = step]
           \/ request' = [request EXCEPT !.step = step, !.sent = sent]
    PROVE  GoesOn /\ request'.step = step
<1>1. request' \in Requests
  BY DEF TypeOK, Requests
<1>2. QED
  BY <1>1, RequestsAreServed DEF GoesOn, TypeOK, Requests

LEMMA UnheardGoesOn ==
    ASSUME TypeOK, request # NoRequest, NEW b, GiveUp(b)
    PROVE  GoesOn /\ request'.step = request.step
<1>1. PICK live \in BOOLEAN : live = (request.live /\ request.burn # b)
  OBVIOUS
<1>2. request' = [request EXCEPT !.live = live]
  BY <1>1 DEF GiveUp
<1>3. request' \in Requests
  BY <1>2 DEF TypeOK, Requests
<1>4. QED
  BY <1>2, <1>3, RequestsAreServed DEF GoesOn, TypeOK, Requests

LEMMA FindTakesAvailable ==
    ASSUME TypeOK, FindBest
    PROVE  /\ request' \in Requests
           /\ request' # NoRequest
           /\ request'.step = "reserve"
           /\ \E c \in Coins : rows[c].status = "available" /\ request'.coin = {c}
<1>1. PICK c \in BestCoins(Net[request.burn]) :
        request' = [request EXCEPT !.coin = {c}, !.step = "reserve"]
  BY DEF FindBest
<1>2. c \in Coins /\ rows[c].status = "available"
  BY <1>1 DEF BestCoins, Available
<1>3. request \in Requests
  BY DEF FindBest, At, TypeOK
<1>4. request' \in Requests
  BY <1>1, <1>2, <1>3 DEF Requests, Steps
<1>5. QED
  BY <1>1, <1>2, <1>3, <1>4, RequestsAreServed DEF Requests

LEMMA TypesStart == Init => TypeOK /\ WantedAreSent
<1>1. SUFFICES ASSUME Init
               PROVE  TypeOK /\ WantedAreSent
  OBVIOUS
<1>2. lanes \in [Addresses -> Nat]
  <2>1. Legacy \in [Addresses -> Denominations \cup {0}] /\ Denominations \cup {0} \subseteq Nat
    BY LaneAssumption
  <2>2. QED
    BY <1>1, <2>1 DEF Init
<1>3. coin \in [Coins -> [at : Addresses, amount : Nat, unspent : BOOLEAN]]
  BY <1>1, LaneAssumption DEF Init, NoCoin
<1>4. /\ rows \in [Coins -> [status : RowStatus, lane : Nat]]
      /\ books \in [Burns -> [status : BookStatus, coin : SUBSET Coins]]
  BY <1>1 DEF Init, RowStatus, BookStatus
<1>5. /\ syncs \in [SyncThreads -> {Idle} \cup Querying]
      /\ DOMAIN refills = RefillThreads
      /\ RefillsTyped
      /\ WantedAreSent
  BY <1>1 DEF Init, RefillsTyped, WantedAreSent, Idle
<1>6. QED
  BY <1>1, <1>2, <1>3, <1>4, <1>5 DEF Init, TypeOK

LEMMA CallersTyped ==
    ASSUME TypeOK, NEW b \in Burns, Connect(b) \/ Collect(b) \/ GiveUp(b)
    PROVE  TypeOK'
<1>1. request' # NoRequest => request' \in Requests
  <2>1. CASE GiveUp(b) /\ request # NoRequest
    BY <2>1, UnheardGoesOn DEF GoesOn
  <2>2. CASE request' = request
    BY <2>2 DEF TypeOK
  <2>3. QED
    BY <2>1, <2>2 DEF Connect, Collect, GiveUp
<1>2. QED
  BY <1>1 DEF Connect, Collect, GiveUp, TypeOK, RefillsTyped, dbVars, pastVars, countVars

LEMMA BridgeTyped ==
    ASSUME TypeOK, backlog \in Seq([burn : Burns, live : BOOLEAN]), Bridge
    PROVE  TypeOK'
<1> USE DEF At, GoTo, Reply, Fault, dbVars, pastVars, countVars
<1> DEFINE Others == /\ UNCHANGED <<lanes, syncs, refills, blamed, crashes>>
                     /\ faults' \in {faults, faults + 1}
<1>1. /\ Others
      /\ coin' = coin \/ Send
      /\ books' = books \/ Accept \/ Book \/ Revert
      /\ rows' = rows \/ Reserve \/ Book \/ Revert
  BY DEF Bridge, Accept, FindBest, LaneExhausted, Reserve, Send, SendRefused, Book, BookFails,
         Revert, RevertFails
<1>2. coin' \in [Coins -> [at : Addresses, amount : Nat, unspent : BOOLEAN]]
  <2>1. CASE Send
    BY <2>1, SpendsOne DEF Send
  <2>2. QED
    BY <1>1, <2>1 DEF TypeOK
<1>3. rows' \in [Coins -> [status : RowStatus, lane : Nat]]
  <2>1. CASE Book
    BY <2>1, SetCoinsSets DEF Book, RowStatus
  <2>2. CASE Revert
    BY <2>2, SetCoinsSets DEF Revert, RowStatus
  <2>3. QED
    BY <1>1, <2>1, <2>2, ReserveSets DEF TypeOK
<1>4. books' \in [Burns -> [status : BookStatus, coin : SUBSET Coins]]
  <2>1. CASE Accept
    <3>1. Head(backlog) \in [burn : Burns, live : BOOLEAN]
      BY <2>1, HeadTailProperties DEF Accept
    <3>2. PICK b \in Burns : b = Head(backlog).burn
      BY <3>1
    <3>3. books' = books \/ books' = [books EXCEPT ![b].status = "pending"]
      BY <2>1, <3>2 DEF Accept
    <3>4. books \in [Burns -> [status : BookStatus, coin : SUBSET Coins]]
      BY DEF TypeOK
    <3>5. "pending" \in BookStatus
      BY DEF BookStatus
    <3>6. CASE books' = [books EXCEPT ![b].status = "pending"]
      BY <3>2, <3>4, <3>5, <3>6
    <3>7. QED
      BY <3>3, <3>4, <3>6
  <2>2. CASE Book
    BY <2>2 DEF Book, TypeOK, BookStatus, Requests
  <2>3. CASE Revert
    BY <2>3 DEF Revert, TypeOK, BookStatus, Requests
  <2>4. QED
    BY <1>1, <2>1, <2>2, <2>3 DEF TypeOK
<1>5. request' # NoRequest => request' \in Requests
  <2>1. CASE Accept
    <3>1. Head(backlog) \in [burn : Burns, live : BOOLEAN]
      BY <2>1, HeadTailProperties DEF Accept
    <3>2. QED
      BY <2>1, <3>1 DEF Accept, Requests, Steps
  <2>2. CASE FindBest
    BY <2>2, FindTakesAvailable
  <2>3. CASE Reserve \/ Send \/ SendRefused \/ BookFails
    <3>1. request # NoRequest
      BY <2>3 DEF Reserve, Send, SendRefused, BookFails
    <3>2. PICK step \in Steps, sent \in BOOLEAN :
            \/ request' = [request EXCEPT !.step = step]
            \/ request' = [request EXCEPT !.step = step, !.sent = sent]
      BY <2>3 DEF Reserve, Send, SendRefused, BookFails, Steps
    <3>3. QED
      BY <3>1, <3>2, StepsGoOn DEF GoesOn
  <2>4. CASE LaneExhausted \/ Book \/ Revert \/ RevertFails
    BY <2>4 DEF LaneExhausted, Book, Revert, RevertFails
  <2>5. QED
    BY <2>1, <2>2, <2>3, <2>4 DEF Bridge
<1>6. QED
  BY <1>1, <1>2, <1>3, <1>4, <1>5 DEF TypeOK, RefillsTyped

LEMMA SyncsTyped ==
    ASSUME TypeOK, NEW t \in SyncThreads, Sync(t)
    PROVE  TypeOK'
<1> USE DEF Fault, dbVars, httpVars, pastVars, countVars
<1>1. /\ UNCHANGED <<request, books, lanes, coin, refills, crashes>>
      /\ faults' \in {faults, faults + 1}
  BY DEF Sync, SyncBegin, SyncQuery, SyncQueryFails, SyncMark
<1>2. syncs' \in [SyncThreads -> {Idle} \cup Querying]
  <2>1. CASE SyncBegin(t)
    BY <2>1 DEF SyncBegin, TypeOK, Querying, Registered
  <2>2. CASE SyncQuery(t)
    <3>1. PICK a \in syncs[t].todo :
            syncs' = [u \in SyncThreads |->
              IF u = t THEN [syncs[u] EXCEPT !.todo = @ \ {a}, !.live = @ \cup LiveAt(a)]
              ELSE IF syncs[u] # Idle /\ a \notin syncs[u].todo
              THEN [syncs[u] EXCEPT !.unsure = @ \cup NewAt(a)] ELSE syncs[u]]
      BY <2>2 DEF SyncQuery
    <3>2. syncs[t] \in Querying /\ LiveAt(a) \subseteq Coins /\ NewAt(a) \subseteq Coins
      BY <2>2 DEF SyncQuery, TypeOK, LiveAt, NewAt
    <3>3. QED
      BY <3>1, <3>2 DEF TypeOK, Querying
  <2>4. CASE SyncQueryFails(t)
    <3>1. PICK a \in syncs[t].todo :
            syncs' = [syncs EXCEPT ![t].todo = @ \ {a}, ![t].unsure = @ \cup LiveAt(a)]
      BY <2>4 DEF SyncQueryFails
    <3>2. syncs[t] \in Querying /\ LiveAt(a) \subseteq Coins
      BY <2>4 DEF SyncQueryFails, TypeOK, LiveAt
    <3>3. QED
      BY <3>1, <3>2 DEF TypeOK, Querying
  <2>3. CASE SyncMark(t)
    BY <2>3 DEF SyncMark, TypeOK
  <2>5. QED
    BY <2>1, <2>2, <2>3, <2>4 DEF Sync
<1>3. rows' \in [Coins -> [status : RowStatus, lane : Nat]]
  <2>1. CASE SyncQuery(t)
    BY <2>1, QueryAdds DEF SyncQuery
  <2>2. CASE SyncMark(t)
    BY <2>2, SetCoinsSets DEF SyncMark, RowStatus
  <2>3. QED
    BY <2>1, <2>2 DEF Sync, SyncBegin, SyncQueryFails, TypeOK
<1>4. QED
  BY <1>1, <1>2, <1>3 DEF TypeOK, RefillsTyped

(* A refill goes on: to a send that is wanted, or to the next coin.        *)
LEMMA RefillGoesOn ==
    ASSUME TypeOK, WantedAreSent, NEW t \in RefillThreads, Refill(t)
    PROVE  /\ DOMAIN refills' = RefillThreads
           /\ \A u \in RefillThreads : u # t => refills'[u] = refills[u]
           /\ RefillsTyped'
           /\ WantedAreSent'
<1> USE DEF Fault
<1>1. CASE FundRegister(t)
  <2>1. refills[t] # Idle /\ refills[t].step = "fund" /\ Wanting(t) # {}
    BY <1>1 DEF FundRegister, Idle
  <2>2. /\ DOMAIN refills' = RefillThreads
        /\ refills'[t] = [refills[t] EXCEPT !.step = "send"]
        /\ \A u \in RefillThreads : u # t => refills'[u] = refills[u]
    BY <1>1 DEF FundRegister, TypeOK
  <2>3. /\ DOMAIN refills'[t] = {"step", "fresh", "needed"}
        /\ refills'[t].step = "send"
        /\ refills'[t].needed = refills[t].needed
    BY <2>1, <2>2 DEF TypeOK, RefillsTyped
  <2>4. RefillsTyped'
    BY <2>2, <2>3 DEF TypeOK, RefillsTyped
  <2>5. WantedAreSent'
    BY <2>1, <2>2, <2>3 DEF WantedAreSent, Wanting
  <2>6. QED
    BY <2>2, <2>4, <2>5
<1>2. CASE RefillBegin(t) \/ RefillEnds(t) \/ FundSend(t) \/ FundRefused(t)
  <2>1. /\ DOMAIN refills' = RefillThreads
        /\ \A u \in RefillThreads : u # t => refills'[u] = refills[u]
    BY <1>2 DEF RefillBegin, RefillEnds, FundSend, FundRefused, TypeOK
  <2>2. refills'[t] = Idle \/ (/\ DOMAIN refills'[t] = {"step", "fresh", "needed"}
                               /\ refills'[t].step = "fund")
    <3>1. CASE RefillBegin(t) \/ RefillEnds(t)
      BY <3>1 DEF RefillBegin, RefillEnds, TypeOK
    <3>2. CASE FundSend(t) \/ FundRefused(t)
      <4>1. DOMAIN refills[t] = {"step", "fresh", "needed"}
        BY <3>2 DEF FundSend, FundRefused, TypeOK, RefillsTyped, Idle
      <4>2. PICK d : d = Min(Wanting(t))
        OBVIOUS
      <4>3. \/ \E fresh \in BOOLEAN : refills' = [refills EXCEPT ![t].step = "fund",
                                        ![t].needed[d] = @ - 1, ![t].fresh = fresh]
            \/ refills' = [refills EXCEPT ![t].step = "fund",
                                        ![t].needed[d] = 0, ![t].fresh = TRUE]
        BY <3>2, <4>2 DEF FundSend, FundRefused
      <4>4. QED
        BY <4>1, <4>3 DEF TypeOK
    <3>3. QED
      BY <1>2, <3>1, <3>2
  <2>3. refills'[t].step # "send"
    BY <2>2 DEF Idle
  <2>4. RefillsTyped'
    BY <2>1, <2>2 DEF TypeOK, RefillsTyped
  <2>5. WantedAreSent'
    BY <2>1, <2>3 DEF WantedAreSent, Wanting
  <2>6. QED
    BY <2>1, <2>4, <2>5
<1>3. QED
  BY <1>1, <1>2 DEF Refill

(* What a refill writes: the first denomination of the signer's address    *)
(* and, on the chain, one coin that was not there.                         *)
LEMMA RefillFunds ==
    ASSUME TypeOK, WantedAreSent, NEW t \in RefillThreads, Refill(t)
    PROVE  /\ UNCHANGED <<request, rows, books, syncs, blamed, crashes>>
           /\ faults' \in {faults, faults + 1}
           /\ lanes' \in [Addresses -> Nat]
           /\ \A a \in Addresses : lanes[a] # 0 => lanes'[a] = lanes[a]
           /\ coin' \in [Coins -> [at : Addresses, amount : Nat, unspent : BOOLEAN]]
           /\ \A c \in Coins :
                 IF coin[c].amount = 0
                 THEN coin'[c].unspent => coin'[c].amount # 0 \/ coin[c].unspent
                 ELSE /\ coin'[c].at = coin[c].at
                      /\ coin'[c].amount = coin[c].amount
                      /\ coin'[c].unspent => coin[c].unspent
<1> USE DEF Fault, dbVars, httpVars, pastVars, countVars
<1>1. /\ UNCHANGED <<request, rows, books, syncs, blamed, crashes>>
      /\ faults' \in {faults, faults + 1}
      /\ lanes' = lanes \/ FundRegister(t)
      /\ coin' = coin \/ FundSend(t)
  BY DEF Refill, RefillBegin, FundRegister, FundSend, FundRefused, RefillEnds
<1>2. /\ lanes' \in [Addresses -> Nat]
      /\ \A a \in Addresses : lanes[a] # 0 => lanes'[a] = lanes[a]
  <2>1. CASE FundRegister(t)
    BY <2>1, FundedIsCoin, LaneAssumption DEF FundRegister, TypeOK
  <2>2. QED
    BY <1>1, <2>1 DEF TypeOK
<1>3. /\ coin' \in [Coins -> [at : Addresses, amount : Nat, unspent : BOOLEAN]]
      /\ \A c \in Coins :
            IF coin[c].amount = 0
            THEN coin'[c].unspent => coin'[c].amount # 0 \/ coin[c].unspent
            ELSE /\ coin'[c].at = coin[c].at
                 /\ coin'[c].amount = coin[c].amount
                 /\ coin'[c].unspent => coin[c].unspent
  <2>1. CASE FundSend(t)
    <3> DEFINE Funded == [at |-> SignerAddress, amount |-> Min(Wanting(t)), unspent |-> TRUE]
    <3>1. PICK c \in Coins, ledger \in SignerSpends(coin) :
            /\ coin[c].amount = 0
            /\ coin' = [ledger EXCEPT ![c] = Funded]
      BY <2>1 DEF FundSend
    <3>2. Min(Wanting(t)) \in Nat /\ Min(Wanting(t)) # 0
      BY <2>1, FundedIsCoin DEF FundSend, WantedAreSent
    <3>3. Funded \in [at : Addresses, amount : Nat, unspent : BOOLEAN] /\ Funded.amount # 0
      BY <3>2, LaneAssumption
    <3> HIDE DEF Funded
    <3>4. coin' \in [Coins -> [at : Addresses, amount : Nat, unspent : BOOLEAN]]
      BY <3>1, <3>3, SpendsOne
    <3>5. \A d \in Coins : coin'[d] = IF d = c THEN Funded ELSE ledger[d]
      BY <3>1, SpendsOne
    <3>6. QED
      BY <3>1, <3>3, <3>4, <3>5, SpendsOne
  <2>2. QED
    BY <1>1, <2>1 DEF TypeOK
<1>4. QED
  BY <1>1, <1>2, <1>3

LEMMA TypesStep ==
    ASSUME TypeOK, WantedAreSent, backlog \in Seq([burn : Burns, live : BOOLEAN]), [Next]_vars
    PROVE  TypeOK' /\ WantedAreSent'
<1>1. CASE \E b \in Burns : Connect(b) \/ Collect(b) \/ GiveUp(b)
  <2>1. UNCHANGED refills
    BY <1>1 DEF Connect, Collect, GiveUp
  <2>2. QED
    BY <1>1, <2>1, CallersTyped DEF WantedAreSent, Wanting
<1>2. CASE Bridge
  <2>1. UNCHANGED refills
    BY <1>2 DEF Bridge, Accept, FindBest, LaneExhausted, Reserve, Send, SendRefused, Book,
                BookFails, Revert, RevertFails
  <2>2. QED
    BY <1>2, <2>1, BridgeTyped DEF WantedAreSent, Wanting
<1>3. CASE \E t \in SyncThreads : Sync(t)
  <2>1. UNCHANGED refills
    BY <1>3 DEF Sync, SyncBegin, SyncQuery, SyncQueryFails, SyncMark
  <2>2. QED
    BY <1>3, <2>1, SyncsTyped DEF WantedAreSent, Wanting
<1>4. CASE \E t \in RefillThreads : Refill(t)
  <2>1. PICK t \in RefillThreads : Refill(t)
    BY <1>4
  <2>2. WantedAreSent' /\ RefillsTyped' /\ DOMAIN refills' = RefillThreads
    BY <2>1, RefillGoesOn
  <2>3. /\ UNCHANGED <<request, rows, books, syncs, blamed, crashes>>
        /\ faults' \in {faults, faults + 1}
        /\ lanes' \in [Addresses -> Nat]
        /\ coin' \in [Coins -> [at : Addresses, amount : Nat, unspent : BOOLEAN]]
    BY <2>1, RefillFunds
  <2>4. QED
    BY <2>2, <2>3 DEF TypeOK
<1>5. CASE Crash
  BY <1>5 DEF Crash, TypeOK, RefillsTyped, WantedAreSent, Idle, dbVars
<1>6. CASE UNCHANGED vars
  BY <1>6 DEF vars, httpVars, dbVars, pastVars, countVars, TypeOK, RefillsTyped, WantedAreSent, Wanting
<1>7. QED
  BY <1>1, <1>2, <1>3, <1>4, <1>5, <1>6 DEF Next

-----------------------------------------------------------------------------
(* What is told.                                                           *)

LEMMA ToldStarts == Init => ToldInv
BY DEF Init, ToldInv, ToldAreSpent, TakenAreUnspent, CoinToldOnce

(* A step that books nothing, takes nothing and unspends nothing.          *)
LEMMA NothingTold ==
    ASSUME ToldInv, UNCHANGED books,
           \A c \in Coins : /\ rows[c].status = "spent" <=> rows'[c].status = "spent"
                            /\ rows'[c].status = "none" => rows[c].status = "none",
           TypeOK, TypeOK',
           request' = NoRequest \/ (request # NoRequest /\ request'.coin = request.coin)
    PROVE  ToldInv'
<1>1. /\ \A b \in Burns : books[b].coin \subseteq Coins
      /\ request' # NoRequest => request'.coin \subseteq Coins
  BY DEF TypeOK, Requests
<1>2. QED
  BY <1>1 DEF ToldInv, ToldAreSpent, TakenAreUnspent, CoinToldOnce

LEMMA BridgeTells ==
    ASSUME ToldInv, TypeOK, TypeOK', Bridge
    PROVE  ToldInv'
<1> USE DEF At, GoTo, Reply, dbVars
<1> DEFINE Told(b) == books[b].status = "complete"
<1>1. /\ \A b \in Burns : books[b].coin \subseteq Coins
      /\ request # NoRequest => request.burn \in Burns /\ request.coin \subseteq Coins
  BY DEF TypeOK, Requests
<1>2. CASE Accept
  <2>1. /\ UNCHANGED rows
        /\ request'.coin = {}
        /\ \A b \in Burns : /\ books'[b].coin = books[b].coin
                            /\ books'[b].status = "complete" => books[b].status = "complete"
    BY <1>2 DEF Accept, TypeOK
  <2>2. QED
    BY <2>1 DEF ToldInv, ToldAreSpent, TakenAreUnspent, CoinToldOnce
<1>3. CASE FindBest
  <2>1. UNCHANGED <<rows, books>>
    BY <1>3 DEF FindBest
  <2>2. QED
    BY <1>3, <2>1, FindTakesAvailable DEF ToldInv, ToldAreSpent, TakenAreUnspent, CoinToldOnce
<1>4. CASE Reserve
  <2>1. UNCHANGED books /\ request # NoRequest /\ request'.coin = request.coin
    BY <1>4, StepsGoOn DEF Reserve, Steps, GoesOn, TypeOK, Requests
  <2>2. QED
    BY <1>4, <2>1, ReserveSets, NothingTold
<1>5. CASE Send \/ SendRefused \/ BookFails
  <2>1. UNCHANGED <<rows, books>> /\ request # NoRequest
    BY <1>5 DEF Send, SendRefused, BookFails
  <2>2. request'.coin = request.coin
    BY <1>5, <2>1 DEF Send, SendRefused, BookFails, TypeOK, Requests
  <2>3. QED
    BY <2>1, <2>2, NothingTold
<1>6. CASE LaneExhausted \/ RevertFails
  <2>1. UNCHANGED <<rows, books>> /\ request' = NoRequest
    BY <1>6 DEF LaneExhausted, RevertFails
  <2>2. QED
    BY <2>1, NothingTold
<1>7. CASE Book
  <2>1. /\ request' = NoRequest
        /\ \A b \in Burns : books'[b] = IF b = request.burn
             THEN [status |-> "complete", coin |-> request.coin] ELSE books[b]
        /\ SetCoins(request.coin, "spent")
    BY <1>7 DEF Book, TypeOK
  <2>2. \A c \in Coins :
          rows'[c].status = IF c \in request.coin THEN "spent" ELSE rows[c].status
    BY <2>1, SetCoinsSets DEF RowStatus
  <2>3. request # NoRequest
    BY <1>7 DEF Book
  <2>4. \A b \in Burns : Told(b) => request.coin \cap books[b].coin = {}
    BY <1>1, <2>3 DEF ToldInv, ToldAreSpent, TakenAreUnspent
  <2>5. QED
    BY <1>1, <2>1, <2>2, <2>3, <2>4 DEF ToldInv, ToldAreSpent, TakenAreUnspent, CoinToldOnce
<1>8. CASE Revert
  <2>1. /\ request' = NoRequest
        /\ request # NoRequest
        /\ \A b \in Burns : /\ books'[b].coin = books[b].coin
                            /\ books'[b].status = "complete" => books[b].status = "complete"
        /\ SetCoins(request.coin, "available")
    BY <1>8 DEF Revert, TypeOK
  <2>2. \A c \in Coins :
          rows'[c].status = IF c \in request.coin THEN "available" ELSE rows[c].status
    BY <2>1, SetCoinsSets DEF RowStatus
  <2>3. QED
    BY <1>1, <2>1, <2>2 DEF ToldInv, ToldAreSpent, TakenAreUnspent, CoinToldOnce
<1>9. QED
  BY <1>2, <1>3, <1>4, <1>5, <1>6, <1>7, <1>8 DEF Bridge

(* A sync marks only coins that are available, and adds only rows.         *)
LEMMA SyncRows ==
    ASSUME TypeOK, NEW t \in SyncThreads, Sync(t)
    PROVE  /\ UNCHANGED <<request, books, lanes, coin, refills, crashes>>
           /\ \A c \in Coins :
                 \/ rows'[c].status = rows[c].status
                 \/ rows[c].status = "none" /\ rows'[c].status = "available"
                 \/ rows[c].status = "available" /\ rows'[c].status = "stale"
           /\ faults' \in {faults, faults + 1}
<1> USE DEF dbVars, httpVars, pastVars, countVars, Fault
<1>1. CASE SyncQuery(t)
  BY <1>1, QueryAdds DEF SyncQuery
<1>2. CASE SyncMark(t)
  <2>1. \A c \in Coins : rows'[c].status = IF c \in Unseen(t) THEN "stale" ELSE rows[c].status
    BY <1>2, SetCoinsSets DEF SyncMark, RowStatus
  <2>2. QED
    BY <1>2, <2>1 DEF SyncMark, Unseen, Available
<1>3. CASE SyncBegin(t) \/ SyncQueryFails(t)
  BY <1>3 DEF SyncBegin, SyncQueryFails
<1>4. QED
  BY <1>1, <1>2, <1>3 DEF Sync

LEMMA StepTells ==
    ASSUME ToldInv, TypeOK, TypeOK', WantedAreSent, [Next]_vars
    PROVE  ToldInv'
<1> USE DEF dbVars, httpVars, pastVars, countVars
<1>1. CASE \E b \in Burns : Connect(b) \/ Collect(b) \/ GiveUp(b)
  <2>1. UNCHANGED <<rows, books>>
    BY <1>1 DEF Connect, Collect, GiveUp
  <2>2. request' = NoRequest \/ (request # NoRequest /\ request'.coin = request.coin)
    BY <1>1, UnheardGoesOn DEF Connect, Collect, GiveUp, GoesOn
  <2>3. QED
    BY <2>1, <2>2, NothingTold
<1>2. CASE Bridge
  BY <1>2, BridgeTells
<1>3. CASE \E t \in SyncThreads : Sync(t)
  <2>1. /\ UNCHANGED <<request, books>>
        /\ \A c \in Coins : /\ rows[c].status = "spent" <=> rows'[c].status = "spent"
                            /\ rows'[c].status = "none" => rows[c].status = "none"
    BY <1>3, SyncRows
  <2>2. QED
    BY <2>1, NothingTold
<1>4. CASE \E t \in RefillThreads : Refill(t)
  <2>1. UNCHANGED <<request, books, rows>>
    BY <1>4, RefillFunds
  <2>2. QED
    BY <2>1, NothingTold
<1>5. CASE Crash
  BY <1>5, NothingTold DEF Crash
<1>6. CASE UNCHANGED vars
  BY <1>6, NothingTold DEF vars
<1>7. QED
  BY <1>1, <1>2, <1>3, <1>4, <1>5, <1>6 DEF Next

-----------------------------------------------------------------------------
(* What is reserved.                                                       *)

LEMMA ReserveStarts == Init => ReserveInv
BY DEF Init, ReserveInv, OneTaken, ReservedAfterReserve

(* A step that reserves nothing and keeps the request where it is.         *)
LEMMA NothingReserved ==
    ASSUME ReserveInv, TypeOK, TypeOK',
           \A c \in Coins : rows'[c].status = "reserved" => rows[c].status = "reserved",
           faults' \in {faults, faults + 1}, crashes' = crashes,
           \/ UNCHANGED request
           \/ GoesOn /\ request # NoRequest /\ request'.step = request.step
    PROVE  ReserveInv'
<1>1. faults \in Nat /\ crashes \in Nat
  BY DEF TypeOK
<1>2. CASE UNCHANGED request
  BY <1>1, <1>2 DEF ReserveInv, OneTaken, ReservedAfterReserve
<1>3. CASE GoesOn /\ request # NoRequest /\ request'.step = request.step
  BY <1>1, <1>3 DEF ReserveInv, OneTaken, ReservedAfterReserve, GoesOn
<1>4. QED
  BY <1>2, <1>3

LEMMA BridgeReserves ==
    ASSUME ReserveInv, TypeOK, TypeOK', Bridge
    PROVE  ReserveInv'
<1> USE DEF At, GoTo, Reply, dbVars, pastVars, countVars, Fault
<1>1. /\ faults \in Nat /\ crashes \in Nat
      /\ crashes' = crashes
      /\ faults' \in {faults, faults + 1}
  BY DEF TypeOK, Bridge, Accept, FindBest, LaneExhausted, Reserve, Send, SendRefused, Book,
         BookFails, Revert, RevertFails
<1>2. CASE Accept
  <2>1. UNCHANGED <<rows, countVars>> /\ request = NoRequest /\ request'.step = "find"
    BY <1>2 DEF Accept
  <2>2. QED
    BY <2>1 DEF ReserveInv, OneTaken, ReservedAfterReserve
<1>3. CASE FindBest
  <2>1. UNCHANGED <<rows, countVars>> /\ request # NoRequest /\ request.step = "find"
    BY <1>3 DEF FindBest
  <2>2. QED
    BY <1>3, <2>1, FindTakesAvailable DEF ReserveInv, OneTaken, ReservedAfterReserve
<1>4. CASE Reserve
  <2>1. UNCHANGED countVars /\ request # NoRequest /\ request.step = "reserve"
    BY <1>4 DEF Reserve
  <2>2. GoesOn /\ request'.step = "send"
    BY <1>4, <2>1, StepsGoOn DEF Reserve, Steps
  <2>3. QED
    BY <1>1, <1>4, <2>1, <2>2, ReserveSets DEF ReserveInv, OneTaken, ReservedAfterReserve, GoesOn
<1>5. CASE Send \/ SendRefused \/ BookFails
  <2>1. /\ UNCHANGED rows
        /\ request # NoRequest
        /\ request.step \in {"send", "book"}
    BY <1>5 DEF Send, SendRefused, BookFails
  <2>2. PICK step \in {"book", "revert"}, sent \in BOOLEAN :
          /\ \/ request' = [request EXCEPT !.step = step]
             \/ request' = [request EXCEPT !.step = step, !.sent = sent]
          /\ step = "revert" => faults' = faults + 1
    BY <1>5 DEF Send, SendRefused, BookFails
  <2>3. GoesOn /\ request'.step = step
    BY <2>1, <2>2, StepsGoOn DEF Steps
  <2>4. QED
    BY <1>1, <2>1, <2>2, <2>3 DEF ReserveInv, OneTaken, ReservedAfterReserve, GoesOn
<1>6. CASE LaneExhausted
  <2>1. UNCHANGED <<rows, countVars>> /\ request # NoRequest /\ request.step = "find"
    BY <1>6 DEF LaneExhausted
  <2>2. QED
    BY <1>6, <2>1 DEF LaneExhausted, ReserveInv, OneTaken, ReservedAfterReserve
<1>7. CASE Book \/ Revert
  <2>1. PICK status \in {"spent", "available"} : SetCoins(request.coin, status)
    BY <1>7 DEF Book, Revert
  <2>2. \A c \in Coins : rows'[c].status = IF c \in request.coin THEN status ELSE rows[c].status
    BY <2>1, SetCoinsSets DEF RowStatus
  <2>3. request' = NoRequest /\ UNCHANGED countVars
    BY <1>7 DEF Book, Revert
  <2>4. QED
    BY <2>1, <2>2, <2>3 DEF ReserveInv, OneTaken, ReservedAfterReserve
<1>8. CASE RevertFails
  <2>1. /\ UNCHANGED rows
        /\ request # NoRequest /\ request.step = "revert"
        /\ request' = NoRequest
        /\ faults' = faults + 1
    BY <1>8 DEF RevertFails
  <2>2. faults' >= 2
    BY <1>1, <2>1 DEF ReserveInv, OneTaken
  <2>3. QED
    BY <2>1, <2>2, <1>1 DEF ReserveInv, OneTaken, ReservedAfterReserve
<1>9. QED
  BY <1>2, <1>3, <1>4, <1>5, <1>6, <1>7, <1>8 DEF Bridge

LEMMA StepReserves ==
    ASSUME ReserveInv, TypeOK, TypeOK', WantedAreSent, [Next]_vars
    PROVE  ReserveInv'
<1> USE DEF dbVars, httpVars, pastVars, countVars
<1>1. CASE \E b \in Burns : Connect(b) \/ Collect(b) \/ GiveUp(b)
  <2>1. UNCHANGED <<rows, faults, crashes>>
    BY <1>1 DEF Connect, Collect, GiveUp
  <2>2. \/ UNCHANGED request
        \/ GoesOn /\ request # NoRequest /\ request'.step = request.step
    BY <1>1, UnheardGoesOn DEF Connect, Collect, GiveUp
  <2>3. QED
    BY <2>1, <2>2, NothingReserved
<1>2. CASE Bridge
  BY <1>2, BridgeReserves
<1>3. CASE \E t \in SyncThreads : Sync(t)
  <2>1. /\ UNCHANGED <<request, crashes>>
        /\ faults' \in {faults, faults + 1}
        /\ \A c \in Coins : rows'[c].status = "reserved" => rows[c].status = "reserved"
    BY <1>3, SyncRows
  <2>2. QED
    BY <2>1, NothingReserved
<1>4. CASE \E t \in RefillThreads : Refill(t)
  <2>1. UNCHANGED <<request, rows, crashes>> /\ faults' \in {faults, faults + 1}
    BY <1>4, RefillFunds
  <2>2. QED
    BY <2>1, NothingReserved
<1>5. CASE Crash
  <2>1. crashes' # 0 /\ request' = NoRequest
    BY <1>5 DEF Crash, TypeOK
  <2>2. QED
    BY <2>1 DEF ReserveInv, OneTaken, ReservedAfterReserve
<1>6. CASE UNCHANGED vars
  BY <1>6, NothingReserved DEF vars
<1>7. QED
  BY <1>1, <1>2, <1>3, <1>4, <1>5, <1>6 DEF Next

-----------------------------------------------------------------------------
(* What is stale.                                                          *)

(* Coins and rows, whatever the step: coins are paid once and never move.  *)
CoinsStay ==
    \A c \in Coins :
       IF coin[c].amount = 0
       THEN coin'[c].unspent => coin'[c].amount # 0 \/ coin[c].unspent
       ELSE /\ coin'[c].at = coin[c].at
            /\ coin'[c].amount = coin[c].amount
            /\ coin'[c].unspent => coin[c].unspent

LanesStay == \A a \in Addresses : lanes[a] # 0 => lanes'[a] = lanes[a]

LEMMA StaleStarts == Init => StaleInv
<1>1. SUFFICES ASSUME Init
               PROVE  StaleInv
  OBVIOUS
<1>2. /\ \A c \in Coins : ~coin[c].unspent /\ rows[c].status = "none"
      /\ \A t \in SyncThreads : syncs[t] = Idle
  BY <1>1 DEF Init, NoCoin
<1>3. QED
  BY <1>1, <1>2, TypesStart
     DEF StaleInv, RowsAreCoins, SeenOrAsked, AskedAreRegistered, StaleIsGone

(* A step of anything but a sync: the syncs are where they were, no coin   *)
(* gets its row and no row becomes stale.                                  *)
LEMMA ApartFromSyncs ==
    ASSUME StaleInv, TypeOK, WantedAreSent', UNCHANGED <<syncs, blamed>>, CoinsStay, LanesStay,
           \A c \in Coins :
              /\ rows'[c].status # "none" => rows[c].status # "none"
              /\ rows'[c].status = "stale" => rows[c].status = "stale"
    PROVE  StaleInv'
<1>1. /\ \A c \in Coins : coin[c].at \in Addresses
      /\ \A t \in SyncThreads : syncs[t] # Idle => syncs[t].todo \subseteq Addresses
  BY DEF TypeOK, Querying
<1>2. \A c \in Coins : rows[c].status # "none" /\ coin'[c].unspent
                        => coin[c].unspent /\ coin'[c].at = coin[c].at
  BY DEF StaleInv, RowsAreCoins, CoinsStay
<1>3. RowsAreCoins' /\ AskedAreRegistered'
  BY <1>1 DEF StaleInv, RowsAreCoins, AskedAreRegistered, CoinsStay, LanesStay
<1>4. SeenOrAsked'
  BY <1>2 DEF StaleInv, SeenOrAsked
<1>5. StaleIsGone'
  BY <1>2 DEF StaleInv, StaleIsGone
<1>6. QED
  BY <1>3, <1>4, <1>5 DEF StaleInv

(* The release moves rows of coins that have one, and marks none stale.    *)
LEMMA BridgeApart ==
    ASSUME TypeOK, Bridge
    PROVE  /\ UNCHANGED <<syncs, refills, lanes, blamed>>
           /\ CoinsStay
           /\ \A c \in Coins :
                 \/ rows'[c].status = rows[c].status
                 \/ rows[c].status = "available" /\ rows'[c].status = "reserved"
                 \/ Book /\ c \in request.coin /\ rows'[c].status = "spent"
                 \/ Revert /\ c \in request.coin /\ rows'[c].status = "available"
<1> USE DEF At, GoTo, dbVars, pastVars, countVars, Fault
<1>1. /\ UNCHANGED <<syncs, refills, lanes, blamed>>
      /\ coin' = coin \/ Send
      /\ rows' = rows \/ Reserve \/ Book \/ Revert
  BY DEF Bridge, Accept, FindBest, LaneExhausted, Reserve, Send, SendRefused, Book, BookFails,
         Revert, RevertFails
<1>2. CoinsStay
  <2>1. CASE Send
    BY <2>1, SpendsOne DEF Send, CoinsStay
  <2>2. QED
    BY <1>1, <2>1 DEF CoinsStay
<1>3. CASE Reserve
  BY <1>1, <1>2, <1>3, ReserveSets
<1>4. CASE Book
  BY <1>1, <1>2, <1>4, SetCoinsSets DEF Book, RowStatus
<1>5. CASE Revert
  BY <1>1, <1>2, <1>5, SetCoinsSets DEF Revert, RowStatus
<1>6. CASE UNCHANGED rows
  BY <1>1, <1>2, <1>6
<1>7. QED
  BY <1>1, <1>3, <1>4, <1>5, <1>6

(* A sync's step: what it asks for it has seen, what another sync adds     *)
(* behind its back is noted, and it marks what it has not seen.            *)
LEMMA SyncStales ==
    ASSUME StaleInv, TypeOK, TypeOK', WantedAreSent', NEW t \in SyncThreads, Sync(t)
    PROVE  StaleInv'
<1> USE DEF dbVars, httpVars, pastVars, countVars, Fault
<1>1. /\ UNCHANGED <<lanes, coin>>
      /\ \A c \in Coins :
            \/ rows'[c].status = rows[c].status
            \/ rows[c].status = "none" /\ rows'[c].status = "available"
            \/ rows[c].status = "available" /\ rows'[c].status = "stale"
  BY SyncRows
<1>2. \A c \in Coins : coin[c].at \in Addresses
  BY DEF TypeOK
<1>3. CASE SyncBegin(t)
  <2>1. /\ UNCHANGED <<rows, blamed>>
        /\ syncs'[t].todo = Registered
        /\ \A u \in SyncThreads : u # t => syncs'[u] = syncs[u]
    BY <1>3 DEF SyncBegin, TypeOK
  <2>2. AskedAreRegistered' /\ RowsAreCoins' /\ StaleIsGone'
    BY <1>1, <2>1 DEF StaleInv, AskedAreRegistered, RowsAreCoins, StaleIsGone, Registered
  <2>3. SeenOrAsked'
    <3>1. \A c \in Coins : rows[c].status # "none" => coin[c].at \in Registered
      BY <1>2 DEF StaleInv, RowsAreCoins, Registered
    <3>2. QED
      BY <1>1, <2>1, <3>1 DEF StaleInv, SeenOrAsked
  <2>4. QED
    BY <2>2, <2>3 DEF StaleInv
<1>4. CASE SyncQuery(t)
  <2>1. PICK a \in syncs[t].todo :
          /\ syncs' = [u \in SyncThreads |->
               IF u = t THEN [syncs[u] EXCEPT !.todo = @ \ {a}, !.live = @ \cup LiveAt(a)]
               ELSE IF syncs[u] # Idle /\ a \notin syncs[u].todo
               THEN [syncs[u] EXCEPT !.unsure = @ \cup NewAt(a)] ELSE syncs[u]]
          /\ rows' = [c \in Coins |->
                        IF c \in LiveAt(a) /\ rows[c].status = "none"
                        THEN [status |-> "available", lane |-> lanes[a]] ELSE rows[c]]
    BY <1>4 DEF SyncQuery
  <2>2. syncs[t] # Idle /\ UNCHANGED blamed
    BY <1>4 DEF SyncQuery
  <2>3. \A u \in SyncThreads : syncs[u] # Idle => syncs[u] \in Querying
    BY DEF TypeOK
  <2>4. /\ syncs'[t].todo = syncs[t].todo \ {a}
        /\ syncs'[t].live = syncs[t].live \cup LiveAt(a)
        /\ syncs'[t].unsure = syncs[t].unsure
    BY <2>1, <2>2, <2>3 DEF Querying
  <2>5. ASSUME NEW u \in SyncThreads, u # t, syncs'[u] # Idle
        PROVE  /\ syncs[u] # Idle
               /\ syncs'[u].todo = syncs[u].todo
               /\ syncs'[u].live = syncs[u].live
               /\ syncs'[u].unsure = IF a \in syncs[u].todo THEN syncs[u].unsure
                                     ELSE syncs[u].unsure \cup NewAt(a)
    <3>1. syncs[u] # Idle
      BY <2>1, <2>5
    <3>2. QED
      BY <2>1, <2>3, <2>5, <3>1 DEF Querying
  <2>6. lanes[a] # 0
    BY <2>1, <2>2 DEF StaleInv, AskedAreRegistered
  <2>7. \A c \in Coins : rows'[c].status =
          IF coin[c].unspent /\ coin[c].at = a /\ rows[c].status = "none"
          THEN "available" ELSE rows[c].status
    BY <2>1, <2>2, QueryAdds DEF LiveAt
  <2>8. AskedAreRegistered'
    BY <1>1, <2>2, <2>4, <2>5 DEF StaleInv, AskedAreRegistered
  <2>9. RowsAreCoins'
    BY <1>1, <2>6, <2>7 DEF StaleInv, RowsAreCoins
  <2>10. SeenOrAsked'
    <3>1. SUFFICES ASSUME NEW u \in SyncThreads, NEW c \in Coins,
                          syncs'[u] # Idle, rows'[c].status # "none", coin'[c].unspent
                   PROVE  \/ c \in syncs'[u].live \cup syncs'[u].unsure
                          \/ coin'[c].at \in syncs'[u].todo
      BY DEF SeenOrAsked
    <3>2. CASE u = t
      <4>1. CASE coin[c].at = a
        BY <1>1, <2>4, <3>1, <3>2, <4>1 DEF LiveAt
      <4>2. CASE coin[c].at # a
        BY <1>1, <2>2, <2>4, <2>7, <3>1, <3>2, <4>2 DEF StaleInv, SeenOrAsked
      <4>3. QED
        BY <4>1, <4>2
    <3>3. CASE u # t
      <4>1. CASE rows[c].status = "none"
        BY <1>1, <2>5, <2>7, <3>1, <3>3, <4>1 DEF NewAt
      <4>2. CASE rows[c].status # "none"
        BY <1>1, <2>5, <3>1, <3>3, <4>2 DEF StaleInv, SeenOrAsked
      <4>3. QED
        BY <4>1, <4>2
    <3>4. QED
      BY <3>2, <3>3
  <2>11. StaleIsGone'
    BY <1>1, <2>2, <2>7 DEF StaleInv, StaleIsGone
  <2>12. QED
    BY <2>8, <2>9, <2>10, <2>11 DEF StaleInv
<1>5. CASE SyncQueryFails(t)
  <2>1. /\ UNCHANGED <<rows, blamed>>
        /\ syncs[t] # Idle
        /\ \E a \in syncs[t].todo :
             syncs' = [syncs EXCEPT ![t].todo = @ \ {a}, ![t].unsure = @ \cup LiveAt(a)]
    BY <1>5 DEF SyncQueryFails
  <2>2. syncs[t] \in Querying
    BY <2>1 DEF TypeOK
  <2>3. PICK a \in syncs[t].todo :
          /\ syncs'[t].todo = syncs[t].todo \ {a}
          /\ syncs'[t].live = syncs[t].live
          /\ syncs'[t].unsure = syncs[t].unsure \cup LiveAt(a)
          /\ \A u \in SyncThreads : u # t => syncs'[u] = syncs[u]
    BY <2>1, <2>2 DEF TypeOK, Querying
  <2>4. AskedAreRegistered' /\ RowsAreCoins' /\ StaleIsGone'
    BY <1>1, <2>1, <2>3 DEF StaleInv, AskedAreRegistered, RowsAreCoins, StaleIsGone
  <2>5. SeenOrAsked'
    BY <1>1, <2>1, <2>3 DEF StaleInv, SeenOrAsked, LiveAt
  <2>6. QED
    BY <2>4, <2>5 DEF StaleInv
<1>6. CASE SyncMark(t)
  <2>1. /\ syncs[t] # Idle /\ syncs[t].todo = {}
        /\ SetCoins(Unseen(t), "stale")
        /\ blamed' = blamed \cup (Unseen(t) \cap syncs[t].unsure)
        /\ syncs'[t] = Idle
        /\ \A u \in SyncThreads : u # t => syncs'[u] = syncs[u]
    BY <1>6 DEF SyncMark, TypeOK
  <2>2. \A c \in Coins : rows'[c].status =
          IF rows[c].status = "available" /\ c \notin syncs[t].live
          THEN "stale" ELSE rows[c].status
    BY <2>1, SetCoinsSets DEF RowStatus, Unseen, Available
  <2>3. AskedAreRegistered' /\ RowsAreCoins' /\ SeenOrAsked'
    <3>1. \A c \in Coins : rows'[c].status # "none" => rows[c].status # "none"
      BY <2>2
    <3>2. AskedAreRegistered'
      BY <1>1, <2>1 DEF StaleInv, AskedAreRegistered
    <3>3. RowsAreCoins'
      BY <1>1, <3>1 DEF StaleInv, RowsAreCoins
    <3>4. SeenOrAsked'
      BY <1>1, <2>1, <3>1 DEF StaleInv, SeenOrAsked
    <3>5. QED
      BY <3>2, <3>3, <3>4
  <2>4. StaleIsGone'
    <3>1. SUFFICES ASSUME NEW c \in Coins, rows'[c].status = "stale", coin[c].unspent
                   PROVE  c \in blamed'
      BY <1>1 DEF StaleIsGone
    <3>2. CASE rows[c].status = "stale"
      BY <2>1, <3>1, <3>2 DEF StaleInv, StaleIsGone
    <3>3. CASE rows[c].status = "available" /\ c \notin syncs[t].live
      BY <2>1, <3>1, <3>3 DEF StaleInv, SeenOrAsked, Unseen, Available
    <3>4. QED
      BY <2>2, <3>1, <3>2, <3>3
  <2>5. QED
    BY <2>3, <2>4 DEF StaleInv
<1>7. QED
  BY <1>3, <1>4, <1>5, <1>6 DEF Sync

LEMMA StepStales ==
    ASSUME StaleInv, ToldInv, TypeOK, TypeOK', WantedAreSent', [Next]_vars
    PROVE  StaleInv'
<1> USE DEF dbVars, httpVars, pastVars, countVars
<1>1. WantedAreSent
  BY DEF StaleInv
<1>2. CASE \E b \in Burns : Connect(b) \/ Collect(b) \/ GiveUp(b)
  <2>1. UNCHANGED <<rows, lanes, coin, syncs, blamed>>
    BY <1>2 DEF Connect, Collect, GiveUp
  <2>2. CoinsStay /\ LanesStay
    BY <2>1 DEF CoinsStay, LanesStay
  <2>3. QED
    BY <2>1, <2>2, ApartFromSyncs
<1>3. CASE Bridge
  <2>1. LanesStay
    BY <1>3, BridgeApart DEF LanesStay
  <2>2. \A c \in Coins : Book /\ c \in request.coin => rows[c].status # "none"
    BY DEF Book, At, ToldInv, TakenAreUnspent
  <2>3. \A c \in Coins : Revert /\ c \in request.coin => rows[c].status # "none"
    BY DEF Revert, At, ToldInv, TakenAreUnspent
  <2>4. QED
    BY <1>3, <2>1, <2>2, <2>3, BridgeApart, ApartFromSyncs
<1>4. CASE \E t \in SyncThreads : Sync(t)
  BY <1>4, SyncStales
<1>5. CASE \E t \in RefillThreads : Refill(t)
  <2>1. CoinsStay /\ LanesStay
    BY <1>1, <1>5, RefillFunds DEF CoinsStay, LanesStay
  <2>2. UNCHANGED <<rows, syncs, blamed>>
    BY <1>1, <1>5, RefillFunds
  <2>3. QED
    BY <2>1, <2>2, ApartFromSyncs
<1>6. CASE Crash
  <2>1. /\ UNCHANGED <<rows, lanes, coin, blamed>>
        /\ \A t \in SyncThreads : syncs'[t] = Idle
    BY <1>6 DEF Crash
  <2>2. QED
    BY <2>1 DEF StaleInv, RowsAreCoins, SeenOrAsked, AskedAreRegistered, StaleIsGone
<1>7. CASE UNCHANGED vars
  <2>1. UNCHANGED <<rows, lanes, coin, syncs, blamed>>
    BY <1>7 DEF vars
  <2>2. CoinsStay /\ LanesStay
    BY <2>1 DEF CoinsStay, LanesStay
  <2>3. QED
    BY <2>1, <2>2, ApartFromSyncs
<1>8. QED
  BY <1>2, <1>3, <1>4, <1>5, <1>6, <1>7 DEF Next

-----------------------------------------------------------------------------
(* The invariant of the coins, and what it says of any behaviour.          *)

LEMMA LaneStarts == Init => LaneInv
BY TypesStart, ToldStarts, ReserveStarts, StaleStarts DEF LaneInv

LEMMA StepLane ==
    ASSUME LaneInv, ServedInv, [Next]_vars
    PROVE  LaneInv'
<1>1. backlog \in Seq([burn : Burns, live : BOOLEAN]) /\ WantedAreSent
  BY DEF ServedInv, Connections, LaneInv, StaleInv
<1>2. TypeOK' /\ WantedAreSent'
  BY <1>1, TypesStep DEF LaneInv
<1>3. ToldInv'
  BY <1>1, <1>2, StepTells DEF LaneInv
<1>4. ReserveInv'
  BY <1>1, <1>2, StepReserves DEF LaneInv
<1>5. StaleInv'
  BY <1>2, StepStales DEF LaneInv
<1>6. QED
  BY <1>2, <1>3, <1>4, <1>5 DEF LaneInv

(* The rows, the book of the releases, the syncs and the chain agree as    *)
(* LaneInv says, between any two statements of lane-manager.py's threads.  *)
THEOREM LaneInvHolds == Spec => []LaneInv
<1>1. QED
  BY LaneStarts, StepLane, ServedHolds, PTL DEF Spec

(* do_bridge_release (lane-manager.py:529) never books one coin as the     *)
(* release of two burns: the row it sets to spent is never handed out      *)
(* again, whatever failed releases, syncs, refills and crashes follow.     *)
THEOREM CoinsAreToldOnce == Spec => []CoinToldOnce
<1>1. LaneInv => CoinToldOnce
  BY DEF LaneInv, ToldInv
<1>2. QED
  BY <1>1, LaneInvHolds, PTL

(* A reserved coin is that of the release which is being served: the       *)
(* except of do_bridge_release (lane-manager.py:547) gives it back, unless *)
(* that fails as well or the process ends.                                 *)
THEOREM ReservedAreServed == Spec => []ReservedIsServed
<1>1. LaneInv => ReservedIsServed
  BY DEF LaneInv, ReserveInv, ReservedAfterReserve, ReservedIsServed
<1>2. QED
  BY <1>1, LaneInvHolds, PTL

(* sync_utxos (lane-manager.py:272) marks a row stale only when its coin   *)
(* is spent, however its queries interleave with releases, refills and     *)
(* other syncs, but for a coin of an address its query failed at, or one   *)
(* another sync added behind its query.                                    *)
THEOREM StaleAreGone == Spec => []StaleIsGone
<1>1. LaneInv => StaleIsGone
  BY DEF LaneInv, StaleInv
<1>2. QED
  BY <1>1, LaneInvHolds, PTL

-----------------------------------------------------------------------------
(* The refinement.                                                         *)

Served == IF request = NoRequest THEN NoRequest
          ELSE [burn |-> request.burn, live |-> request.live, paid |-> request.sent]

LEMMA ServedIsRequest ==
    ASSUME ServedInv
    PROVE  (Served = NoRequest) <=> (request = NoRequest)
BY LaneAssumption DEF ServedInv, Served, Requests

LEMMA PaulStarts == Init => Paul!PaulInit
BY DEF Init, Paul!PaulInit

LEMMA CallersImplement ==
    ASSUME ServedInv, ServedInv', NEW b \in Burns, Connect(b) \/ Collect(b) \/ GiveUp(b)
    PROVE  Paul!PaulNext
<1> USE DEF Paul!PaulNext
<1>1. CASE Connect(b)
  <2>1. Paul!Ask(b)
    BY <1>1 DEF Connect, Paul!Ask, Paul!Request, pastVars
  <2>2. QED
    BY <2>1
<1>2. CASE Collect(b)
  <2>1. Paul!Collect(b)
    BY <1>2 DEF Collect, Paul!Collect, pastVars
  <2>2. QED
    BY <2>1
<1>3. CASE GiveUp(b)
  <2>1. call' = [c \in Burns |-> IF c \in {b} THEN "idle" ELSE call[c]]
    BY <1>3 DEF GiveUp, ServedInv
  <2>2. backlog' = [i \in DOMAIN backlog |->
                      [backlog[i] EXCEPT !.live = @ /\ backlog[i].burn \notin {b}]]
    BY <1>3 DEF GiveUp
  <2>3. Served' = IF Served = NoRequest THEN NoRequest
                  ELSE [Served EXCEPT !.live = @ /\ Served.burn \notin {b}]
    <3>1. CASE request = NoRequest
      BY <1>3, <3>1 DEF GiveUp, Served
    <3>2. CASE request # NoRequest
      <4>1. request' = [request EXCEPT !.live = @ /\ request.burn # b]
        BY <1>3, <3>2 DEF GiveUp
      <4>2. request' \in Requests
        BY <3>2, <4>1 DEF ServedInv, Requests
      <4>3. request' # NoRequest
        BY <4>2, LaneAssumption DEF Requests
      <4>4. Served # NoRequest
        BY <3>2, ServedIsRequest
      <4>5. QED
        BY <3>2, <4>1, <4>3, <4>4 DEF Served, ServedInv, Requests
    <3>3. QED
      BY <3>1, <3>2
  <2>4. Paul!HangUp({b})
    BY <1>3, <2>1, <2>2, <2>3 DEF GiveUp, Served, Paul!HangUp, pastVars
  <2>5. QED
    BY <2>4
<1>4. QED
  BY <1>1, <1>2, <1>3

(* Accepting serves the oldest connection.                                 *)
LEMMA AcceptImplements ==
    ASSUME ServedInv, ServedInv', Accept
    PROVE  Paul!Serve
<1>1. /\ request = NoRequest
      /\ backlog # <<>>
      /\ backlog' = Tail(backlog)
      /\ UNCHANGED <<call, sends>>
      /\ request' = [burn |-> Head(backlog).burn, live |-> Head(backlog).live,
                     step |-> "find", coin |-> {}, sent |-> FALSE]
  BY DEF Accept, pastVars
<1>2. Head(backlog) \in Connections
  BY <1>1, HeadTailProperties DEF ServedInv
<1>3. request' \in Requests
  BY <1>1, <1>2 DEF Requests, Connections, Steps
<1>4. request' # NoRequest
  BY <1>3, LaneAssumption DEF Requests
<1>5. QED
  BY <1>1, <1>4 DEF Paul!Serve

(* (The truth value is named, so that each prover sees one half.)          *)
LEMMA PaidRecord ==
    ASSUME NEW b, NEW l, NEW p, NEW r, r = [burn |-> b, live |-> l, paid |-> p]
    PROVE  [r EXCEPT !.paid = TRUE] = [burn |-> b, live |-> l, paid |-> TRUE]
<1>1. PICK t : t = TRUE
  OBVIOUS
<1>2. [r EXCEPT !.paid = t] = [burn |-> b, live |-> l, paid |-> t]
  BY ONLY r = [burn |-> b, live |-> l, paid |-> p]
<1>3. [r EXCEPT !.paid = t] = [r EXCEPT !.paid = TRUE]
  BY <1>1, Zenon
<1>4. [burn |-> b, live |-> l, paid |-> t] = [burn |-> b, live |-> l, paid |-> TRUE]
  BY <1>1, Zenon
<1>5. QED
  BY <1>2, <1>3, <1>4, Zenon

(* Sending pays, once; nothing else the release does is seen, but for its  *)
(* answer.                                                                 *)
LEMMA SendImplements ==
    ASSUME ServedInv, ServedInv', Send
    PROVE  Paul!Pay
<1>1. /\ request # NoRequest
      /\ request \in Requests
      /\ ~request.sent
      /\ UNCHANGED <<call, backlog>>
      /\ sends' = [sends EXCEPT ![request.burn] = @ + 1]
  BY DEF Send, At, ServedInv
<1>2. \E s \in Steps : request' = [request EXCEPT !.step = s, !.sent = TRUE]
  BY DEF Send, Steps
<1>3. request' \in Requests
  BY <1>1, <1>2 DEF Requests, Steps
<1>4. request' # NoRequest
  BY <1>3, LaneAssumption DEF Requests
<1>5. Served # NoRequest
  BY <1>1, ServedIsRequest
<1>6. Served' = [Served EXCEPT !.paid = TRUE]
  <2>1. /\ request'.burn = request.burn
        /\ request'.live = request.live
        /\ request'.sent = TRUE
    BY <1>1, <1>2 DEF Requests
  <2>2. Served' = [burn |-> request'.burn, live |-> request'.live, paid |-> request'.sent]
    BY <1>4 DEF Served
  <2>3. Served = [burn |-> request.burn, live |-> request.live, paid |-> request.sent]
    BY <1>1 DEF Served
  <2>4. [Served EXCEPT !.paid = TRUE]
          = [burn |-> request.burn, live |-> request.live, paid |-> TRUE]
    BY <2>3, PaidRecord, Zenon
  <2>5. Served' = [burn |-> request.burn, live |-> request.live, paid |-> TRUE]
    BY <2>1, <2>2
  <2>6. QED
    BY <2>4, <2>5
<1>7. ~Served.paid /\ Served.burn = request.burn
  BY <1>1 DEF Served
<1>8. QED
  BY <1>1, <1>5, <1>6, <1>7 DEF Served, Paul!Pay

LEMMA AnswerImplements ==
    ASSUME ServedInv, ServedInv', LaneExhausted \/ Book \/ Revert \/ RevertFails
    PROVE  Paul!AnswerOk \/ Paul!AnswerError
<1> USE DEF At, Reply, ServedInv
<1>1. Served # NoRequest
  BY ServedIsRequest DEF LaneExhausted, Book, Revert, RevertFails
<1>2. /\ request' = NoRequest
      /\ UNCHANGED <<backlog, sends>>
  BY DEF LaneExhausted, Book, Revert, RevertFails, pastVars
<1>3. /\ Served.live = request.live
      /\ Served.burn = request.burn
      /\ Served.paid = request.sent
      /\ Served' = NoRequest
  BY <1>1, <1>2 DEF Served
<1>4. CASE Book
  <2>1. request.sent
    BY <1>4 DEF Book
  <2>2. call' = IF Served.live THEN [call EXCEPT ![Served.burn] = "ok"] ELSE call
    BY <1>3, <1>4 DEF Book
  <2>3. QED
    BY <1>1, <1>2, <1>3, <2>1, <2>2 DEF Served, Paul!AnswerOk, Paul!Reply
<1>5. CASE LaneExhausted \/ Revert \/ RevertFails
  <2>1. call' = IF Served.live THEN [call EXCEPT ![Served.burn] = "error"] ELSE call
    BY <1>3, <1>5 DEF LaneExhausted, Revert, RevertFails
  <2>2. QED
    BY <1>1, <1>2, <1>3, <2>1 DEF Served, Paul!AnswerError, Paul!Reply
<1>6. QED
  BY <1>4, <1>5

(* Steps between the accept, the send and the answer.                      *)
LEMMA OthersStutter ==
    ASSUME ServedInv, ServedInv', FindBest \/ Reserve \/ SendRefused \/ BookFails
    PROVE  UNCHANGED Paul!paulVars
<1> USE DEF At, GoTo
<1>1. /\ request # NoRequest
      /\ request \in Requests
      /\ UNCHANGED <<call, backlog, sends>>
  BY DEF FindBest, Reserve, SendRefused, BookFails, ServedInv, pastVars
<1>2. request' \in Requests
  <2>1. CASE FindBest
    BY <2>1, FoundIsRequest
  <2>2. CASE Reserve \/ SendRefused \/ BookFails
    BY <1>1, <2>2 DEF Reserve, SendRefused, BookFails, Requests, Steps
  <2>3. QED
    BY <2>1, <2>2
<1>3. /\ request'.burn = request.burn
      /\ request'.live = request.live
      /\ request'.sent = request.sent
  <2>1. CASE FindBest
    BY <2>1, FoundIsRequest
  <2>2. CASE Reserve \/ SendRefused \/ BookFails
    BY <1>1, <2>2 DEF Reserve, SendRefused, BookFails, Requests
  <2>3. QED
    BY <2>1, <2>2
<1>4. request' # NoRequest
  BY <1>2, LaneAssumption DEF Requests
<1>5. QED
  BY <1>1, <1>3, <1>4 DEF Paul!paulVars

LEMMA CrashImplements ==
    ASSUME Crash
    PROVE  Paul!Vanish
BY DEF Crash, Paul!Vanish, pastVars

LEMMA ApartStutters ==
    ASSUME UNCHANGED ServeVars
    PROVE  UNCHANGED Paul!paulVars
BY DEF ServeVars, Paul!paulVars

LEMMA StepImplements ==
    ASSUME ServedInv, ServedInv', [Next]_vars
    PROVE  [Paul!PaulNext]_Paul!paulVars
<1>1. CASE \E b \in Burns : Connect(b) \/ Collect(b) \/ GiveUp(b)
  BY <1>1, CallersImplement
<1>2. CASE Bridge
  <2>1. CASE Accept
    BY <2>1, AcceptImplements DEF Paul!PaulNext
  <2>2. CASE Send
    BY <2>2, SendImplements DEF Paul!PaulNext
  <2>3. CASE LaneExhausted \/ Book \/ Revert \/ RevertFails
    BY <2>3, AnswerImplements DEF Paul!PaulNext
  <2>4. CASE FindBest \/ Reserve \/ SendRefused \/ BookFails
    BY <2>4, OthersStutter
  <2>5. QED
    BY <1>2, <2>1, <2>2, <2>3, <2>4 DEF Bridge
<1>3. CASE \E t \in SyncThreads : Sync(t)
  BY <1>3, SyncsApart, ApartStutters
<1>4. CASE \E t \in RefillThreads : Refill(t)
  BY <1>4, RefillsApart, ApartStutters
<1>5. CASE Crash
  BY <1>5, CrashImplements DEF Paul!PaulNext
<1>6. CASE UNCHANGED vars
  BY <1>6, ApartStutters DEF vars, httpVars, ServeVars, pastVars
<1>7. QED
  BY <1>1, <1>2, <1>3, <1>4, <1>5, <1>6 DEF Next

(* The lane manager is what the router is composed with: every step serves,*)
(* pays, answers or loses requests as PaulService does, or is unseen.      *)
THEOREM LanesImplementPaul == Spec => PaulSpec
<1>1. Init => Paul!PaulInit
  BY PaulStarts
<1>2. ServedInv /\ ServedInv' /\ [Next]_vars => [Paul!PaulNext]_Paul!paulVars
  BY StepImplements
<1>3. QED
  BY <1>1, <1>2, ServedHolds, PTL DEF Spec, PaulSpec, Paul!PaulSpec
====
