---- MODULE DuaRouter ----
(***************************************************************************)
(* The event router (relayer/src/cea/router.ts): burns of one chain come   *)
(* in from its adapter, several times each and at rising confidence; each  *)
(* is handled once, by the lanes and else by sendtoaddress, or by the      *)
(* release strategy its chain is registered with.                          *)
(*                                                                         *)
(* A handler runs to its first await in one step.  `seen' is set there,    *)
(* the record of the release is pushed after the last await; both live in  *)
(* memory.  The transaction a release made is told by the record's method: *)
(* releaseTxId is null exactly while it is "pending".                      *)
(***************************************************************************)
EXTENDS PaulService, FiniteSets

CONSTANTS
    Policy,         \* releasePolicy: 1 mempool, 2 confirmed, 3 finalized
    HasStrategy,    \* the chain is registered with a release strategy
    NoRecord        \* a burn that has no ReleaseRecord

Levels == 1 .. 3

ASSUME RouterAssumption ==
    /\ Policy \in Levels
    /\ HasStrategy \in BOOLEAN
    /\ NoRecord \notin [method : {"pending", "paul", "direct", "strategy"}, level : Levels]

VARIABLES
    seen,           \* seenSet
    releases,       \* the ReleaseRecord of each burn
    leg,            \* what onBurnDetected awaits for it: none, paul, direct
    strategies,     \* ... the levels of the events whose strategy it awaits
    halted,
    direct,         \* history: how often each burn was paid by sendtoaddress
    doubts          \* history: releases given up or forgotten, paid or not

routerVars == <<seen, releases, leg, strategies, halted, direct, doubts>>

Paid(b) == paul[b] + direct[b]

Record(l, m) == [method |-> m, level |-> l]
Handled(b) == leg[b] = "none" /\ strategies[b] = {}

RouterInit ==
    /\ seen = {}
    /\ releases = [b \in Burns |-> NoRecord]
    /\ leg = [b \in Burns |-> "none"]
    /\ strategies = [b \in Burns |-> {}]
    /\ halted = FALSE
    /\ direct = [b \in Burns |-> 0]
    /\ doubts = [b \in Burns |-> 0]

MeetsPolicy(l) == l >= Policy

(* A burn seen before, with nothing new to say of it.                      *)
Repeated(b, l) ==
    /\ b \in seen
    /\ releases[b] # NoRecord => l <= releases[b].level
    /\ UNCHANGED <<routerVars, paulVars>>

RunsUponUpgrade(b, l) ==
    /\ HasStrategy
    /\ ~halted
    /\ releases[b].method = "pending"
    /\ MeetsPolicy(l)

Upgraded(b, l) ==
    /\ b \in seen
    /\ releases[b] # NoRecord
    /\ l > releases[b].level
    /\ releases' = [releases EXCEPT ![b].level = l]
    /\ strategies' = IF RunsUponUpgrade(b, l)
                     THEN [strategies EXCEPT ![b] = @ \cup {l}] ELSE strategies
    /\ UNCHANGED <<seen, leg, halted, direct, doubts, paulVars>>

(* Halted, or below the policy: recorded, and not released.                *)
Pended(b, l) ==
    /\ b \notin seen
    /\ halted \/ ~MeetsPolicy(l)
    /\ seen' = seen \cup {b}
    /\ releases' = [releases EXCEPT ![b] = Record(l, "pending")]
    /\ UNCHANGED <<leg, strategies, halted, direct, doubts, paulVars>>

(* Mutant: the burn is marked as seen when its release is over.            *)
MarkLate(b) == seen

Mark(b) == seen \cup {b}

Begun(b, l) ==
    /\ b \notin seen
    /\ ~halted
    /\ MeetsPolicy(l)
    /\ Handled(b)
    /\ seen' = Mark(b)
    /\ IF HasStrategy
       THEN /\ strategies' = [strategies EXCEPT ![b] = {l}]
            /\ UNCHANGED <<leg, paulVars>>
       ELSE /\ Ask(b)
            /\ leg' = [leg EXCEPT ![b] = "paul"]
            /\ UNCHANGED strategies
    /\ UNCHANGED <<releases, halted, direct, doubts>>

OnBurnDetected(b, l) == Repeated(b, l) \/ Upgraded(b, l) \/ Pended(b, l) \/ Begun(b, l)

(* Mutant: the record names the direct send before it is answered.         *)
PushEarly(b, m) ==
    /\ releases' = [releases EXCEPT ![b] = Record(3, IF m = "paul" THEN m ELSE "direct")]
    /\ leg' = [leg EXCEPT ![b] = "none"]

(* The end of onBurnDetected: the record is pushed.                        *)
Push(b, m) ==
    /\ releases' = [releases EXCEPT ![b] = Record(3, m)]
    /\ leg' = [leg EXCEPT ![b] = "none"]

PaulReleased(b) ==
    /\ leg[b] = "paul"
    /\ call[b] = "ok"
    /\ Collect(b)
    /\ Push(b, "paul")
    /\ UNCHANGED <<seen, strategies, halted, direct, doubts>>

FallBack(b) ==
    /\ leg[b] = "paul"
    /\ leg' = [leg EXCEPT ![b] = "direct"]
    /\ UNCHANGED <<seen, releases, strategies, halted, direct>>

(* The lanes refuse or fail: the direct send follows, halted or not.       *)
PaulFailed(b) ==
    /\ call[b] = "error"
    /\ FallBack(b)
    /\ Collect(b)
    /\ UNCHANGED doubts

(* Sixty seconds without an answer.                                        *)
PaulAborted(b) ==
    /\ call[b] = "asked"
    /\ FallBack(b)
    /\ HangUp({b})
    /\ doubts' = [doubts EXCEPT ![b] = @ + 1]

DirectReleased(b) ==
    /\ leg[b] = "direct"
    /\ direct' = [direct EXCEPT ![b] = @ + 1]
    /\ Push(b, "direct")
    /\ UNCHANGED <<seen, strategies, halted, doubts, paulVars>>

(* The node answers with an error ...                                      *)
DirectRefused(b) ==
    /\ leg[b] = "direct"
    /\ Push(b, "pending")
    /\ UNCHANGED <<seen, strategies, halted, direct, doubts, paulVars>>

(* ... or not in time, or with no JSON: it may have sent all the same.     *)
DirectLost(b) ==
    /\ leg[b] = "direct"
    /\ \E sent \in {0, 1} : direct' = [direct EXCEPT ![b] = @ + sent]
    /\ doubts' = [doubts EXCEPT ![b] = @ + 1]
    /\ Push(b, "pending")
    /\ UNCHANGED <<seen, strategies, halted, paulVars>>

(* The strategy of b's event of level l answers: a transaction, or none    *)
(* (nothing to do yet, or it threw).  The first run pushes the record.     *)
StrategyAnswered(b, l, released) ==
    /\ l \in strategies[b]
    /\ strategies' = [strategies EXCEPT ![b] = @ \ {l}]
    /\ releases' =
         IF releases[b] = NoRecord
         THEN [releases EXCEPT ![b] = Record(l, IF released THEN "strategy" ELSE "pending")]
         ELSE [releases EXCEPT ![b].method = IF released THEN "strategy" ELSE @]
    /\ UNCHANGED <<seen, leg, halted, direct, doubts, paulVars>>

(* halt, resume: the pending records are counted and stay as they are.     *)
SetHalted(h) ==
    /\ halted' = h
    /\ UNCHANGED <<seen, releases, leg, strategies, direct, doubts, paulVars>>

(* The process ends; what it had seen is a doubt for whoever comes next.   *)
RouterForgets ==
    /\ seen' = {}
    /\ releases' = [b \in Burns |-> NoRecord]
    /\ leg' = [b \in Burns |-> "none"]
    /\ strategies' = [b \in Burns |-> {}]
    /\ halted' = FALSE
    /\ doubts' = [b \in Burns |-> doubts[b] + IF b \in seen THEN 1 ELSE 0]
    /\ HangUp(Burns)
    /\ \E S \in SUBSET {b \in Burns : leg[b] = "direct"} :
         direct' = [b \in Burns |-> direct[b] + IF b \in S THEN 1 ELSE 0]

(* The lanes' own steps; an error for what was paid is a doubt, too.       *)
LaneStep ==
    /\ Serve \/ Pay \/ AnswerOk \/ AnswerError \/ Vanish
    /\ doubts' = [b \in Burns |->
         IF serving # NoRequest /\ serving' = NoRequest /\ serving.burn = b
            /\ serving.live /\ serving.paid /\ call'[b] = "error"
         THEN doubts[b] + 1 ELSE doubts[b]]
    /\ UNCHANGED <<seen, releases, leg, strategies, halted, direct>>

(* getStatus: what was taken in, and what is recorded.                     *)
Status == [seenSetSize |-> Cardinality(seen),
           total |-> Cardinality({b \in Burns : releases[b] # NoRecord})]

RouterStep(b) ==
    \/ PaulReleased(b) \/ PaulFailed(b) \/ PaulAborted(b)
    \/ DirectReleased(b) \/ DirectRefused(b) \/ DirectLost(b)
====
