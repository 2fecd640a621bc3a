---- MODULE ChainWatchers ----
(***************************************************************************)
(* The two watchers that feed the transfer queue: of the solana program's  *)
(* signatures (relayer/src/watchers/solana.ts) and of the soqucoin chain's *)
(* blocks (relayer/src/watchers/soqucoin.ts).                              *)
(*                                                                         *)
(* Each polls on a timer that waits for nothing, so that polls overlap.    *)
(* Neither cursor is saved: a new process starts from the newest signature *)
(* and the newest block.  A signature is its position on the chain.        *)
(*                                                                         *)
(* The solana watcher reads a transaction and queues nothing: it looks for *)
(* `burnForRedemptionEvent' (solana.ts:119), and the IDL it gives its      *)
(* parser names the event `BurnForRedemptionEvent'.                        *)
(***************************************************************************)
EXTENDS TransferQueue

CONSTANTS
    Polls,          \* polls that can be under way together, of either watcher (bound)
    Limit,          \* signatures a poll asks for
    MaxSignatures   \* signatures of the program (bound)

ASSUME WatchersAssumption == Limit \in Nat \ {0} /\ MaxSignatures \in Nat

VARIABLES
    newest,         \* the program's newest signature on the solana chain
    lastSignature,  \* 0: null
    tip,            \* the soqucoin chain's height
    block,          \* each vault deposit's block; 0: none yet
    lastBlockHeight,
    poll,           \* each poll: of what, the next one, the last one
    read,           \* history: signatures whose transaction the process fetched
    lost,           \* history: signatures whose request failed, or cut by the limit
    missed,         \* history: deposits whose block could not be read
    older           \* history: the newest signature, and the deposits, at the process's start

solanaVars == <<newest, lastSignature>>
soqucoinVars == <<tip, block, lastBlockHeight>>
historyVars == <<read, lost, missed, older>>
vars == <<queueVars, solanaVars, soqucoinVars, poll, historyVars>>

Idle == [of |-> "nothing"]

Init ==
    /\ QueueInit
    /\ newest = 0
    /\ lastSignature = 0
    /\ tip = 1
    /\ block = [d \in Deposits |-> 0]
    /\ lastBlockHeight = 1
    /\ poll = [p \in Polls |-> Idle]
    /\ read = {}
    /\ lost = {}
    /\ missed = {}
    /\ older = [signature |-> 0, deposits |-> {}]

-----------------------------------------------------------------------------
(* The chains                                                              *)

Sign ==
    /\ newest < MaxSignatures
    /\ newest' = newest + 1
    /\ UNCHANGED <<queueVars, lastSignature, soqucoinVars, poll, historyVars>>

(* A block takes one vault deposit, or more.                               *)
Mine ==
    /\ \E S \in SUBSET {d \in Deposits : block[d] = 0} \ {{}} :
         block' = [d \in Deposits |-> IF d \in S THEN tip + 1 ELSE block[d]]
    /\ tip' = tip + 1
    /\ UNCHANGED <<queueVars, solanaVars, lastBlockHeight, poll, historyVars>>

-----------------------------------------------------------------------------
(* A poll, of either watcher                                               *)

(* From lo to hi; then the watcher takes `last' for the last it has seen.  *)
Begins(p, what, lo, hi, last) ==
    poll' = [poll EXCEPT ![p] = [of |-> what, next |-> lo, to |-> hi, last |-> last]]

Reads(p, what) == poll[p].of = what /\ poll[p].next <= poll[p].to

Through(p, what) == poll[p].of = what /\ poll[p].next > poll[p].to

Advances(p) == poll' = [poll EXCEPT ![p].next = @ + 1]

Ends(p) == poll' = [poll EXCEPT ![p] = Idle]

-----------------------------------------------------------------------------
(* SolanaWatcher.poll                                                      *)

Oldest == IF newest - lastSignature > Limit THEN newest - Limit + 1 ELSE lastSignature + 1

Cut == (lastSignature + 1 .. newest - Limit) \ read

(* The newest signatures after the last one, as many as the limit.         *)
(* sigs.reverse() reverses them in place, so that sigs[0], which becomes   *)
(* the last signature, is the oldest.                                      *)
SigPollBegins(p) ==
    /\ poll[p] = Idle
    /\ newest > lastSignature
    /\ Begins(p, "signatures", Oldest, newest, Oldest)
    /\ lost' = lost \cup Cut
    /\ UNCHANGED <<queueVars, solanaVars, soqucoinVars, read, missed, older>>

(* processTransaction, oldest first: none of its events is the one that is *)
(* looked for.                                                             *)
SigIsRead(p) ==
    /\ Reads(p, "signatures")
    /\ Advances(p)
    /\ read' = read \cup {poll[p].next}
    /\ UNCHANGED <<queueVars, solanaVars, soqucoinVars, lost, missed, older>>

(* An error is caught, logged, and passed over.                            *)
FetchFails(p) ==
    /\ Reads(p, "signatures")
    /\ Fault
    /\ Advances(p)
    /\ lost' = lost \cup {poll[p].next}
    /\ UNCHANGED <<queue, processed, solanaVars, soqucoinVars, read, missed, older>>

(* Mutant: the newest signature there is by then is taken for the last.    *)
SigPollEndsAtNewest(p) ==
    /\ Through(p, "signatures")
    /\ lastSignature' = newest
    /\ Ends(p)
    /\ UNCHANGED <<queueVars, newest, soqucoinVars, historyVars>>

SigPollEnds(p) ==
    /\ Through(p, "signatures")
    /\ lastSignature' = poll[p].last
    /\ Ends(p)
    /\ UNCHANGED <<queueVars, newest, soqucoinVars, historyVars>>

-----------------------------------------------------------------------------
(* SoqucoinWatcher.poll                                                    *)

BlockPollBegins(p) ==
    /\ poll[p] = Idle
    /\ tip > lastBlockHeight
    /\ Begins(p, "blocks", lastBlockHeight + 1, tip, tip)
    /\ UNCHANGED <<queueVars, solanaVars, soqucoinVars, historyVars>>

(* Mutant: the deposits of the block before.                               *)
InBlockBefore(h) == {d \in Deposits : block[d] = h - 1}

InBlock(h) == {d \in Deposits : block[d] = h}

BlockIsScanned(p) ==
    /\ Reads(p, "blocks")
    /\ Advances(p)
    /\ Enqueue(InBlock(poll[p].next))
    /\ UNCHANGED <<faults, solanaVars, soqucoinVars, historyVars>>

ScanFails(p) ==
    /\ Reads(p, "blocks")
    /\ Fault
    /\ Advances(p)
    /\ missed' = missed \cup InBlock(poll[p].next)
    /\ UNCHANGED <<queue, processed, solanaVars, soqucoinVars, read, lost, older>>

(* Mutant: the height there is by then is taken for the last.              *)
BlockPollEndsAtTip(p) ==
    /\ Through(p, "blocks")
    /\ lastBlockHeight' = tip
    /\ Ends(p)
    /\ UNCHANGED <<queueVars, solanaVars, tip, block, historyVars>>

BlockPollEnds(p) ==
    /\ Through(p, "blocks")
    /\ lastBlockHeight' = poll[p].last
    /\ Ends(p)
    /\ UNCHANGED <<queueVars, solanaVars, tip, block, historyVars>>

-----------------------------------------------------------------------------
(* A new process: start() takes the newest signature and height, or, where *)
(* a request fails, none: the watcher then begins with the newest batch,   *)
(* or with the first block.                                                *)
Restart ==
    /\ Fault
    /\ QueueForgets
    /\ poll' = [p \in Polls |-> Idle]
    /\ lastSignature' \in {newest, 0}
    /\ lastBlockHeight' \in {tip, 0}
    /\ read' = {} /\ lost' = {} /\ missed' = {}
    /\ older' = [signature |-> newest, deposits |-> {d \in Deposits : block[d] # 0}]
    /\ UNCHANGED <<newest, tip, block>>

PollStep(p) ==
    \/ SigIsRead(p) \/ FetchFails(p) \/ SigPollEnds(p)
    \/ BlockIsScanned(p) \/ ScanFails(p) \/ BlockPollEnds(p)

Next ==
    \/ Sign \/ Mine \/ Restart
    \/ \E p \in Polls : SigPollBegins(p) \/ BlockPollBegins(p) \/ PollStep(p)

(* The timers fire, and a request ends.                                    *)
Fairness ==
    /\ WF_vars(\E p \in Polls : PollStep(p))
    /\ SF_vars(\E p \in Polls : SigPollBegins(p))
    /\ SF_vars(\E p \in Polls : BlockPollBegins(p))

Spec == Init /\ [][Next]_vars /\ Fairness

-----------------------------------------------------------------------------

Arrived(d) == d \in ToSet(queue) \cup missed \cup older.deposits

Seen(s) == s \in read \cup lost \cup 1 .. older.signature

(* However polls overlap - the height can go back - a deposit below the    *)
(* height of the watcher is in the queue, once, unless its block could not *)
(* be read (soqucoin.ts:84) or is older than the process.                  *)
PassedIsQueued ==
    /\ IsInjective(queue)
    /\ \A d \in Deposits : block[d] \in 1 .. lastBlockHeight => Arrived(d)

(* A poll asks for nothing at or below lastSignature any more: all of it   *)
(* was read, whatever overlapped, unless its request failed, the limit cut *)
(* it, or it is older than the process (solana.ts:100).                    *)
PassedIsRead == \A s \in 1 .. lastSignature : Seen(s)

(* The watchers catch up with both chains again and again, with the same   *)
(* exceptions, however often a poll sets the height or the signature back. *)
CatchUp ==
    []<>/\ \A d \in Deposits : block[d] # 0 => Arrived(d)
        /\ \A s \in 1 .. newest : Seen(s)
====
