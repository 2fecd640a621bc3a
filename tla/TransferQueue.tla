---- MODULE TransferQueue ----
(***************************************************************************)
(* The relayer's own transfer queue (relayer/src/queue.ts): transfers in   *)
(* the order the watchers report them, all in memory.                      *)
(*                                                                         *)
(* The processor (processNext) takes `pending' transfers only.  Vault      *)
(* deposits are reported as `pending_confirmations', and burns are not     *)
(* reported at all (ChainWatchers): nothing is processed, and the release, *)
(* the mint and their retries are not modelled.                            *)
(***************************************************************************)
EXTENDS Naturals, Sequences, FiniteSets, SequencesExt

CONSTANTS
    Deposits,       \* vault deposits on the soqucoin chain, by txid
    MaxFaults       \* failing requests, restarts (bound)

ASSUME QueueAssumption == IsFiniteSet(Deposits) /\ MaxFaults \in Nat

VARIABLES
    queue,          \* TransferQueue.queue, by source
    processed,      \* processedSourceTxs
    faults

queueVars == <<queue, processed, faults>>

QueueInit ==
    /\ queue = <<>>
    /\ processed = {}
    /\ faults = 0

Fault == faults < MaxFaults /\ faults' = faults + 1

(* A source is queued once in the life of the process.                     *)
Enqueue(S) ==
    /\ queue' = queue \o SetToSeq(S \ processed)
    /\ processed' = processed \cup S

(* A new process begins with an empty queue.                               *)
QueueForgets ==
    /\ queue' = <<>>
    /\ processed' = {}

====
