---- MODULE GatewayStore ----
(***************************************************************************)
(* The JSON-file store of the BTCSOQ gateway (relayer/src/btcsoq/store.ts).*)
(*                                                                         *)
(* Every put sets the in-memory state and calls persist(), which takes a   *)
(* snapshot AT THAT MOMENT and chains its write (tmp file, then rename)    *)
(* behind the writes already queued; the caller awaits its own write.  The *)
(* store is thus three copies of one value: `mem', what every reader sees; *)
(* the queued snapshots of `saveChain'; and `disk', what a restart loads.  *)
(*                                                                         *)
(* A write's completion and its caller's continuation are one step:        *)
(* between the rename's completion and the continuation only microtasks    *)
(* run, and a crash there leaves the disk the step leaves.                 *)
(***************************************************************************)
EXTENDS Naturals, Sequences

VARIABLES
    mem,        \* GatewayStore.state
    disk,       \* btcsoq-state.json, after its last completed rename
    saveChain,  \* writes queued or under way, oldest first
    poisoned    \* saveChain is a rejected promise: every later persist rejects

storeVars == <<mem, disk, saveChain, poisoned>>

(* One queued write: the asynchronous call chain that awaits it, and the   *)
(* snapshot.                                                               *)
Write(t, m) == [by |-> t, state |-> m]

StoreInit(m) ==
    /\ mem = m
    /\ disk = m
    /\ saveChain = <<>>
    /\ poisoned = FALSE

(* t's own write is the one that completes now: writes complete in order.  *)
Written(t) ==
    /\ saveChain # <<>>
    /\ Head(saveChain).by = t

(* putX / claimX from a step that awaits no earlier put of its own.        *)
Put(t, m) ==
    /\ ~poisoned
    /\ mem' = m
    /\ saveChain' = Append(saveChain, Write(t, m))
    /\ UNCHANGED <<disk, poisoned>>

(* The same put once the chain has been rejected: memory changes, the      *)
(* await throws.                                                           *)
PutRejected(m) ==
    /\ poisoned
    /\ mem' = m
    /\ UNCHANGED <<disk, saveChain, poisoned>>

(* t's awaited write completes and t continues without another put ...     *)
Settle(t) ==
    /\ Written(t)
    /\ disk' = Head(saveChain).state
    /\ saveChain' = Tail(saveChain)
    /\ UNCHANGED <<mem, poisoned>>

(* ... or goes straight on to its next put.                                *)
SettlePut(t, m) ==
    /\ Written(t)
    /\ disk' = Head(saveChain).state
    /\ mem' = m
    /\ saveChain' = Append(Tail(saveChain), Write(t, m))
    /\ UNCHANGED poisoned

(* A write fails (disk full, rename refused).  saveChain is only ever      *)
(* extended with .then(): the rejection fails every queued write and every *)
(* later one until the process restarts.                                   *)
WriteFails ==
    /\ saveChain # <<>>
    /\ saveChain' = <<>>
    /\ poisoned' = TRUE
    /\ UNCHANGED <<mem, disk>>

(* The threads whose awaited write is in the chain.                        *)
Awaiting == {saveChain[i].by : i \in DOMAIN saveChain}

(* load() in a new process.                                                *)
Reload ==
    /\ mem' = disk
    /\ saveChain' = <<>>
    /\ poisoned' = FALSE
    /\ UNCHANGED disk

====
