---- MODULE DepositLaneSafety ----
(***************************************************************************)
(* The bitcoin lane loses no deposit but to a crash or a failed write, and *)
(* the router's records stay behind the ledger, for any deposits, callers, *)
(* finality and chain, and any number of crashes and failing writes.       *)
(*                                                                         *)
(* The adapter's cursor moves before its batch is handed over, and any of  *)
(* the callers may persist it meanwhile.  No deposit is lost because what  *)
(* a cursor has passed - in the adapter, in memory, in a queued write or   *)
(* on disk - is on disk as finalized, or in the hands of a caller that     *)
(* still has it to put, or cut off.                                        *)
(***************************************************************************)
EXTENDS DepositLane, SequenceTheorems, TLAPS

Events == Burns \X Levels
Versions == [dep : [Burns -> 0 .. 3], mint : SUBSET Burns, cursor : Nat]
Writers == Callers \cup {"tick"}
Writes == [by : Writers, state : Versions]
Resting == [at : {"idle", "handing", "saving"}, todo : SUBSET Events]
Handling == [at : {"put", "routed", "minted"}, todo : SUBSET Events, event : Events]
Methods == {"pending", "paul", "direct", "strategy"}
Records == [method : Methods, level : Levels]

StoreTypes ==
    /\ mem \in Versions
    /\ disk \in Versions
    /\ saveChain \in Seq(Writes)
    /\ known = mem.dep

ChainTypes ==
    /\ tip \in Finality .. MaxTip
    /\ block \in [Burns -> Nat]
    /\ \A d \in Burns : block[d] <= tip \/ block[d] = NotSent
    /\ cursor \in Nat

CheckTypes ==
    /\ check \in [Callers -> Resting \cup Handling]
    /\ \A c \in Callers : check[c].at \in {"idle", "saving"} => check[c].todo = {}

RouterTypes ==
    /\ releases \in [Burns -> Records \cup {NoRecord}]
    /\ strategies \in [Burns -> SUBSET Levels]

Types == StoreTypes /\ ChainTypes /\ CheckTypes /\ RouterTypes

(* A later version of the file tells all that an older one tells.          *)
Tells(b, a) ==
    /\ \A d \in Burns : a.dep[d] <= b.dep[d]
    /\ a.mint \subseteq b.mint

VersionInv ==
    /\ Tells(mem, disk)
    /\ \A i \in 1 .. Len(saveChain) :
        /\ Tells(saveChain[i].state, disk)
        /\ Tells(mem, saveChain[i].state)
        /\ \A j \in 1 .. Len(saveChain) : i <= j => Tells(saveChain[j].state, saveChain[i].state)

(* A write in the queue is its caller's only one, and awaited; the put of  *)
(* a deposit holds the deposit.                                            *)
Waiting == {"put", "saving", "minted"}

WriteInv ==
    \A i \in 1 .. Len(saveChain) : \A c \in Callers : saveChain[i].by = c =>
        /\ check[c].at \in Waiting
        /\ check[c].at = "put" => Level(c) <= saveChain[i].state.dep[Event(c)]
        /\ \A j \in 1 .. Len(saveChain) : saveChain[j].by = c => i = j

(* A deposit on disk as finalized, or awaited to be, or cut off ...        *)
Putting(c, d) == check[c].at = "put" /\ check[c].event = <<d, 3>>
Kept(d) == disk.dep[d] = 3 \/ d \in cutOff \/ \E c \in Callers : Putting(c, d)

(* ... or still to be put.                                                 *)
Held(d) == Kept(d) \/ d \in older \/ \E c \in Callers : <<d, 3>> \in check[c].todo

(* What memory has as finalized is kept, what a cursor has passed is held. *)
Passed(k) == k <= tip /\ \A d \in Burns : InChain(d) /\ block[d] <= k => Held(d)

SavedCursors ==
    {mem.cursor, disk.cursor} \cup {saveChain[i].state.cursor : i \in 1 .. Len(saveChain)}

LedgerInv ==
    /\ \A d \in Burns : mem.dep[d] = 3 => Kept(d)
    /\ \A k \in SavedCursors \cup {cursor} : Passed(k)

(* What the router was told is on disk; what it recorded as released is in *)
(* memory.                                                                 *)
Recorded(d) ==
    /\ \A l \in strategies[d] : l <= disk.dep[d]
    /\ releases[d] # NoRecord =>
        /\ releases[d].level <= disk.dep[d]
        /\ releases[d].method = "strategy" => d \in mem.mint

RecordInv ==
    /\ \A d \in Burns : Recorded(d)
    /\ \A c \in Callers : check[c].at = "minted" => Event(c) \in mem.mint

LaneInv == Types /\ VersionInv /\ WriteInv /\ LedgerInv /\ RecordInv

-----------------------------------------------------------------------------
(* The store.                                                              *)

LEMMA TellsOrder ==
    ASSUME NEW a \in Versions, NEW b \in Versions
    PROVE  /\ Tells(a, a)
           /\ \A e \in Versions : Tells(b, a) /\ Tells(e, b) => Tells(e, a)
BY DEF Tells, Versions

(* The queue of writes after each of the store's operations.               *)
LEMMA Queue ==
    ASSUME StoreTypes, NEW t \in Writers, NEW m \in Versions
    PROVE  /\ Len(saveChain) \in Nat
           /\ \A i \in 1 .. Len(saveChain) :
                saveChain[i].by \in Writers /\ saveChain[i].state \in Versions
           /\ Put(t, m) =>
                /\ saveChain' \in Seq(Writes)
                /\ Len(saveChain') = Len(saveChain) + 1
                /\ \A i \in 1 .. Len(saveChain) : saveChain'[i] = saveChain[i]
                /\ saveChain'[Len(saveChain) + 1] = Write(t, m)
           /\ Settle(t) =>
                /\ saveChain' \in Seq(Writes)
                /\ Len(saveChain) > 0
                /\ saveChain[1].by = t
                /\ disk' = saveChain[1].state
                /\ Len(saveChain') = Len(saveChain) - 1
                /\ \A i \in 1 .. (Len(saveChain) - 1) : saveChain'[i] = saveChain[i + 1]
<1>1. saveChain \in Seq(Writes) /\ Write(t, m) \in Writes
  BY DEF StoreTypes, Write, Writes
<1>2. \A w \in Writes : w.by \in Writers /\ w.state \in Versions
  BY DEF Writes
<1>3. Len(saveChain) \in Nat /\ \A i \in 1 .. Len(saveChain) : saveChain[i] \in Writes
  BY <1>1
<1>4. ASSUME Put(t, m)
      PROVE  /\ saveChain' \in Seq(Writes)
             /\ Len(saveChain') = Len(saveChain) + 1
             /\ \A i \in 1 .. Len(saveChain) : saveChain'[i] = saveChain[i]
             /\ saveChain'[Len(saveChain) + 1] = Write(t, m)
  BY <1>1, <1>4, AppendProperties DEF Put
<1>5. ASSUME Settle(t)
      PROVE  /\ saveChain' \in Seq(Writes)
             /\ Len(saveChain) > 0
             /\ saveChain[1].by = t
             /\ disk' = saveChain[1].state
             /\ Len(saveChain') = Len(saveChain) - 1
             /\ \A i \in 1 .. (Len(saveChain) - 1) : saveChain'[i] = saveChain[i + 1]
  <2>1. /\ saveChain # <<>> /\ Head(saveChain).by = t
        /\ disk' = Head(saveChain).state /\ saveChain' = Tail(saveChain)
    BY <1>5 DEF Settle, Written
  <2> QED
    BY <1>1, <2>1, HeadTailProperties, EmptySeq
<1> QED
  BY <1>2, <1>3, <1>4, <1>5

(* Whatever is put tells what memory tells: versions stay in their order.  *)
LEMMA StoreKeeps ==
    ASSUME StoreTypes, VersionInv, NEW t \in Writers, NEW m \in Versions, Tells(m, mem),
           \/ Put(t, m) \/ PutRejected(m) \/ Settle(t) \/ WriteFails \/ UNCHANGED storeVars
    PROVE  /\ mem' \in Versions /\ disk' \in Versions /\ saveChain' \in Seq(Writes)
           /\ VersionInv'
           /\ Tells(mem', mem) /\ Tells(disk', disk)
<1> DEFINE n == Len(saveChain)
<1>1. /\ n \in Nat /\ mem \in Versions /\ disk \in Versions /\ saveChain \in Seq(Writes)
      /\ \A i \in 1 .. n : saveChain[i].state \in Versions
      /\ Tells(mem, disk) /\ Tells(mem, mem) /\ Tells(disk, disk) /\ Tells(m, m)
      /\ Tells(m, disk)
  BY Queue, TellsOrder DEF StoreTypes, VersionInv
<1>2. \A i \in 1 .. n :
        /\ Tells(saveChain[i].state, disk) /\ Tells(mem, saveChain[i].state)
        /\ Tells(m, saveChain[i].state) 
        /\ \A j \in 1 .. n : i <= j => Tells(saveChain[j].state, saveChain[i].state)
  BY <1>1, TellsOrder DEF VersionInv
<1>3. Write(t, m).state = m
  BY DEF Write
<1>4. CASE Put(t, m)
  <2>1. /\ Len(saveChain') = n + 1 /\ saveChain'[n + 1] = Write(t, m)
        /\ \A i \in 1 .. n : saveChain'[i] = saveChain[i]
        /\ mem' = m /\ disk' = disk /\ saveChain' \in Seq(Writes)
    BY <1>4, Queue DEF Put
  <2> HIDE DEF n
  <2>2. ASSUME NEW i \in 1 .. (n + 1)
        PROVE  /\ Tells(saveChain'[i].state, disk) /\ Tells(m, saveChain'[i].state)
               /\ \A j \in 1 .. (n + 1) : i <= j => Tells(saveChain'[j].state, saveChain'[i].state)
    <3>1. i \in 1 .. n \/ i = n + 1
      BY <1>1
    <3> QED
      BY <1>1, <1>2, <1>3, <2>1, <3>1
  <2> QED
    BY <1>1, <2>1, <2>2 DEF VersionInv
<1>5. CASE Settle(t)
  <2>1. /\ Len(saveChain') = n - 1 /\ n > 0
        /\ \A i \in 1 .. (n - 1) : saveChain'[i] = saveChain[i + 1]
        /\ mem' = mem /\ disk' = saveChain[1].state /\ saveChain' \in Seq(Writes)
    BY <1>5, Queue DEF Settle
  <2> HIDE DEF n
  <2>2. ASSUME NEW i \in 1 .. (n - 1)
        PROVE  /\ Tells(saveChain'[i].state, disk') /\ Tells(mem, saveChain'[i].state)
               /\ \A j \in 1 .. (n - 1) : i <= j => Tells(saveChain'[j].state, saveChain'[i].state)
    <3>1. i + 1 \in 1 .. n /\ 1 \in 1 .. n /\ 1 <= i + 1
      BY <1>1, <2>1
    <3>2. Tells(saveChain[i + 1].state, saveChain[1].state) /\ Tells(mem, saveChain[i + 1].state)
      BY <1>2, <3>1
    <3>3. ASSUME NEW j \in 1 .. (n - 1), i <= j
          PROVE  Tells(saveChain'[j].state, saveChain'[i].state)
      <4>1. j + 1 \in 1 .. n /\ i + 1 <= j + 1
        BY <1>1, <2>1, <3>3
      <4> QED
        BY <1>2, <2>1, <3>1, <4>1
    <3> QED
      BY <2>1, <3>2, <3>3
  <2> QED
    BY <1>1, <1>2, <2>1, <2>2 DEF VersionInv
<1>6. CASE PutRejected(m)
  BY <1>1, <1>2, <1>6 DEF PutRejected, VersionInv
<1>7. CASE WriteFails
  BY <1>1, <1>2, <1>7 DEF WriteFails, VersionInv
<1>8. CASE UNCHANGED storeVars
  BY <1>1, <1>2, <1>8 DEF storeVars, VersionInv
<1> QED
  BY <1>4, <1>5, <1>6, <1>7, <1>8

(* ... and no cursor is saved but one that was, or is put.                 *)
LEMMA CursorsSaved ==
    ASSUME StoreTypes, NEW t \in Writers, NEW m \in Versions,
           \/ Put(t, m) \/ PutRejected(m) \/ Settle(t) \/ WriteFails \/ UNCHANGED storeVars
    PROVE  SavedCursors' \subseteq SavedCursors \cup {m.cursor}
<1>1. Write(t, m).state = m /\ Len(saveChain) \in Nat
  BY Queue DEF Write
<1>2. CASE Put(t, m)
  <2>1. /\ mem' = m /\ disk' = disk
        /\ Len(saveChain') = Len(saveChain) + 1
        /\ \A i \in 1 .. Len(saveChain) : saveChain'[i] = saveChain[i]
        /\ saveChain'[Len(saveChain) + 1] = Write(t, m)
    BY <1>2, Queue DEF Put
  <2>2. \A i \in 1 .. Len(saveChain') : i \in 1 .. Len(saveChain) \/ i = Len(saveChain) + 1
    BY <1>1, <2>1
  <2> QED
    BY <1>1, <2>1, <2>2 DEF SavedCursors
<1>3. CASE Settle(t)
  <2>1. /\ mem' = mem /\ disk' = saveChain[1].state
        /\ Len(saveChain) > 0
        /\ Len(saveChain') = Len(saveChain) - 1
        /\ \A i \in 1 .. (Len(saveChain) - 1) : saveChain'[i] = saveChain[i + 1]
    BY <1>3, Queue DEF Settle
  <2>2. 1 \in 1 .. Len(saveChain)
        /\ \A i \in 1 .. Len(saveChain') : i + 1 \in 1 .. Len(saveChain)
                                           /\ saveChain'[i] = saveChain[i + 1]
    BY <1>1, <2>1
  <2> QED
    BY <2>1, <2>2 DEF SavedCursors
<1>4. CASE PutRejected(m)
  BY <1>4 DEF PutRejected, SavedCursors
<1>5. CASE WriteFails
  BY <1>5 DEF WriteFails, SavedCursors
<1>6. CASE UNCHANGED storeVars
  BY <1>6 DEF storeVars, SavedCursors
<1> QED
  BY <1>2, <1>3, <1>4, <1>5, <1>6

-----------------------------------------------------------------------------
(* The ledger: what is held stays held, and no cursor passes a deposit     *)
(* that is not.                                                            *)
LEMMA LedgerKeeps ==
    ASSUME Types, LedgerInv, tip' \in Nat, tip <= tip',
           \A d \in Burns : InChain(d)' /\ block'[d] <= tip => InChain(d) /\ block[d] = block'[d],
           \A d \in Burns : InChain(d) /\ Held(d) => Held(d)',
           \A d \in Burns : mem'.dep[d] = 3 => Kept(d)',
           Passed(cursor)',
           SavedCursors' \subseteq SavedCursors \cup {cursor}
    PROVE  LedgerInv'
<1>1. ASSUME NEW k \in SavedCursors \cup {cursor}
      PROVE  Passed(k)'
  <2>1. k \in Nat /\ tip \in Nat
    <3>1. \A i \in 1 .. Len(saveChain) : saveChain[i].state.cursor \in Nat
      BY Queue DEF Types, StoreTypes, Writers, Versions
    <3> QED
      BY <3>1, LaneAssumption
      DEF SavedCursors, Types, StoreTypes, ChainTypes, Versions
  <2>2. Passed(k)
    BY DEF LedgerInv
  <2>3. k <= tip /\ k <= tip'
    BY <2>1, <2>2 DEF Passed
  <2>4. ASSUME NEW d \in Burns, InChain(d)', block'[d] <= k
        PROVE  Held(d)'
    <3>1. block'[d] \in Nat
      BY <2>4 DEF InChain
    <3>2. block'[d] <= tip
      BY <2>1, <2>3, <2>4, <3>1
    <3>3. InChain(d) /\ block[d] <= k
      BY <2>4, <3>2
    <3> QED
      BY <2>2, <3>3 DEF Passed
  <2> QED
    BY <2>3, <2>4 DEF Passed
<1>2. \A k \in SavedCursors' \cup {cursor'} : Passed(k)'
  BY <1>1
<1> QED
  BY <1>2 DEF LedgerInv

(* A caller's own step, or the tick's: what it puts tells what memory      *)
(* tells; it puts when it awaits nothing, and then awaits; it lets go of a *)
(* deposit only when that is kept.                                         *)
Lossless(t, d) ==
    /\ <<d, 3>> \in check[t].todo =>
         <<d, 3>> \in check'[t].todo \/ Kept(d) \/ Putting(t, d)' \/ d \in cutOff'
    /\ mem'.dep[d] = 3 => mem.dep[d] = 3 \/ Putting(t, d)' \/ d \in cutOff'

CallerMoves(t, m) ==
    /\ UNCHANGED <<chainVars, older>>
    /\ cutOff \subseteq cutOff'
    /\ known' = mem'.dep
    /\ \A c \in Callers : c # t => check'[c] = check[c]
    /\ IF t \in Callers
       THEN /\ \A d \in Burns : Lossless(t, d)
            /\ check[t].at \in Waiting => Settle(t)
            /\ check'[t].at \in Waiting =>
                 /\ Put(t, m)
                 /\ check'[t].at = "put" => Level(t)' <= m.dep[Event(t)']
       ELSE mem'.dep = mem.dep

LEMMA WritesKeep ==
    ASSUME Types, WriteInv, NEW t \in Writers, NEW m \in Versions, CallerMoves(t, m),
           \/ Put(t, m) /\ (t \in Callers => check'[t].at \in Waiting)
           \/ PutRejected(m) \/ Settle(t) \/ UNCHANGED storeVars
    PROVE  WriteInv'
<1> DEFINE n == Len(saveChain)
<1>1. /\ n \in Nat /\ Write(t, m).by = t /\ Write(t, m).state = m
      /\ \A c \in Callers : c # t => check'[c] = check[c]
  BY Queue DEF Types, Write, CallerMoves
<1>2. ASSUME NEW c \in Callers, NEW i \in 1 .. n, saveChain[i].by = c
      PROVE  /\ check[c].at \in Waiting
             /\ check[c].at = "put" => Level(c) <= saveChain[i].state.dep[Event(c)]
             /\ \A j \in 1 .. n : saveChain[j].by = c => i = j
  BY <1>2 DEF WriteInv
<1>3. CASE Put(t, m) /\ (t \in Callers => check'[t].at \in Waiting)
  <2>1. /\ Len(saveChain') = n + 1 /\ saveChain'[n + 1] = Write(t, m)
        /\ \A i \in 1 .. n : saveChain'[i] = saveChain[i]
    BY <1>3, Queue DEF Types
  <2>2. t \in Callers => ~Settle(t)
    <3>1. SUFFICES ASSUME Settle(t) PROVE FALSE
      OBVIOUS
    <3>2. Len(saveChain') = n - 1
      BY <3>1, Queue DEF Types
    <3> QED
      BY <1>1, <2>1, <3>2
  <2>3. t \in Callers => check[t].at \notin Waiting
    BY <2>2 DEF CallerMoves
  <2>4. t \in Callers => \A i \in 1 .. n : saveChain[i].by # t
    BY <1>2, <2>3
  <2> SUFFICES ASSUME NEW i \in 1 .. (n + 1), NEW c \in Callers, saveChain'[i].by = c
               PROVE  /\ check'[c].at \in Waiting
                      /\ check'[c].at = "put" => Level(c)' <= saveChain'[i].state.dep[Event(c)']
                      /\ \A j \in 1 .. (n + 1) : saveChain'[j].by = c => i = j
    BY <2>1 DEF WriteInv
  <2> HIDE DEF n
  <2>5. \A j \in 1 .. (n + 1) : j \in 1 .. n \/ j = n + 1
    BY <1>1
  <2>6. CASE c = t
    <3>1. i = n + 1 /\ \A j \in 1 .. (n + 1) : saveChain'[j].by = c => j = n + 1
      BY <2>1, <2>4, <2>5, <2>6
    <3>2. /\ check'[t].at \in Waiting
          /\ check'[t].at = "put" => Level(t)' <= m.dep[Event(t)']
      BY <1>3, <2>6 DEF CallerMoves
    <3> QED
      BY <1>1, <2>1, <2>6, <3>1, <3>2
  <2>7. CASE c # t
    <3>1. i \in 1 .. n /\ saveChain[i].by = c
      BY <1>1, <2>1, <2>5, <2>7
    <3>2. \A j \in 1 .. (n + 1) : saveChain'[j].by = c => j \in 1 .. n /\ saveChain[j].by = c
      BY <1>1, <2>1, <2>5, <2>7
    <3>3. check'[c] = check[c] /\ Level(c)' = Level(c) /\ Event(c)' = Event(c)
      BY <1>1, <2>7 DEF Level, Event
    <3> QED
      BY <1>2, <2>1, <3>1, <3>2, <3>3
  <2> QED
    BY <2>6, <2>7
<1>4. CASE Settle(t)
  <2>1. /\ Len(saveChain') = n - 1 /\ n > 0 /\ saveChain[1].by = t
        /\ \A i \in 1 .. (n - 1) : saveChain'[i] = saveChain[i + 1]
    BY <1>4, Queue DEF Types
  <2> SUFFICES ASSUME NEW i \in 1 .. (n - 1), NEW c \in Callers, saveChain'[i].by = c
               PROVE  /\ check'[c].at \in Waiting
                      /\ check'[c].at = "put" => Level(c)' <= saveChain'[i].state.dep[Event(c)']
                      /\ \A j \in 1 .. (n - 1) : saveChain'[j].by = c => i = j
    BY <2>1 DEF WriteInv
  <2> HIDE DEF n
  <2>2. i + 1 \in 1 .. n /\ 1 \in 1 .. n /\ i + 1 # 1 /\ saveChain[i + 1].by = c
    BY <1>1, <2>1
  <2>3. c # t
    BY <1>2, <2>1, <2>2
  <2>4. \A j \in 1 .. (n - 1) : saveChain'[j].by = c => i + 1 = j + 1
    <3>1. \A j \in 1 .. (n - 1) : j + 1 \in 1 .. n
      BY <1>1
    <3> QED
      BY <1>2, <2>1, <2>2, <3>1
  <2>5. check'[c] = check[c] /\ Level(c)' = Level(c) /\ Event(c)' = Event(c)
    BY <1>1, <2>3 DEF Level, Event
  <2> QED
    BY <1>1, <1>2, <2>1, <2>2, <2>4, <2>5
<1>5. CASE PutRejected(m) \/ UNCHANGED storeVars
  <2>1. saveChain' = saveChain
    BY <1>5 DEF PutRejected, storeVars
  <2>2. t \in Callers => check[t].at \notin Waiting
    <3>1. SUFFICES ASSUME Settle(t) PROVE FALSE
      BY DEF CallerMoves
    <3>2. Len(saveChain') = n - 1
      BY <3>1, Queue DEF Types
    <3> QED
      BY <1>1, <2>1, <3>2
  <2> SUFFICES ASSUME NEW i \in 1 .. n, NEW c \in Callers, saveChain[i].by = c
               PROVE  /\ check'[c].at \in Waiting
                      /\ check'[c].at = "put" => Level(c)' <= saveChain[i].state.dep[Event(c)']
                      /\ \A j \in 1 .. n : saveChain[j].by = c => i = j
    BY <2>1 DEF WriteInv
  <2>3. c # t
    BY <1>2, <2>2
  <2>4. check'[c] = check[c] /\ Level(c)' = Level(c) /\ Event(c)' = Event(c)
    BY <1>1, <2>3 DEF Level, Event
  <2> QED
    BY <1>2, <2>4
<1> QED
  BY <1>3, <1>4, <1>5

(* What is kept stays kept: when the awaited put is done, the deposit is   *)
(* on disk.                                                                *)
LEMMA KeptKeeps ==
    ASSUME Types, VersionInv, WriteInv, NEW t \in Writers, NEW m \in Versions,
           CallerMoves(t, m), disk' \in Versions, Tells(disk', disk)
    PROVE  \A d \in Burns : Kept(d) => Kept(d)'
<1> SUFFICES ASSUME NEW d \in Burns, Kept(d) PROVE Kept(d)'
  OBVIOUS
<1>1. disk'.dep[d] \in 0 .. 3 /\ disk.dep[d] \in 0 .. 3 /\ disk.dep[d] <= disk'.dep[d]
  BY DEF Types, StoreTypes, Versions, Tells
<1>2. CASE disk.dep[d] = 3
  BY <1>1, <1>2 DEF Kept
<1>3. CASE d \in cutOff
  BY <1>3 DEF Kept, CallerMoves
<1>4. CASE \E c \in Callers : Putting(c, d)
  <2> PICK c \in Callers : Putting(c, d)
    BY <1>4
  <2>1. CASE c # t
    BY <2>1 DEF CallerMoves, Putting, Kept
  <2>2. CASE c = t
    <3>1. Settle(t)
      BY <2>2 DEF CallerMoves, Putting, Waiting
    <3>2. Len(saveChain) > 0 /\ saveChain[1].by = t /\ disk' = saveChain[1].state
      BY <3>1, Queue DEF Types
    <3>3. 1 \in 1 .. Len(saveChain)
      BY <3>2, Queue DEF Types
    <3>4. Level(t) <= saveChain[1].state.dep[Event(t)]
      BY <2>2, <3>2, <3>3 DEF WriteInv, Putting
    <3>5. Level(t) = 3 /\ Event(t) = d
      BY <2>2 DEF Putting, Level, Event
    <3>6. disk'.dep[d] = 3
      BY <1>1, <3>2, <3>4, <3>5
    <3> QED
      BY <3>6 DEF Kept
  <2> QED
    BY <2>1, <2>2
<1> QED
  BY <1>2, <1>3, <1>4 DEF Kept

(* A caller's own step, with the cursor where it is.                       *)
LEMMA CallerKeeps ==
    ASSUME Types, VersionInv, WriteInv, LedgerInv, NEW t \in Writers, NEW m \in Versions,
           Tells(m, mem), m.cursor \in {mem.cursor, cursor}, UNCHANGED cursor,
           CallerMoves(t, m),
           \/ Put(t, m) /\ (t \in Callers => check'[t].at \in Waiting)
           \/ PutRejected(m) \/ Settle(t) \/ UNCHANGED storeVars
    PROVE  /\ StoreTypes' /\ VersionInv' /\ WriteInv' /\ LedgerInv'
           /\ Tells(mem', mem) /\ Tells(disk', disk)
<1>1. /\ StoreTypes' /\ VersionInv' /\ Tells(mem', mem) /\ Tells(disk', disk)
      /\ disk' \in Versions
  BY StoreKeeps DEF Types, StoreTypes, CallerMoves
<1>2. WriteInv'
  BY WritesKeep
<1>3. \A d \in Burns : Kept(d) => Kept(d)'
  BY <1>1, KeptKeeps
<1>4. ASSUME NEW d \in Burns, Held(d)
      PROVE  Held(d)'
  <2>1. CASE Kept(d) \/ d \in older
    BY <1>3, <2>1 DEF Held, CallerMoves
  <2>2. CASE \E c \in Callers : <<d, 3>> \in check[c].todo
    <3> PICK c \in Callers : <<d, 3>> \in check[c].todo
      BY <2>2
    <3>1. CASE c # t
      BY <3>1 DEF Held, CallerMoves
    <3>2. CASE c = t
      <4>1. <<d, 3>> \in check'[t].todo \/ Kept(d) \/ Putting(t, d)' \/ d \in cutOff'
        BY <3>2 DEF CallerMoves, Lossless
      <4> QED
        BY <1>3, <3>2, <4>1 DEF Held, Kept
    <3> QED
      BY <3>1, <3>2
  <2> QED
    BY <1>4, <2>1, <2>2 DEF Held
<1>5. ASSUME NEW d \in Burns, mem'.dep[d] = 3
      PROVE  Kept(d)'
  <2>1. CASE t \in Callers
    <3>1. mem.dep[d] = 3 \/ Putting(t, d)' \/ d \in cutOff'
      BY <1>5, <2>1 DEF CallerMoves, Lossless
    <3> QED
      BY <1>3, <2>1, <3>1 DEF LedgerInv, Kept
  <2>2. CASE t \notin Callers
    BY <1>3, <1>5, <2>2 DEF CallerMoves, LedgerInv
  <2> QED
    BY <2>1, <2>2
<1>6. SavedCursors' \subseteq SavedCursors \cup {cursor}
  <2>1. SavedCursors' \subseteq SavedCursors \cup {m.cursor}
    BY CursorsSaved DEF Types
  <2>2. mem.cursor \in SavedCursors
    BY DEF SavedCursors
  <2> QED
    BY <2>1, <2>2
<1>7. Passed(cursor)'
  <2>1. Passed(cursor)
    BY DEF LedgerInv
  <2> QED
    BY <1>4, <2>1 DEF Passed, CallerMoves, chainVars, InChain
<1>8. LedgerInv'
  <2>1. tip' = tip /\ block' = block /\ tip \in Nat
    BY LaneAssumption DEF CallerMoves, chainVars, Types, ChainTypes
  <2>2. tip' \in Nat /\ tip <= tip'
    BY <2>1
  <2>3. \A d \in Burns : InChain(d)' /\ block'[d] <= tip => InChain(d) /\ block[d] = block'[d]
    BY <2>1 DEF InChain
  <2> QED
    BY <1>4, <1>5, <1>6, <1>7, <2>2, <2>3, LedgerKeeps
<1> QED
  BY <1>1, <1>2, <1>8
-----------------------------------------------------------------------------
(* The router.                                                             *)

(* What it is told is on disk; a release it is told of is in memory.       *)
Informed ==
    \/ \E d \in Burns, l \in Levels :
        \/ OnBurnDetected(d, l) /\ l <= disk'.dep[d]
        \/ \E r \in BOOLEAN : StrategyAnswered(d, l, r) /\ (r => d \in mem.mint)
    \/ UNCHANGED <<releases, strategies>>

LEMMA RouterKeeps ==
    ASSUME RouterTypes, \A b \in Burns : Recorded(b), Informed,
           mem \in Versions, disk \in Versions, mem' \in Versions, disk' \in Versions,
           Tells(mem', mem), Tells(disk', disk)
    PROVE  RouterTypes' /\ \A b \in Burns : Recorded(b)'
<1> USE RouterAssumption DEF RouterTypes
<1>1. \A b \in Burns : /\ disk.dep[b] \in Nat /\ disk'.dep[b] \in Nat
                       /\ disk.dep[b] <= disk'.dep[b]
                       /\ b \in mem.mint => b \in mem'.mint
  BY DEF Versions, Tells
<1>2. \A b \in Burns : /\ releases[b] \in Records \cup {NoRecord}
                       /\ strategies[b] \subseteq Levels
                       /\ \A k \in strategies[b] : k \in Nat
                       /\ releases[b] # NoRecord => releases[b].level \in Nat
  BY DEF Records, Levels
<1>3. \A b \in Burns :
        /\ \A k \in strategies[b] : k <= disk'.dep[b]
        /\ releases[b] # NoRecord =>
            /\ releases[b].level <= disk'.dep[b]
            /\ releases[b].method = "strategy" => b \in mem'.mint
  BY <1>1, <1>2 DEF Recorded
<1>4. ASSUME releases' \in [Burns -> Records \cup {NoRecord}],
             strategies' \in [Burns -> SUBSET Levels],
             NEW d \in Burns,
             \A b \in Burns : b # d => releases'[b] = releases[b] /\ strategies'[b] = strategies[b],
             \A k \in strategies'[d] : k \in strategies[d] \/ k <= disk'.dep[d],
             releases'[d] # NoRecord =>
                /\ releases'[d].level <= disk'.dep[d]
                /\ releases'[d].method = "strategy" => d \in mem'.mint
      PROVE  RouterTypes' /\ \A b \in Burns : Recorded(b)'
  BY <1>3, <1>4 DEF Recorded
<1>5. CASE UNCHANGED <<releases, strategies>>
  BY <1>3, <1>5 DEF Recorded
<1>6. ASSUME NEW d \in Burns, NEW l \in Levels, OnBurnDetected(d, l), l <= disk'.dep[d]
      PROVE  RouterTypes' /\ \A b \in Burns : Recorded(b)'
  <2>1. CASE Repeated(d, l)
    BY <1>5, <2>1 DEF Repeated, routerVars
  <2>2. CASE Upgraded(d, l)
    <3>1. /\ releases[d] \in Records
          /\ releases' = [releases EXCEPT ![d] = [releases[d] EXCEPT !.level = l]]
          /\ strategies' \in {strategies, [strategies EXCEPT ![d] = @ \cup {l}]}
      BY <1>2, <2>2 DEF Upgraded
    <3>2. /\ [releases[d] EXCEPT !.level = l] \in Records
          /\ [releases[d] EXCEPT !.level = l].level = l
          /\ [releases[d] EXCEPT !.level = l].method = releases[d].method
      BY <3>1 DEF Records
    <3>3. releases[d] # NoRecord
      BY <2>2 DEF Upgraded
    <3>4. releases' \in [Burns -> Records \cup {NoRecord}] /\ strategies' \in [Burns -> SUBSET Levels]
      BY <3>1, <3>2
    <3>5. /\ \A b \in Burns : b # d => releases'[b] = releases[b] /\ strategies'[b] = strategies[b]
          /\ \A k \in strategies'[d] : k \in strategies[d] \/ k = l
          /\ releases'[d] = [releases[d] EXCEPT !.level = l]
      BY <3>1
    <3>6. /\ \A k \in strategies'[d] : k \in strategies[d] \/ k <= disk'.dep[d]
          /\ releases'[d].level <= disk'.dep[d]
          /\ releases'[d].method = "strategy" => d \in mem'.mint
      BY <1>3, <1>6, <3>2, <3>3, <3>5
    <3> QED
      BY <1>4, <3>4, <3>5, <3>6
  <2>3. CASE Pended(d, l)
    <3>1. /\ Record(l, "pending") \in Records
          /\ Record(l, "pending").level = l /\ Record(l, "pending").method # "strategy"
      BY DEF Record, Records, Methods
    <3>2. /\ releases' = [releases EXCEPT ![d] = Record(l, "pending")]
          /\ strategies' = strategies
      BY <2>3 DEF Pended
    <3> QED
      BY <1>4, <1>6, <3>1, <3>2
  <2>4. CASE Begun(d, l)
    <3>1. releases' = releases /\ strategies' \in {strategies, [strategies EXCEPT ![d] = {l}]}
      BY <2>4 DEF Begun
    <3>2. strategies' \in [Burns -> SUBSET Levels]
      BY <3>1
    <3>3. \A k \in strategies'[d] : k \in strategies[d] \/ k = l
      BY <3>1
    <3> QED
      BY <1>3, <1>4, <1>6, <3>1, <3>2, <3>3
  <2> QED
    BY <1>6, <2>1, <2>2, <2>3, <2>4 DEF OnBurnDetected
<1>7. ASSUME NEW d \in Burns, NEW l \in Levels,
             NEW r \in BOOLEAN, StrategyAnswered(d, l, r), r => d \in mem.mint
      PROVE  RouterTypes' /\ \A b \in Burns : Recorded(b)'
  <2>1. /\ l \in strategies[d]
        /\ strategies' = [strategies EXCEPT ![d] = @ \ {l}]
    BY <1>7 DEF StrategyAnswered
  <2>2. /\ strategies' \in [Burns -> SUBSET Levels]
        /\ \A b \in Burns : b # d => strategies'[b] = strategies[b]
        /\ \A k \in strategies'[d] : k \in strategies[d]
    BY <2>1
  <2>3. PICK e \in Records :
          /\ releases' = [releases EXCEPT ![d] = e]
          /\ e.level <= disk'.dep[d]
          /\ e.method = "strategy" => d \in mem'.mint
    <3>1. CASE releases[d] = NoRecord
      <4>1. PICK s \in {"strategy", "pending"} :
              releases' = [releases EXCEPT ![d] = Record(l, s)] /\ (s = "strategy" => r)
        BY <1>7, <3>1 DEF StrategyAnswered
      <4>2. Record(l, s) \in Records /\ Record(l, s).level = l /\ Record(l, s).method = s
        BY DEF Record, Records, Methods
      <4> QED
        BY <1>1, <1>3, <1>7, <2>1, <4>1, <4>2
    <3>2. CASE releases[d] # NoRecord
      <4>1. releases[d] \in Records
        BY <1>2, <3>2
      <4>2. PICK s \in Methods :
              /\ releases' = [releases EXCEPT ![d] = [releases[d] EXCEPT !.method = s]]
              /\ s = "strategy" => r \/ s = releases[d].method
        <5>1. CASE r
          BY <1>7, <3>2, <5>1 DEF StrategyAnswered, Methods
        <5>2. CASE ~r
          <6>1. releases[d].method \in Methods
            BY <4>1 DEF Records
          <6> QED
            BY <1>7, <3>2, <5>2, <6>1 DEF StrategyAnswered
        <5> QED
          BY <5>1, <5>2
      <4>3. /\ [releases[d] EXCEPT !.method = s] \in Records
            /\ [releases[d] EXCEPT !.method = s].level = releases[d].level
            /\ [releases[d] EXCEPT !.method = s].method = s
        BY <4>1 DEF Records
      <4> QED
        BY <1>1, <1>3, <1>7, <3>2, <4>2, <4>3
    <3> QED
      BY <3>1, <3>2
  <2>4. /\ releases' \in [Burns -> Records \cup {NoRecord}]
        /\ \A b \in Burns : b # d => releases'[b] = releases[b]
        /\ releases'[d] = e
    BY <2>3
  <2> QED
    BY <1>4, <2>2, <2>3, <2>4
<1> QED
  BY <1>5, <1>6, <1>7 DEF Informed

-----------------------------------------------------------------------------
(* The callers' steps.                                                     *)

(* A caller goes from one await to the next: all that has to be looked at  *)
(* is what it puts, what it lets go of, and what it tells the router.      *)
LEMMA CallerSteps ==
    ASSUME LaneInv, NEW c \in Callers, NEW w \in Resting \cup Handling, NEW m \in Versions,
           Goes(c, w),
           w.at \in {"idle", "saving"} => w.todo = {},
           w.at = "minted" => w.event[1] \in mem'.mint,
           w.at = "put" => w.event[2] <= m.dep[w.event[1]],
           Tells(m, mem), m.cursor \in {mem.cursor, cursor},
           UNCHANGED <<cursor, chainVars, older>>, cutOff \subseteq cutOff', known' = mem'.dep,
           \A b \in Burns : <<b, 3>> \in check[c].todo =>
             <<b, 3>> \in w.todo \/ Kept(b) \/ (w.at = "put" /\ w.event = <<b, 3>>) \/ b \in cutOff',
           \A b \in Burns : mem'.dep[b] = 3 =>
             mem.dep[b] = 3 \/ (w.at = "put" /\ w.event = <<b, 3>>) \/ b \in cutOff',
           check[c].at \in Waiting => Settle(c),
           w.at \in Waiting => Put(c, m),
           \/ Put(c, m) /\ w.at \in Waiting
           \/ PutRejected(m) \/ Settle(c) \/ UNCHANGED storeVars,
           Informed
    PROVE  LaneInv'
<1>1. /\ check' \in [Callers -> Resting \cup Handling]
      /\ check'[c] = w /\ \A k \in Callers : k # c => check'[k] = check[k]
  BY DEF LaneInv, Types, CheckTypes, Goes
<1>2. CallerMoves(c, m)
  <2>1. /\ check'[c].at = w.at /\ check'[c].todo = w.todo
        /\ Event(c)' = w.event[1] /\ Level(c)' = w.event[2]
        /\ \A b \in Burns : Putting(c, b)' <=> w.at = "put" /\ w.event = <<b, 3>>
    BY <1>1 DEF Event, Level, Putting
  <2>2. \A b \in Burns : Lossless(c, b)
    BY <2>1 DEF Lossless
  <2> QED
    BY <1>1, <2>1, <2>2 DEF CallerMoves
<1>3. c \in Writers /\ (check'[c].at \in Waiting <=> w.at \in Waiting)
  BY <1>1 DEF Writers
<1>4. /\ StoreTypes' /\ VersionInv' /\ WriteInv' /\ LedgerInv'
      /\ Tells(mem', mem) /\ Tells(disk', disk)
  BY <1>2, <1>3, CallerKeeps DEF LaneInv
<1>5. ChainTypes' /\ CheckTypes'
  BY <1>1 DEF LaneInv, Types, ChainTypes, CheckTypes, chainVars
<1>6. RouterTypes' /\ \A b \in Burns : Recorded(b)'
  BY <1>4, RouterKeeps DEF LaneInv, Types, StoreTypes, RecordInv
<1>7. ASSUME NEW k \in Callers, check'[k].at = "minted"
      PROVE  Event(k)' \in mem'.mint
  <2>1. CASE k = c
    BY <1>1, <1>7, <2>1 DEF Event
  <2>2. CASE k # c
    BY <1>1, <1>4, <1>7, <2>2 DEF Event, LaneInv, RecordInv, Tells
  <2> QED
    BY <2>1, <2>2
<1> QED
  BY <1>4, <1>5, <1>6, <1>7 DEF LaneInv, Types, RecordInv

(* What is saved is all that memory tells, and the cursor.                 *)
LEMMA PersistKeeps ==
    ASSUME LaneInv, NEW c \in Callers, check[c].at \notin Waiting, check[c].todo = {},
           UNCHANGED cursor, PersistCursor(c),
           UNCHANGED <<paulVars, routerVars, chainVars, known, boundVars>>
    PROVE  LaneInv'
<1> DEFINE m == [mem EXCEPT !.cursor = cursor']
           w == [at |-> "saving", todo |-> {}]
<1>1. /\ m \in Versions /\ m.dep = mem.dep /\ m.mint = mem.mint /\ m.cursor = cursor
      /\ mem \in Versions /\ Tells(mem, mem)
  BY TellsOrder DEF LaneInv, Types, StoreTypes, ChainTypes, Versions
<1>2. Tells(m, mem)
  BY <1>1 DEF Tells
<1>3. /\ w \in Resting \cup Handling /\ w.at = "saving" /\ w.todo = {}
      /\ Idle \in Resting \cup Handling /\ Idle.at = "idle" /\ Idle.todo = {}
  BY DEF Resting, Idle
<1>4. /\ UNCHANGED <<cursor, chainVars, older>> /\ cutOff \subseteq cutOff'
      /\ Informed
      /\ known = mem.dep /\ known' = known
  BY DEF boundVars, routerVars, Informed, LaneInv, Types, StoreTypes
<1>5. CASE Put(c, m) /\ Goes(c, w)
  <2>1. mem'.dep = mem.dep
    BY <1>1, <1>5 DEF Put
  <2> HIDE DEF m, w
  <2> QED
    BY <1>1, <1>2, <1>3, <1>4, <1>5, <2>1, CallerSteps DEF Waiting
<1>6. CASE (PutRejected(m) \/ UNCHANGED storeVars) /\ Goes(c, Idle)
  <2>1. mem'.dep = mem.dep
    BY <1>1, <1>6 DEF PutRejected, storeVars
  <2> HIDE DEF m, w
  <2> QED
    BY <1>1, <1>2, <1>3, <1>4, <1>6, <2>1, CallerSteps DEF Waiting
<1> QED
  BY <1>5, <1>6 DEF PersistCursor

(* What the types say of a caller.                                         *)
LEMMA CallerTyped ==
    ASSUME LaneInv, NEW c \in Callers
    PROVE  /\ check[c] \in Resting \cup Handling
           /\ check[c].todo \subseteq Events
           /\ check[c].at \in {"put", "routed", "minted"} =>
                /\ check[c].event \in Events /\ check[c].event = <<Event(c), Level(c)>>
                /\ Event(c) \in Burns /\ Level(c) \in Levels
           /\ Back(c) \in Resting /\ Back(c).at = "handing" /\ Back(c).todo = check[c].todo
           /\ mem \in Versions /\ Tells(mem, mem) /\ known = mem.dep
<1>1. check[c] \in Resting \cup Handling
  BY DEF LaneInv, Types, CheckTypes
<1>2. check[c].todo \subseteq Events
  BY <1>1 DEF Resting, Handling
<1>3. ASSUME check[c].at \in {"put", "routed", "minted"}
      PROVE  /\ check[c].event \in Events /\ check[c].event = <<Event(c), Level(c)>>
             /\ Event(c) \in Burns /\ Level(c) \in Levels
  <2>1. check[c].event \in Events
    BY <1>1, <1>3 DEF Resting, Handling
  <2> QED
    BY <2>1 DEF Events, Event, Level
<1>4. Back(c) \in Resting /\ Back(c).at = "handing" /\ Back(c).todo = check[c].todo
  BY <1>2 DEF Back, Resting
<1>5. mem \in Versions /\ Tells(mem, mem) /\ known = mem.dep
  BY TellsOrder DEF LaneInv, Types, StoreTypes
<1> QED
  BY <1>1, <1>2, <1>3, <1>4, <1>5

(* A skipped, a failed and a finished poll persist the cursor.             *)
LEMMA PersistsKeep ==
    ASSUME LaneInv, NEW c \in Callers, CheckSkips(c) \/ PollFails(c) \/ BatchEnds(c)
    PROVE  LaneInv'
<1>1. /\ check[c].at \notin Waiting /\ check[c].todo = {}
      /\ UNCHANGED cursor /\ PersistCursor(c)
      /\ UNCHANGED <<paulVars, routerVars, chainVars, known, boundVars>>
  BY DEF CheckSkips, PollFails, BatchEnds, PollBegins, Idle, Waiting
<1> QED
  BY <1>1, PersistKeeps

(* An event with nothing new to say: what it says is in memory, and kept.  *)
LEMMA EventKnownKeeps ==
    ASSUME LaneInv, NEW c \in Callers, NEW d \in Burns, NEW l \in Levels, EventKnown(c, d, l)
    PROVE  LaneInv'
<1> DEFINE w == [check[c] EXCEPT !.todo = @ \ {<<d, l>>}]
<1>1. /\ check[c] \in Resting /\ check[c].at = "handing"
      /\ <<d, l>> \in check[c].todo /\ l <= known[d]
      /\ check' = [check EXCEPT ![c].todo = @ \ {<<d, l>>}]
      /\ mem \in Versions /\ Tells(mem, mem) /\ known = mem.dep
  BY CallerTyped DEF EventKnown, Hands, Resting, Handling
<1>2. /\ w \in Resting /\ w.at = "handing" /\ w.todo = check[c].todo \ {<<d, l>>}
      /\ Goes(c, w)
  BY <1>1 DEF Resting, Goes
<1>3. /\ UNCHANGED <<cursor, chainVars, older>> /\ cutOff \subseteq cutOff'
      /\ UNCHANGED storeVars /\ Informed /\ known' = mem'.dep /\ mem' = mem
  BY <1>1 DEF EventKnown, boundVars, routerVars, storeVars, Informed
<1>4. ASSUME NEW b \in Burns, <<b, 3>> \in check[c].todo
      PROVE  <<b, 3>> \in w.todo \/ Kept(b)
  <2>1. CASE b = d /\ l = 3
    <3>1. mem.dep[d] = 3
      BY <1>1, <2>1 DEF Versions
    <3> QED
      BY <2>1, <3>1 DEF LaneInv, LedgerInv
  <2> QED
    BY <1>2, <1>4, <2>1
<1> HIDE DEF w
<1> QED
  BY <1>1, <1>2, <1>3, <1>4, CallerSteps DEF Waiting

(* An event is put, and waited for, or its batch is cut off.               *)
LEMMA EventPutKeeps ==
    ASSUME LaneInv, NEW c \in Callers, NEW d \in Burns, NEW l \in Levels, EventPut(c, d, l)
    PROVE  LaneInv'
<1> DEFINE w == [at |-> "put", todo |-> check[c].todo \ {<<d, l>>}, event |-> <<d, l>>]
           m == [mem EXCEPT !.dep[d] = l]
<1>1. /\ check[c].at = "handing" /\ check[c].todo \subseteq Events
      /\ <<d, l>> \in check[c].todo /\ l > known[d]
      /\ mem \in Versions /\ Tells(mem, mem) /\ known = mem.dep
  BY CallerTyped DEF EventPut, Hands
<1>2. /\ m \in Versions /\ m.mint = mem.mint /\ m.cursor = mem.cursor
      /\ m.dep = [known EXCEPT ![d] = l] /\ m.dep[d] = l
      /\ \A b \in Burns : b # d => m.dep[b] = mem.dep[b]
  BY <1>1 DEF Versions, Levels
<1>3. Tells(m, mem)
  <2>1. \A b \in Burns : mem.dep[b] \in Nat
    BY <1>1 DEF Versions
  <2>2. mem.dep[d] <= m.dep[d]
    BY <1>1, <1>2, <2>1 DEF Levels
  <2> HIDE DEF m
  <2> QED
    BY <1>2, <2>1, <2>2 DEF Tells
<1>4. /\ w \in Handling /\ w.at = "put" /\ w.todo = check[c].todo \ {<<d, l>>}
      /\ w.event = <<d, l>> /\ w.event[1] = d /\ w.event[2] = l
      /\ Idle \in Resting /\ Idle.at = "idle" /\ Idle.todo = {}
  BY <1>1 DEF Resting, Handling, Idle, Events
<1>5. /\ UNCHANGED <<cursor, chainVars, older>> /\ known' = m.dep
      /\ l \in Nat /\ Informed
      /\ \/ Put(c, m) /\ Goes(c, w) /\ cutOff' = cutOff
         \/ PutRejected(m) /\ Goes(c, Idle) /\ cutOff' = cutOff \cup Pending(c)
  BY <1>2 DEF EventPut, routerVars, Informed, Levels
<1>6. ASSUME NEW b \in Burns
      PROVE  /\ <<b, 3>> \in check[c].todo => <<b, 3>> \in w.todo \/ w.event = <<b, 3>>
             /\ m.dep[b] = 3 => mem.dep[b] = 3 \/ w.event = <<b, 3>>
             /\ <<b, 3>> \in check[c].todo => b \in Pending(c)
  <2>1. <<b, 3>> \in check[c].todo => <<b, 3>>[1] \in Pending(c)
    BY DEF Pending
  <2> QED
    BY <1>2, <1>4, <2>1
<1>7. d \in Pending(c)
  <2>1. <<d, l>>[1] \in Pending(c)
    BY <1>1 DEF Pending
  <2> QED
    BY <2>1
<1>8. CASE Put(c, m) /\ Goes(c, w) /\ cutOff' = cutOff
  <2>1. mem' = m
    BY <1>8 DEF Put
  <2>2. w.event[2] <= m.dep[w.event[1]]
    BY <1>2, <1>4, <1>5
  <2>3. /\ check[c].at \notin Waiting /\ w.at \in Waiting
        /\ w.at \notin {"idle", "saving", "minted"}
    BY <1>1, <1>4 DEF Waiting
  <2> HIDE DEF w, m
  <2>4. /\ w \in Resting \cup Handling /\ known' = mem'.dep /\ cutOff \subseteq cutOff'
        /\ m.cursor \in {mem.cursor, cursor}
        /\ UNCHANGED <<cursor, chainVars, older>>
        /\ m \in Versions /\ Informed /\ Put(c, m) /\ Goes(c, w)
    BY <1>2, <1>4, <1>5, <1>8, <2>1
  <2>5. \A b \in Burns : mem'.dep[b] = 3 =>
          mem.dep[b] = 3 \/ (w.at = "put" /\ w.event = <<b, 3>>) \/ b \in cutOff'
    BY <1>4, <1>6, <2>1
  <2>6. \A b \in Burns : <<b, 3>> \in check[c].todo =>
          <<b, 3>> \in w.todo \/ Kept(b) \/ (w.at = "put" /\ w.event = <<b, 3>>) \/ b \in cutOff'
    BY <1>4, <1>6
  <2> QED
    BY <1>3, <2>2, <2>3, <2>4, <2>5, <2>6, CallerSteps
<1>9. CASE PutRejected(m) /\ Goes(c, Idle) /\ cutOff' = cutOff \cup Pending(c)
  <2>1. mem' = m
    BY <1>9 DEF PutRejected
  <2> HIDE DEF w, m
  <2>2. \A b \in Burns : mem'.dep[b] = 3 => mem.dep[b] = 3 \/ b \in cutOff'
    BY <1>2, <1>7, <1>9, <2>1
  <2> QED
    BY <1>1, <1>2, <1>3, <1>4, <1>5, <1>6, <1>9, <2>1, <2>2, CallerSteps DEF Waiting
<1> QED
  BY <1>5, <1>8, <1>9

(* A caller that puts nothing now: its own write is done, or it had none.  *)
LEMMA QuietSteps ==
    ASSUME LaneInv, NEW c \in Callers, NEW w \in Resting \cup Handling,
           Goes(c, w), w.at \notin Waiting,
           w.at = "idle" => w.todo = {}, check[c].todo \subseteq w.todo,
           UNCHANGED <<cursor, chainVars, known, boundVars>>,
           Settle(c) \/ (check[c].at \notin Waiting /\ UNCHANGED storeVars),
           Informed
    PROVE  LaneInv'
<1>1. mem \in Versions /\ Tells(mem, mem) /\ known = mem.dep /\ mem' = mem
  BY CallerTyped DEF Settle, storeVars
<1>2. /\ UNCHANGED <<cursor, chainVars, older>> /\ cutOff \subseteq cutOff' /\ known' = mem'.dep
      /\ w.at \notin {"put", "saving", "minted"}
      /\ mem.cursor \in {mem.cursor, cursor}
  BY <1>1 DEF boundVars, Waiting
<1>3. /\ \A b \in Burns : <<b, 3>> \in check[c].todo => <<b, 3>> \in w.todo
      /\ \A b \in Burns : mem'.dep[b] = 3 => mem.dep[b] = 3
  BY <1>1
<1> QED
  BY <1>1, <1>2, <1>3, CallerSteps

(* The put is done, and what the router is told is on disk.                *)
LEMMA EventRoutedKeeps ==
    ASSUME LaneInv, NEW c \in Callers, EventRouted(c)
    PROVE  LaneInv'
<1>1. /\ check[c].at = "put" /\ Settle(c)
      /\ UNCHANGED <<cursor, chainVars, known, boundVars>>
  BY DEF EventRouted
<1>2. Level(c) <= disk'.dep[Event(c)]
  <2>1. Len(saveChain) > 0 /\ Len(saveChain) \in Nat
        /\ saveChain[1].by = c /\ disk' = saveChain[1].state
    BY <1>1, Queue, TellsOrder, CallerTyped DEF LaneInv, Types, Writers
  <2>2. 1 \in 1 .. Len(saveChain)
    BY <2>1
  <2> QED
    BY <1>1, <2>1, <2>2 DEF LaneInv, WriteInv
<1>3. CASE Level(c) = 1
  <2>1. Goes(c, Back(c)) /\ Informed
    BY <1>3 DEF EventRouted, Informed, routerVars
  <2>2. Back(c) \in Resting /\ Back(c).at = "handing" /\ Back(c).todo = check[c].todo
    BY CallerTyped
  <2>3. Back(c).at \notin Waiting /\ Back(c).at # "idle"
    BY <2>2 DEF Waiting
  <2> QED
    BY <1>1, <2>1, <2>2, <2>3, QuietSteps
<1>4. CASE Level(c) # 1
  <2> DEFINE w == [check[c] EXCEPT !.at = "routed"]
  <2>1. Goes(c, w) /\ OnBurnDetected(Event(c), Level(c))
    BY <1>4 DEF EventRouted
  <2>2. Event(c) \in Burns /\ Level(c) \in Levels /\ check[c] \in Handling
    BY <1>1, CallerTyped DEF Resting, Handling
  <2>3. Informed
    BY <1>2, <2>1, <2>2 DEF Informed
  <2>4. w \in Handling /\ w.at = "routed" /\ w.todo = check[c].todo
    BY <2>2 DEF Handling
  <2>5. w.at \notin Waiting /\ w.at # "idle"
    BY <2>4 DEF Waiting
  <2> HIDE DEF w
  <2> QED
    BY <1>1, <2>1, <2>3, <2>4, <2>5, QuietSteps
<1> QED
  BY <1>3, <1>4

(* Whatever the strategy answers, the router is told what memory holds.    *)
LEMMA ReturnsKeep ==
    ASSUME LaneInv, NEW c \in Callers,
           RouterReturns(c) \/ StrategyReturns(c) \/ StrategyMinted(c)
    PROVE  LaneInv'
<1>1. /\ check[c].at \in {"put", "routed", "minted"}
      /\ UNCHANGED <<cursor, chainVars, known, boundVars>>
      /\ Goes(c, Back(c))
  BY DEF RouterReturns, StrategyReturns, StrategyRuns, StrategyMinted
<1>2. /\ Event(c) \in Burns /\ Level(c) \in Levels
      /\ Back(c) \in Resting /\ Back(c).at = "handing" /\ Back(c).todo = check[c].todo
  BY <1>1, CallerTyped
<1>3. Back(c).at \notin Waiting /\ Back(c).at # "idle"
  BY <1>2 DEF Waiting
<1>4. CASE RouterReturns(c)
  <2>1. UNCHANGED storeVars /\ check[c].at \notin Waiting /\ Informed
    BY <1>4 DEF RouterReturns, Informed, routerVars, Waiting
  <2> QED
    BY <1>1, <1>2, <1>3, <2>1, QuietSteps
<1>5. CASE StrategyReturns(c)
  <2>1. UNCHANGED storeVars /\ check[c].at \notin Waiting
    BY <1>5 DEF StrategyReturns, StrategyRuns, Waiting
  <2>2. StrategyAnswered(Event(c), Level(c), Event(c) \in mem.mint)
    BY <1>5 DEF StrategyReturns
  <2>3. PICK r \in BOOLEAN :
          StrategyAnswered(Event(c), Level(c), r) /\ (r => Event(c) \in mem.mint)
    <3>1. CASE Event(c) \in mem.mint
      BY <2>2, <3>1 DEF StrategyAnswered
    <3>2. CASE Event(c) \notin mem.mint
      BY <2>2, <3>2 DEF StrategyAnswered
    <3> QED
      BY <3>1, <3>2
  <2>4. Informed
    BY <1>2, <2>3 DEF Informed
  <2> QED
    BY <1>1, <1>2, <1>3, <2>1, <2>4, QuietSteps
<1>6. CASE StrategyMinted(c)
  <2>1. Settle(c) /\ StrategyAnswered(Event(c), Level(c), TRUE) /\ Event(c) \in mem.mint
    BY <1>6 DEF StrategyMinted, LaneInv, RecordInv
  <2>2. Informed
    BY <1>2, <2>1 DEF Informed
  <2> QED
    BY <1>1, <1>2, <1>3, <2>1, <2>2, QuietSteps
<1> QED
  BY <1>4, <1>5, <1>6

LEMMA SaveEndsKeeps ==
    ASSUME LaneInv, NEW c \in Callers, SaveEnds(c)
    PROVE  LaneInv'
<1>1. /\ check[c].at = "saving" /\ check[c].todo = {}
      /\ Settle(c) /\ Goes(c, Idle) /\ Informed
      /\ UNCHANGED <<cursor, chainVars, known, boundVars>>
  BY DEF SaveEnds, LaneInv, Types, CheckTypes, Informed, routerVars
<1>2. Idle \in Resting /\ Idle.at = "idle" /\ Idle.todo = {} /\ Idle.at \notin Waiting
  BY DEF Idle, Resting, Waiting
<1> QED
  BY <1>1, <1>2, QuietSteps

(* What lands in memory is a receipt more.                                 *)
LEMMA LandsTells ==
    ASSUME LaneInv, NEW d \in Burns
    PROVE  /\ Lands(d) \in Versions /\ Tells(Lands(d), mem)
           /\ Lands(d).dep = mem.dep /\ Lands(d).cursor = mem.cursor /\ d \in Lands(d).mint
<1>1. mem \in Versions
  BY DEF LaneInv, Types, StoreTypes
<1> QED
  BY <1>1 DEF Lands, Versions, Tells

LEMMA StrategyMintsKeeps ==
    ASSUME LaneInv, NEW c \in Callers, StrategyMints(c)
    PROVE  LaneInv'
<1> DEFINE w == [check[c] EXCEPT !.at = "minted"]
           m == Lands(Event(c))
<1>1. /\ check[c].at = "routed" /\ Put(c, m) /\ Goes(c, w)
      /\ UNCHANGED <<cursor, chainVars, known, boundVars>> /\ Informed
  BY DEF StrategyMints, StrategyRuns, Informed, routerVars
<1>2. Event(c) \in Burns /\ check[c] \in Handling /\ known = mem.dep
  BY <1>1, CallerTyped DEF Resting, Handling
<1>3. w \in Handling /\ w.at = "minted" /\ w.todo = check[c].todo /\ w.event[1] = Event(c)
  BY <1>2 DEF Handling, Event
<1>4. /\ m \in Versions /\ Tells(m, mem) /\ m.dep = mem.dep /\ m.cursor = mem.cursor
      /\ Event(c) \in m.mint /\ mem' = m
  BY <1>1, <1>2, LandsTells DEF Put
<1>5. /\ w.at \in Waiting /\ w.at \notin {"put", "idle", "saving"} /\ check[c].at \notin Waiting
      /\ w.event[1] \in mem'.mint
  BY <1>1, <1>3, <1>4 DEF Waiting
<1>6. /\ UNCHANGED <<cursor, chainVars, older>> /\ cutOff \subseteq cutOff' /\ known' = mem'.dep
  BY <1>1, <1>2, <1>4 DEF boundVars
<1> HIDE DEF w, m
<1>7. /\ m.cursor \in {mem.cursor, cursor}
      /\ \A b \in Burns : <<b, 3>> \in check[c].todo => <<b, 3>> \in w.todo
      /\ \A b \in Burns : mem'.dep[b] = 3 => mem.dep[b] = 3
  BY <1>3, <1>4
<1> QED
  BY <1>1, <1>3, <1>4, <1>5, <1>6, <1>7, CallerSteps

(* The money tick beside them.                                             *)
LEMMA TickKeeps ==
    ASSUME LaneInv, TickSettles \/ \E d \in Burns : TickMints(d)
    PROVE  LaneInv'
<1>1. PICK m \in Versions :
        /\ Tells(m, mem) /\ m.cursor = mem.cursor /\ m.dep = mem.dep
        /\ Put("tick", m) \/ Settle("tick")
  <2>1. mem \in Versions /\ Tells(mem, mem)
    BY TellsOrder DEF LaneInv, Types, StoreTypes
  <2> QED
    BY <2>1, LandsTells DEF TickMints, TickSettles
<1>2. /\ UNCHANGED <<chainVars, cursor, check, boundVars, releases, strategies>>
      /\ UNCHANGED known
  BY DEF TickMints, TickSettles, checkVars, routerVars
<1>3. "tick" \in Writers /\ "tick" \notin Callers
  BY LaneAssumption DEF Writers
<1>4. mem'.dep = mem.dep /\ known' = mem'.dep /\ Informed
  BY <1>1, <1>2 DEF Put, Settle, LaneInv, Types, StoreTypes, Informed
<1>5. CallerMoves("tick", m)
  BY <1>2, <1>3, <1>4 DEF CallerMoves, boundVars
<1>6. /\ StoreTypes' /\ VersionInv' /\ WriteInv' /\ LedgerInv'
      /\ Tells(mem', mem) /\ Tells(disk', disk)
  BY <1>1, <1>2, <1>3, <1>5, CallerKeeps DEF LaneInv
<1>7. ChainTypes' /\ CheckTypes'
  BY <1>2 DEF LaneInv, Types, ChainTypes, CheckTypes, chainVars
<1>8. RouterTypes' /\ \A b \in Burns : Recorded(b)'
  BY <1>4, <1>6, RouterKeeps DEF LaneInv, Types, StoreTypes, RecordInv
<1>9. \A c \in Callers : check'[c].at = "minted" => Event(c)' \in mem'.mint
  BY <1>2, <1>6 DEF LaneInv, RecordInv, Tells, Event
<1> QED
  BY <1>6, <1>7, <1>8, <1>9 DEF LaneInv, Types, RecordInv

-----------------------------------------------------------------------------
(* The steps of several: the poll, the chain, a failing write, a crash.    *)

(* What the cursor moves over is handed to the batch as finalized.         *)
LEMMA PollListsKeeps ==
    ASSUME LaneInv, NEW c \in Callers, PollLists(c)
    PROVE  LaneInv'
<1> DEFINE todo == {<<d, ConfidenceFor(Confirmations(d))>> : d \in Listed}
           w == [at |-> "handing", todo |-> todo]
<1>1. /\ check[c].at = "idle" /\ check[c].todo = {} /\ cursor' = LastBlock /\ Goes(c, w)
      /\ UNCHANGED <<paulVars, routerVars, storeVars, chainVars, known, boundVars>>
  BY DEF PollLists, PollBegins, Idle
<1>2. tip \in Nat /\ Finality \in Nat \ {0} /\ Finality <= tip /\ cursor \in Nat
      /\ \A d \in Burns : block[d] \in Nat
  BY LaneAssumption DEF LaneInv, Types, ChainTypes
<1>3. LastBlock \in Nat /\ LastBlock <= tip
  BY <1>2 DEF LastBlock
<1>4. todo \subseteq Events
  <2>1. \A n \in Nat : ConfidenceFor(n) \in Levels
    BY DEF ConfidenceFor, Levels
  <2>2. ASSUME NEW d \in Burns PROVE Confirmations(d) \in Nat
    <3>1. InChain(d) => tip - block[d] + 1 \in Nat
      BY <1>2 DEF InChain
    <3> QED
      BY <3>1 DEF Confirmations
  <2> QED
    BY <2>1, <2>2 DEF Listed, Events
<1>5. w \in Resting /\ w.at = "handing" /\ w.todo = todo
  BY <1>4 DEF Resting
<1>6. ASSUME NEW d \in Burns, InChain(d), block[d] > cursor, block[d] <= LastBlock
      PROVE  <<d, 3>> \in todo
  <2>1. d \in Listed
    BY <1>6 DEF Listed
  <2>2. Confirmations(d) \in Nat /\ Confirmations(d) >= Finality /\ Confirmations(d) # 0
    BY <1>2, <1>6 DEF Confirmations, InChain, LastBlock
  <2>3. ConfidenceFor(Confirmations(d)) = 3
    BY <2>2 DEF ConfidenceFor
  <2> QED
    BY <2>1, <2>3
<1> HIDE DEF w, todo
<1>7. /\ check' \in [Callers -> Resting \cup Handling]
      /\ check'[c] = w /\ \A k \in Callers : k # c => check'[k] = check[k]
  BY <1>1, <1>5 DEF LaneInv, Types, CheckTypes, Goes
<1>8. Types'
  BY <1>1, <1>3, <1>5, <1>7
  DEF LaneInv, Types, StoreTypes, ChainTypes, CheckTypes, RouterTypes, storeVars, chainVars, routerVars
<1>9. VersionInv'
  BY <1>1 DEF LaneInv, VersionInv, storeVars
<1>10. WriteInv'
  <2>1. \A i \in 1 .. Len(saveChain) : saveChain[i].by # c
    BY <1>1 DEF LaneInv, WriteInv, Waiting
  <2> QED
    BY <1>1, <1>7, <2>1 DEF LaneInv, WriteInv, storeVars, Event, Level
<1>11. ASSUME NEW d \in Burns
       PROVE  /\ Kept(d) => Kept(d)'
              /\ Held(d) => Held(d)'
  <2>1. \A k \in Callers : Putting(k, d) => Putting(k, d)'
    BY <1>1, <1>7 DEF Putting
  <2>2. \A k \in Callers : <<d, 3>> \in check[k].todo => <<d, 3>> \in check'[k].todo
    BY <1>1, <1>7
  <2> QED
    BY <1>1, <2>1, <2>2 DEF Kept, Held, boundVars, storeVars
<1>12. Passed(cursor)'
  <2>1. Passed(cursor)
    BY DEF LaneInv, LedgerInv
  <2>2. ASSUME NEW d \in Burns, InChain(d), block[d] <= LastBlock
        PROVE  Held(d)'
    <3>1. CASE block[d] <= cursor
      BY <1>11, <2>1, <2>2, <3>1 DEF Passed
    <3>2. CASE block[d] > cursor
      BY <1>5, <1>6, <1>7, <2>2, <3>2 DEF Held
    <3> QED
      BY <1>2, <3>1, <3>2
  <2> QED
    BY <1>1, <1>3, <2>2 DEF Passed, chainVars, InChain
<1>13. LedgerInv'
  <2>1. tip' = tip /\ block' = block /\ mem' = mem /\ SavedCursors' = SavedCursors
    BY <1>1 DEF chainVars, storeVars, SavedCursors
  <2>2. tip' \in Nat /\ tip <= tip'
    BY <1>2, <2>1
  <2>3. \A d \in Burns : InChain(d)' /\ block'[d] <= tip => InChain(d) /\ block[d] = block'[d]
    BY <2>1 DEF InChain
  <2>4. \A d \in Burns : mem'.dep[d] = 3 => Kept(d)'
    BY <1>11, <2>1 DEF LaneInv, LedgerInv
  <2> QED
    BY <1>11, <1>12, <2>1, <2>2, <2>3, <2>4, LedgerKeeps DEF LaneInv
<1>14. RecordInv'
  <2>1. \A d \in Burns : Recorded(d)'
    BY <1>1 DEF LaneInv, RecordInv, Recorded, storeVars, routerVars
  <2>2. \A k \in Callers : check'[k].at = "minted" => Event(k)' \in mem'.mint
    BY <1>1, <1>5, <1>7 DEF LaneInv, RecordInv, storeVars, Event
  <2> QED
    BY <2>1, <2>2 DEF RecordInv
<1> QED
  BY <1>8, <1>9, <1>10, <1>13, <1>14 DEF LaneInv

(* A deposit is sent, or a block mined: above every cursor.                *)
LEMMA ChainKeeps ==
    ASSUME LaneInv, Mine \/ \E d \in Burns : Deposit(d)
    PROVE  LaneInv'
<1>1. UNCHANGED <<paulVars, routerVars, storeVars, checkVars, boundVars>>
  BY DEF Mine, Deposit
<1>2. /\ tip \in Nat /\ MaxTip \in Nat /\ tip <= MaxTip /\ block \in [Burns -> Nat]
      /\ \A d \in Burns : block[d] <= tip \/ block[d] = NotSent
      /\ Finality \in Nat /\ Finality <= tip
  BY LaneAssumption DEF LaneInv, Types, ChainTypes
<1> DEFINE Grows ==
     /\ tip' \in Nat /\ tip <= tip' /\ tip' <= MaxTip
     /\ block' \in [Burns -> Nat]
     /\ \A d \in Burns : block'[d] <= tip' \/ block'[d] = NotSent
     /\ \A d \in Burns : InChain(d)' /\ block'[d] <= tip => InChain(d) /\ block[d] = block'[d]
<1>3. Grows
  <2>1. CASE Mine
    <3>1. PICK S \in SUBSET {d \in Burns : block[d] = 0} :
            block' = [d \in Burns |-> IF d \in S THEN tip + 1 ELSE block[d]]
      BY <2>1 DEF Mine
    <3>2. tip' = tip + 1 /\ tip < MaxTip
      BY <2>1 DEF Mine
    <3>3. \A d \in Burns : block'[d] = tip + 1 \/ block'[d] = block[d]
      BY <3>1
    <3>4. block' \in [Burns -> Nat]
      BY <1>2, <3>1
    <3>5. \A d \in Burns : block[d] \in Nat /\ block'[d] \in Nat
      BY <1>2, <3>4
    <3> QED
      BY <1>2, <3>2, <3>3, <3>4, <3>5 DEF InChain
  <2>2. ASSUME NEW d \in Burns, Deposit(d)
        PROVE  Grows
    <3>1. tip' = tip /\ block' = [block EXCEPT ![d] = 0]
      BY <2>2 DEF Deposit, chainVars
    <3>2. /\ block' \in [Burns -> Nat] /\ block'[d] = 0
          /\ \A b \in Burns : b # d => block'[b] = block[b]
      BY <1>2, <3>1
    <3> QED
      BY <1>2, <3>1, <3>2 DEF InChain
  <2> QED
    BY <2>1, <2>2
<1>4. Types'
  BY <1>1, <1>2, <1>3
  DEF LaneInv, Types, StoreTypes, ChainTypes, CheckTypes, RouterTypes, storeVars, checkVars, routerVars
<1>5. VersionInv' /\ WriteInv' /\ RecordInv'
  BY <1>1 DEF LaneInv, VersionInv, WriteInv, RecordInv, Recorded, storeVars, checkVars, routerVars,
              Event, Level
<1>6. ASSUME NEW d \in Burns
      PROVE  (Kept(d)' <=> Kept(d)) /\ (Held(d)' <=> Held(d))
  BY <1>1 DEF Kept, Held, Putting, storeVars, checkVars, boundVars
<1>7. cursor' = cursor /\ mem' = mem /\ SavedCursors' = SavedCursors
  BY <1>1 DEF checkVars, storeVars, SavedCursors
<1>8. Passed(cursor)'
  <2>1. Passed(cursor) /\ cursor \in Nat
    BY DEF LaneInv, LedgerInv, Types, ChainTypes
  <2>2. cursor <= tip /\ cursor <= tip'
    BY <1>2, <1>3, <2>1 DEF Passed
  <2>3. ASSUME NEW d \in Burns, InChain(d)', block'[d] <= cursor
        PROVE  Held(d)'
    <3>1. block'[d] <= tip
      BY <1>2, <1>3, <2>1, <2>2, <2>3
    <3>2. InChain(d) /\ block[d] <= cursor
      BY <1>3, <2>3, <3>1
    <3> QED
      BY <1>6, <2>1, <3>2 DEF Passed
  <2> QED
    BY <1>7, <2>2, <2>3 DEF Passed
<1>9. LedgerInv'
  <2>1. \A d \in Burns : mem'.dep[d] = 3 => Kept(d)'
    BY <1>6, <1>7 DEF LaneInv, LedgerInv
  <2> QED
    BY <1>3, <1>6, <1>7, <1>8, <2>1, LedgerKeeps DEF LaneInv
<1> QED
  BY <1>4, <1>5, <1>9 DEF LaneInv

(* A failed write cuts off what its callers still had to put.              *)
LEMMA FaultKeeps ==
    ASSUME LaneInv, StoreFault
    PROVE  LaneInv'
<1>1. /\ WriteFails /\ mem' = mem /\ disk' = disk /\ saveChain' = <<>>
      /\ UNCHANGED <<chainVars, cursor, known, older>>
      /\ cutOff' = cutOff \cup UNION {Pending(c) : c \in {k \in Callers : check[k].at = "put"}}
      /\ check' = [c \in Callers |-> IF check[c].at \in {"put", "saving"} THEN Idle
                                     ELSE IF check[c].at = "minted" THEN Back(c)
                                     ELSE check[c]]
  BY DEF StoreFault, WriteFails
<1>2. ASSUME NEW c \in Callers
      PROVE  /\ check[c].at \in {"put", "saving"} => check'[c] = Idle
             /\ check[c].at = "minted" => check'[c] = Back(c)
             /\ check[c].at \notin {"put", "saving", "minted"} => check'[c] = check[c]
             /\ check'[c].at \notin Waiting
             /\ check'[c] \in Resting \cup Handling
             /\ check'[c].at \in {"idle", "saving"} => check'[c].todo = {}
             /\ check[c].at # "put" => check'[c].todo = check[c].todo
  <2>1. /\ Idle \in Resting /\ Idle.at = "idle" /\ Idle.todo = {}
        /\ Back(c) \in Resting /\ Back(c).at = "handing" /\ Back(c).todo = check[c].todo
        /\ check[c] \in Resting \cup Handling
    BY CallerTyped DEF Idle, Resting
  <2>2. check[c].at \in {"idle", "saving"} => check[c].todo = {}
    BY DEF LaneInv, Types, CheckTypes
  <2>3. /\ check[c].at \in {"put", "saving"} => check'[c] = Idle
        /\ check[c].at = "minted" => check'[c] = Back(c)
        /\ check[c].at \notin {"put", "saving", "minted"} => check'[c] = check[c]
    BY <1>1
  <2> QED
    BY <2>1, <2>2, <2>3 DEF Waiting
<1>3. CheckTypes'
  <2>1. check' = [c \in Callers |-> check'[c]]
    BY <1>1
  <2> QED
    BY <1>2, <2>1 DEF CheckTypes
<1>4. ASSUME NEW c \in Callers, check[c].at = "put"
      PROVE  /\ Event(c) \in cutOff'
             /\ \A d \in Burns : <<d, 3>> \in check[c].todo => d \in cutOff'
  <2>1. Pending(c) \subseteq cutOff'
    BY <1>1, <1>4
  <2>2. ASSUME NEW d \in Burns, <<d, 3>> \in check[c].todo PROVE d \in Pending(c)
    <3>1. <<d, 3>>[1] \in Pending(c)
      BY <2>2 DEF Pending
    <3> QED
      BY <3>1
  <2> QED
    BY <1>4, <2>1, <2>2 DEF Pending
<1>5. ASSUME NEW d \in Burns, Kept(d)
      PROVE  Kept(d)'
  <2>1. ASSUME NEW c \in Callers, Putting(c, d) PROVE d \in cutOff'
    BY <1>4, <2>1 DEF Putting, Event
  <2> QED
    BY <1>1, <1>5, <2>1 DEF Kept
<1>6. ASSUME NEW d \in Burns, Held(d)
      PROVE  Held(d)'
  <2>1. ASSUME NEW c \in Callers, <<d, 3>> \in check[c].todo
        PROVE  d \in cutOff' \/ <<d, 3>> \in check'[c].todo
    BY <1>2, <1>4, <2>1
  <2> QED
    BY <1>1, <1>5, <1>6, <2>1 DEF Held, Kept
<1>7. StoreTypes' /\ VersionInv'
  <2>1. mem \in Versions /\ Tells(mem, mem) /\ mem.dep = known /\ "tick" \in Writers
    BY TellsOrder DEF LaneInv, Types, StoreTypes, Writers
  <2> QED
    BY <1>1, <2>1, StoreKeeps DEF LaneInv, Types, StoreTypes
<1>8. WriteInv'
  BY <1>1 DEF WriteInv
<1>9. ChainTypes'
  BY <1>1 DEF LaneInv, Types, ChainTypes, chainVars
<1>10. LedgerInv'
  <2>1. tip' = tip /\ block' = block /\ cursor' = cursor /\ tip \in Nat
    BY <1>1, LaneAssumption DEF chainVars, LaneInv, Types, ChainTypes
  <2>2. SavedCursors' \subseteq SavedCursors
    BY <1>1 DEF SavedCursors
  <2>3. tip' \in Nat /\ tip <= tip'
    BY <2>1
  <2>4. \A d \in Burns : InChain(d)' /\ block'[d] <= tip => InChain(d) /\ block[d] = block'[d]
    BY <2>1 DEF InChain
  <2>5. \A d \in Burns : mem'.dep[d] = 3 => Kept(d)'
    BY <1>1, <1>5 DEF LaneInv, LedgerInv
  <2>6. Passed(cursor)'
    BY <1>6, <2>1 DEF LaneInv, LedgerInv, Passed, InChain
  <2> QED
    BY <1>6, <2>2, <2>3, <2>4, <2>5, <2>6, LedgerKeeps DEF LaneInv
<1>11. RouterTypes' /\ \A d \in Burns : Recorded(d)'
  <2>1. Informed
    <3>1. CASE \E c \in Callers : check[c].at = "minted"
      <4>1. PICK c \in Callers :
              check[c].at = "minted" /\ StrategyAnswered(Event(c), Level(c), FALSE)
        BY <3>1 DEF StoreFault
      <4>2. Event(c) \in Burns /\ Level(c) \in Levels
        BY <4>1, CallerTyped
      <4> QED
        BY <4>1, <4>2 DEF Informed
    <3>2. CASE ~\E c \in Callers : check[c].at = "minted"
      BY <3>2 DEF StoreFault, routerVars, Informed
    <3> QED
      BY <3>1, <3>2
  <2>2. mem \in Versions /\ disk \in Versions /\ Tells(mem', mem) /\ Tells(disk', disk)
    BY <1>1, TellsOrder DEF LaneInv, Types, StoreTypes
  <2> QED
    BY <1>1, <2>1, <2>2, RouterKeeps DEF LaneInv, Types, RecordInv
<1>12. RecordInv'
  BY <1>2, <1>11 DEF RecordInv, Waiting
<1> QED
  BY <1>3, <1>7, <1>8, <1>9, <1>10, <1>11, <1>12 DEF LaneInv, Types

(* A new process starts where the file is; all that was under way is cut   *)
(* off, and without a saved cursor all that is in the chain is older.      *)
LEMMA CrashKeeps ==
    ASSUME LaneInv, Crash
    PROVE  LaneInv'
<1>1. /\ mem' = disk /\ disk' = disk /\ saveChain' = <<>>
      /\ cursor' = IF disk.cursor = NoCursor THEN tip ELSE disk.cursor
      /\ known' = disk.dep
      /\ check' = [c \in Callers |-> Idle]
      /\ cutOff' = cutOff \cup UNION {Pending(c) : c \in Callers}
      /\ older' = IF disk.cursor = NoCursor THEN {d \in Burns : InChain(d)} ELSE older
      /\ tip' = tip /\ block' = block
      /\ releases' = [b \in Burns |-> NoRecord]
      /\ strategies' = [b \in Burns |-> {}]
  BY DEF Crash, Reload, RouterForgets, chainVars
<1>2. /\ disk \in Versions /\ disk.cursor \in Nat /\ Tells(disk, disk)
      /\ tip \in Nat /\ block \in [Burns -> Nat]
  <2>1. disk \in Versions /\ tip \in Nat /\ block \in [Burns -> Nat]
    BY LaneAssumption DEF LaneInv, Types, StoreTypes, ChainTypes
  <2> QED
    BY <2>1, TellsOrder DEF Versions
<1>3. Types'
  <2>1. <<>> \in Seq(Writes)
    BY EmptySeq
  <2>2. Idle \in Resting /\ Idle.todo = {}
    BY DEF Idle, Resting
  <2> QED
    BY <1>1, <1>2, <2>1, <2>2
    DEF LaneInv, Types, StoreTypes, ChainTypes, CheckTypes, RouterTypes
<1>4. VersionInv' /\ WriteInv'
  BY <1>1, <1>2 DEF VersionInv, WriteInv
<1>5. ASSUME NEW d \in Burns
      PROVE  /\ Kept(d) => Kept(d)'
             /\ InChain(d) /\ Held(d) => Held(d)'
  <2>1. ASSUME NEW c \in Callers, Putting(c, d) \/ <<d, 3>> \in check[c].todo
        PROVE  d \in cutOff'
    <3>1. d \in Pending(c)
      <4>1. CASE <<d, 3>> \in check[c].todo
        <5>1. <<d, 3>>[1] \in Pending(c)
          BY <4>1 DEF Pending
        <5> QED
          BY <5>1
      <4>2. CASE Putting(c, d)
        BY <4>2 DEF Pending, Putting, Event
      <4> QED
        BY <2>1, <4>1, <4>2
    <3> QED
      BY <1>1, <3>1
  <2>2. InChain(d) /\ d \in older => d \in older'
    BY <1>1
  <2>3. d \in cutOff => d \in cutOff'
    BY <1>1
  <2> QED
    BY <1>1, <2>1, <2>2, <2>3 DEF Kept, Held
<1>6. SavedCursors' = {disk.cursor} /\ disk.cursor \in SavedCursors
  BY <1>1 DEF SavedCursors
<1>7. Passed(cursor)'
  <2>1. CASE disk.cursor = NoCursor
    <3>1. cursor' = tip /\ older' = {d \in Burns : InChain(d)}
      BY <1>1, <2>1
    <3> QED
      BY <1>1, <1>2, <3>1 DEF Passed, Held, InChain
  <2>2. CASE disk.cursor # NoCursor
    <3>1. Passed(disk.cursor) /\ cursor' = disk.cursor
      BY <1>1, <1>6, <2>2 DEF LaneInv, LedgerInv
    <3> QED
      BY <1>1, <1>5, <3>1 DEF Passed, InChain
  <2> QED
    BY <2>1, <2>2
<1>8. LedgerInv'
  <2>1. tip' \in Nat /\ tip <= tip'
    BY <1>1, <1>2
  <2>2. \A d \in Burns : InChain(d)' /\ block'[d] <= tip => InChain(d) /\ block[d] = block'[d]
    BY <1>1 DEF InChain
  <2>3. \A d \in Burns : mem'.dep[d] = 3 => Kept(d)'
    BY <1>1 DEF Kept
  <2> QED
    BY <1>5, <1>6, <1>7, <2>1, <2>2, <2>3, LedgerKeeps DEF LaneInv
<1>9. RecordInv'
  BY <1>1 DEF RecordInv, Recorded, Idle
<1> QED
  BY <1>3, <1>4, <1>8, <1>9 DEF LaneInv

-----------------------------------------------------------------------------
LEMMA InitInv ==
    ASSUME Init
    PROVE  LaneInv
<1>1. /\ Empty \in Versions /\ Empty.cursor = 0
      /\ \A d \in Burns : Empty.dep[d] = 0
  BY DEF Empty, Versions, NoCursor
<1>2. /\ mem = Empty /\ disk = Empty /\ saveChain = <<>> /\ known = [d \in Burns |-> 0]
      /\ tip = Finality /\ cursor = Finality /\ block = [d \in Burns |-> NotSent]
      /\ check = [c \in Callers |-> Idle]
      /\ releases = [b \in Burns |-> NoRecord]
      /\ strategies = [b \in Burns |-> {}]
  BY DEF Init, StoreInit, RouterInit
<1>3. Finality \in Nat /\ MaxTip \in Nat /\ Finality <= MaxTip /\ NotSent \in Nat
      /\ Finality < NotSent
  BY LaneAssumption DEF NotSent
<1>4. Types
  <2>1. <<>> \in Seq(Writes)
    BY EmptySeq
  <2>2. Idle \in Resting /\ Idle.todo = {}
    BY DEF Idle, Resting
  <2>3. known = mem.dep
    BY <1>2 DEF Empty
  <2> QED
    BY <1>1, <1>2, <1>3, <2>1, <2>2, <2>3
    DEF Types, StoreTypes, ChainTypes, CheckTypes, RouterTypes
<1>5. VersionInv /\ WriteInv
  BY <1>1, <1>2, TellsOrder DEF VersionInv, WriteInv
<1>6. LedgerInv
  <2>1. ASSUME NEW d \in Burns PROVE ~InChain(d)
    <3>1. block[d] = NotSent /\ tip = Finality
      BY <1>2
    <3>2. NotSent \notin 1 .. Finality
      BY <1>3
    <3> QED
      BY <3>1, <3>2 DEF InChain
  <2>2. SavedCursors = {0}
    BY <1>1, <1>2 DEF SavedCursors
  <2> QED
    BY <1>1, <1>2, <1>3, <2>1, <2>2 DEF LedgerInv, Passed
<1>7. RecordInv
  BY <1>2 DEF RecordInv, Recorded, Idle
<1> QED
  BY <1>4, <1>5, <1>6, <1>7 DEF LaneInv

LEMMA StutterKeeps ==
    ASSUME LaneInv, UNCHANGED vars
    PROVE  LaneInv'
<1>1. UNCHANGED <<routerVars, storeVars, chainVars, checkVars, boundVars>>
  BY DEF vars
<1>2. Types'
  BY <1>1
  DEF LaneInv, Types, StoreTypes, ChainTypes, CheckTypes, RouterTypes, storeVars, checkVars,
      chainVars, routerVars
<1>3. VersionInv' /\ WriteInv' /\ RecordInv'
  BY <1>1 DEF LaneInv, VersionInv, WriteInv, RecordInv, Recorded, storeVars, checkVars, routerVars,
              Event, Level
<1>4. LedgerInv'
  <2>1. \A d \in Burns : (Kept(d)' <=> Kept(d)) /\ (Held(d)' <=> Held(d))
    BY <1>1 DEF Kept, Held, Putting, storeVars, checkVars, boundVars
  <2>2. /\ SavedCursors' = SavedCursors /\ mem' = mem
        /\ cursor' = cursor /\ tip' = tip /\ block' = block
    BY <1>1 DEF SavedCursors, storeVars, checkVars, chainVars
  <2>3. \A k : Passed(k) => Passed(k)'
    BY <2>1, <2>2 DEF Passed, InChain
  <2> QED
    BY <2>1, <2>2, <2>3 DEF LaneInv, LedgerInv
<1> QED
  BY <1>2, <1>3, <1>4 DEF LaneInv

LEMMA NextKeeps ==
    ASSUME LaneInv, [Next]_vars
    PROVE  LaneInv'
<1>1. ASSUME NEW c \in Callers, CheckStep(c)
      PROVE  LaneInv'
  BY <1>1, EventRoutedKeeps, ReturnsKeep, StrategyMintsKeeps, PersistsKeep, SaveEndsKeeps,
     EventKnownKeeps, EventPutKeeps DEF CheckStep
<1>2. ASSUME NEW c \in Callers, CheckSkips(c) \/ PollFails(c) \/ PollLists(c)
      PROVE  LaneInv'
  BY <1>2, PersistsKeep, PollListsKeeps
<1>3. ASSUME NEW d \in Burns, Deposit(d) \/ TickMints(d)
      PROVE  LaneInv'
  BY <1>3, ChainKeeps, TickKeeps
<1>4. CASE Mine \/ TickSettles \/ StoreFault \/ Crash
  BY <1>4, ChainKeeps, TickKeeps, FaultKeeps, CrashKeeps
<1>5. CASE UNCHANGED vars
  BY <1>5, StutterKeeps
<1> QED
  BY <1>1, <1>2, <1>3, <1>4, <1>5 DEF Next

(* The inductive invariant of the bitcoin lane, from the poll cursor       *)
(* (bitcoin-cea.ts:112-136) through the gateway's put (gateway.ts:374-451) *)
(* and the store's queue (store.ts:254-262) to the router's records        *)
(* (router.ts:112-214).                                                    *)
THEOREM LaneInvHolds == Spec => []LaneInv
<1>1. Init => LaneInv
  BY InitInv
<1>2. LaneInv /\ [Next]_vars => LaneInv'
  BY NextKeeps
<1> QED
  BY <1>1, <1>2, PTL DEF Spec

(* A deposit the saved cursor has passed is on disk as finalized, or in a  *)
(* batch under way, or was cut off: for any deposits, callers and chain    *)
(* (checkNow persists the cursor it finds, gateway.ts:280; pollBurns moves *)
(* it before the batch is handed over, bitcoin-cea.ts:140).                *)
THEOREM DepositsAreKept == Spec => []SkippedOnlyByCut
<1>1. ASSUME LaneInv
      PROVE  SkippedOnlyByCut
  <2> SUFFICES ASSUME NEW d \in Burns, Covered(d)
               PROVE  \/ disk.dep[d] = 3 \/ d \in cutOff \cup older
                      \/ \E c \in Callers : d \in Pending(c)
    BY DEF SkippedOnlyByCut
  <2>1. Held(d)
    <3>1. disk.cursor \in SavedCursors
      BY DEF SavedCursors
    <3> QED
      BY <1>1, <3>1 DEF LaneInv, LedgerInv, Passed, Covered
  <2>2. ASSUME NEW c \in Callers, <<d, 3>> \in check[c].todo
        PROVE  d \in Pending(c)
    <3>1. <<d, 3>>[1] \in Pending(c)
      BY <2>2 DEF Pending
    <3> QED
      BY <3>1
  <2>3. ASSUME NEW c \in Callers, Putting(c, d)
        PROVE  d \in Pending(c)
    BY <2>3 DEF Putting, Pending, Event
  <2> QED
    BY <2>1, <2>2, <2>3 DEF Held, Kept
<1> QED
  BY <1>1, LaneInvHolds, PTL

(* The router's record of a deposit tells no confidence that is not on     *)
(* disk and no receipt that is not recorded, whatever its strategy answers *)
(* and whatever write fails under it (gateway.ts:442-450, index.ts:151).   *)
THEOREM RecordsAreBehind == Spec => []RecordBehindLedger
<1>1. LaneInv => RecordBehindLedger
  BY DEF LaneInv, RecordInv, Recorded, RecordBehindLedger
<1> QED
  BY <1>1, LaneInvHolds, PTL

====
