---- MODULE BtcsoqRedeemSafety ----
(***************************************************************************)
(* Safety of the release pipeline, for every number of receipts, intents,  *)
(* blocks and payments: where a payment goes and what an intent tells,     *)
(* whatever crashes or fails; that an intent is paid once while the wallet *)
(* drops what its client gave up and shows its payments; that a receipt is *)
(* paid once while the store writes.                                       *)
(***************************************************************************)
EXTENDS BtcsoqRedeemInv, SequenceTheorems, FiniteSetTheorems, TLAPS

-----------------------------------------------------------------------------
(* Least and greatest identifiers.                                         *)
LEMMA LeastNatural ==
    ASSUME NEW S \in SUBSET Nat, S # {}
    PROVE  \E i \in S : \A j \in S : i <= j
<1> DEFINE F == {0..i : i \in S}
<1>1. F \subseteq FiniteSubsetsOf(Nat) /\ F # {}
  <2>1. \A i \in S : IsFiniteSet(0..i) /\ 0..i \in SUBSET Nat
    BY FS_Interval
  <2> QED BY <2>1 DEF FiniteSubsetsOf
<1>2. PICK T \in F : \A U \in F : ~(<<U, T>> \in StrictSubsetOrdering(Nat))
  <2> HIDE DEF F
  <2> QED BY <1>1, FS_StrictSubsetOrderingWellFounded, WFMin
<1>3. PICK i \in S : T = 0..i
  OBVIOUS
<1>4. \A j \in S : ~(j < i)
  <2> SUFFICES ASSUME NEW j \in S, j < i PROVE FALSE
    OBVIOUS
  <2>1. 0..j \in F /\ 0..j \in SUBSET Nat /\ T \in SUBSET Nat
    BY <1>3
  <2>2. 0..j \subseteq T /\ i \in T /\ i \notin 0..j
    BY <1>3
  <2>3. <<0..j, T>> \in StrictSubsetOrdering(Nat)
    BY <2>1, <2>2 DEF StrictSubsetOrdering
  <2> QED BY <1>2, <2>1, <2>3
<1> QED BY <1>4

LEMMA OldestIsOne ==
    ASSUME NEW S \in SUBSET Nat, S # {}
    PROVE  Oldest(S) \in S
BY LeastNatural DEF Oldest

LEMMA NewestIsOne ==
    ASSUME NEW n \in Nat, NEW S \in SUBSET (1..n), S # {}
    PROVE  Newest(S) \in S
<1> DEFINE T == {n - i : i \in S}
<1>1. T \subseteq Nat /\ T # {}
  <2>1. \A i \in S : n - i \in Nat
    OBVIOUS
  <2> QED BY <2>1
<1>2. PICK k \in T : \A l \in T : k <= l
  <2> HIDE DEF T
  <2> QED BY <1>1, LeastNatural
<1>3. PICK i \in S : k = n - i
  OBVIOUS
<1>4. \A j \in S : j <= i
  <2> TAKE j \in S
  <2>1. k <= n - j
    BY <1>2
  <2> QED BY <1>3, <2>1
<1> QED BY <1>4 DEF Newest

-----------------------------------------------------------------------------
(* The queue of writes after each of the store's operations.               *)
LEMMA Queue ==
    ASSUME StoreTypeOK, NEW t \in Writers, NEW m \in Contents
    PROVE  /\ Len(saveChain) \in Nat /\ DOMAIN saveChain = 1..Len(saveChain)
           /\ \A i \in 1..Len(saveChain) :
                saveChain[i].by \in Writers /\ saveChain[i].state \in Contents
           /\ Put(t, m) =>
                /\ DOMAIN saveChain' = 1..(Len(saveChain) + 1)
                /\ \A i \in 1..Len(saveChain) : saveChain'[i] = saveChain[i]
                /\ saveChain'[Len(saveChain) + 1] = Write(t, m)
           /\ Written(t) =>
                /\ Len(saveChain) > 0
                /\ Head(saveChain) = saveChain[1]
                /\ saveChain[1].by = t
           /\ Settle(t) =>
                /\ DOMAIN saveChain' = 1..(Len(saveChain) - 1)
                /\ \A i \in 1..(Len(saveChain) - 1) : saveChain'[i] = saveChain[i + 1]
           /\ SettlePut(t, m) =>
                /\ DOMAIN saveChain' = 1..Len(saveChain)
                /\ \A i \in 1..(Len(saveChain) - 1) : saveChain'[i] = saveChain[i + 1]
                /\ saveChain'[Len(saveChain)] = Write(t, m)
<1> DEFINE W == [by: Writers, state: Contents]
<1>1. saveChain \in Seq(W) /\ Write(t, m) \in W
  BY DEF StoreTypeOK, Write
<1>2. \A w \in W : w.by \in Writers /\ w.state \in Contents
  OBVIOUS
<1> HIDE DEF W
<1>3. Len(saveChain) \in Nat /\ DOMAIN saveChain = 1..Len(saveChain)
  BY <1>1
<1>4. \A i \in 1..Len(saveChain) : saveChain[i].by \in Writers /\ saveChain[i].state \in Contents
  BY <1>1, <1>2
<1>5. ASSUME Put(t, m)
      PROVE  /\ DOMAIN saveChain' = 1..(Len(saveChain) + 1)
             /\ \A i \in 1..Len(saveChain) : saveChain'[i] = saveChain[i]
             /\ saveChain'[Len(saveChain) + 1] = Write(t, m)
  BY <1>1, <1>5, AppendProperties DEF Put
<1>6. ASSUME Written(t)
      PROVE  /\ Len(saveChain) > 0
             /\ Head(saveChain) = saveChain[1]
             /\ saveChain[1].by = t
             /\ Tail(saveChain) \in Seq(W)
             /\ Len(Tail(saveChain)) = Len(saveChain) - 1
             /\ \A i \in 1..(Len(saveChain) - 1) : Tail(saveChain)[i] = saveChain[i + 1]
  <2>1. saveChain # <<>> /\ Head(saveChain).by = t
    BY <1>6 DEF Written
  <2> QED BY <1>1, <2>1, HeadTailProperties, EmptySeq
<1>7. ASSUME Settle(t)
      PROVE  /\ DOMAIN saveChain' = 1..(Len(saveChain) - 1)
             /\ \A i \in 1..(Len(saveChain) - 1) : saveChain'[i] = saveChain[i + 1]
  BY <1>6, <1>7 DEF Settle
<1>8. ASSUME SettlePut(t, m)
      PROVE  /\ DOMAIN saveChain' = 1..Len(saveChain)
             /\ \A i \in 1..(Len(saveChain) - 1) : saveChain'[i] = saveChain[i + 1]
             /\ saveChain'[Len(saveChain)] = Write(t, m)
  <2>1. saveChain' = Append(Tail(saveChain), Write(t, m)) /\ Written(t)
    BY <1>8 DEF SettlePut
  <2> QED BY <1>1, <1>3, <1>6, <2>1, AppendProperties
<1> QED BY <1>3, <1>4, <1>5, <1>6, <1>7, <1>8

(* What a step may do to the store.                                        *)
Stores(t, m) ==
    \/ Put(t, m) \/ PutRejected(m) \/ Settle(t) \/ SettlePut(t, m)
    \/ WriteFails \/ Reload \/ UNCHANGED storeVars

(* The versions after a step are versions before it, or what was put.      *)
LEMMA VersionsAfter ==
    ASSUME StoreTypeOK, NEW t \in Writers, NEW m \in Contents, Stores(t, m)
    PROVE  /\ Versions' \subseteq Versions \cup {m}
           /\ mem' \in {mem, disk, m}
           /\ disk' \in Versions
           /\ StoreTypeOK'
<1> DEFINE n == Len(saveChain)
<1>1. /\ n \in Nat /\ DOMAIN saveChain = 1..n
      /\ \A i \in 1..n : saveChain[i].by \in Writers /\ saveChain[i].state \in Contents
  BY Queue
<1>2. Write(t, m).state = m /\ Write(t, m) \in [by: Writers, state: Contents]
  BY DEF Write
<1>3. /\ mem \in Versions /\ disk \in Versions
      /\ \A i \in 1..n : saveChain[i].state \in Versions
  BY <1>1 DEF Versions
<1>4. ASSUME mem' \in Versions \cup {m}, disk' \in Versions,
             \A i \in DOMAIN saveChain' : saveChain'[i].state \in Versions \cup {m}
      PROVE  Versions' \subseteq Versions \cup {m}
  BY <1>4 DEF Versions
<1>h. Written(t) => /\ Tail(saveChain) \in Seq([by: Writers, state: Contents])
                    /\ Head(saveChain).state \in Contents
  <2> DEFINE W == [by: Writers, state: Contents]
  <2> SUFFICES ASSUME Written(t)
               PROVE  Tail(saveChain) \in Seq(W) /\ Head(saveChain).state \in Contents
    OBVIOUS
  <2>1. saveChain \in Seq(W) /\ saveChain # <<>>
    BY DEF Written, StoreTypeOK
  <2>2. Head(saveChain) \in W /\ Tail(saveChain) \in Seq(W)
    <3> HIDE DEF W
    <3> QED BY <2>1, HeadTailProperties
  <2> QED BY <2>2
<1>5. CASE Put(t, m)
  <2>1. /\ DOMAIN saveChain' = 1..(n + 1) /\ saveChain'[n + 1] = Write(t, m)
        /\ \A i \in 1..n : saveChain'[i] = saveChain[i]
        /\ mem' = m /\ disk' = disk
    BY <1>5, Queue DEF Put
  <2>2. StoreTypeOK'
    BY <1>2, <1>5 DEF Put, StoreTypeOK
  <2> HIDE DEF n
  <2>3. \A i \in 1..(n + 1) : i \in 1..n \/ i = n + 1
    BY <1>1
  <2> QED BY <1>2, <1>3, <1>4, <2>1, <2>2, <2>3
<1>6. CASE Settle(t)
  <2>1. /\ DOMAIN saveChain' = 1..(n - 1) /\ n > 0
        /\ \A i \in 1..(n - 1) : saveChain'[i] = saveChain[i + 1]
        /\ mem' = mem /\ disk' = saveChain[1].state
    BY <1>6, Queue DEF Settle
  <2>2. StoreTypeOK'
    BY <1>6, <1>h DEF Settle, StoreTypeOK
  <2> HIDE DEF n
  <2>3. 1 \in 1..n /\ \A i \in 1..(n - 1) : i + 1 \in 1..n
    BY <1>1, <2>1
  <2> QED BY <1>3, <1>4, <2>1, <2>2, <2>3
<1>7. CASE SettlePut(t, m)
  <2>1. /\ DOMAIN saveChain' = 1..n /\ n > 0
        /\ \A i \in 1..(n - 1) : saveChain'[i] = saveChain[i + 1]
        /\ saveChain'[n] = Write(t, m)
        /\ mem' = m /\ disk' = saveChain[1].state
    BY <1>7, Queue DEF SettlePut
  <2>2. StoreTypeOK'
    BY <1>2, <1>7, <1>h DEF SettlePut, StoreTypeOK
  <2> HIDE DEF n
  <2>3. /\ 1 \in 1..n /\ \A i \in 1..(n - 1) : i + 1 \in 1..n
        /\ \A i \in 1..n : i \in 1..(n - 1) \/ i = n
    BY <1>1, <2>1
  <2> QED BY <1>2, <1>3, <1>4, <2>1, <2>2, <2>3
<1>8. CASE PutRejected(m)
  <2>1. mem' = m /\ UNCHANGED <<disk, saveChain, poisoned>>
    BY <1>8 DEF PutRejected
  <2>2. StoreTypeOK'
    BY <2>1 DEF StoreTypeOK
  <2>3. \A i \in DOMAIN saveChain' : saveChain'[i].state \in Versions \cup {m}
    BY <1>1, <1>3, <2>1
  <2>4. disk' \in Versions /\ mem' \in {mem, disk, m} /\ mem' \in Versions \cup {m}
    BY <1>3, <2>1
  <2>5. Versions' \subseteq Versions \cup {m}
    BY <1>4, <2>3, <2>4
  <2> QED BY <2>2, <2>4, <2>5
<1>9. CASE WriteFails \/ Reload
  <2>1. saveChain' = <<>> /\ mem' \in {mem, disk} /\ disk' = disk /\ poisoned' \in BOOLEAN
    BY <1>9 DEF WriteFails, Reload
  <2>2. <<>> \in Seq([by: Writers, state: Contents]) /\ DOMAIN <<>> = {}
    OBVIOUS
  <2>3. StoreTypeOK'
    <3>1. mem' \in Contents /\ disk' \in Contents
      BY <2>1 DEF StoreTypeOK
    <3> QED BY <2>1, <2>2, <3>1 DEF StoreTypeOK
  <2>4. \A i \in DOMAIN saveChain' : saveChain'[i].state \in Versions \cup {m}
    BY <2>1, <2>2
  <2>5. mem' \in Versions \cup {m} /\ disk' \in Versions
    BY <1>3, <2>1
  <2> QED BY <1>4, <2>1, <2>3, <2>4, <2>5
<1>10. CASE UNCHANGED storeVars
  BY <1>1, <1>3, <1>4, <1>10 DEF storeVars, StoreTypeOK
<1> QED BY <1>5, <1>6, <1>7, <1>8, <1>9, <1>10 DEF Stores

(* The tick has at most one write of its own in the queue.                 *)
LEMMA OneWriteAfter ==
    ASSUME StoreTypeOK, OneWrite, NEW t \in Writers, NEW m \in Contents
    PROVE  /\ Put(t, m) /\ t # "tick" => OneWrite' /\ (Quiet("tick") => Quiet("tick")')
           /\ Put("tick", m) /\ Quiet("tick") => OneWrite'
           /\ SettlePut("tick", m) => OneWrite'
           /\ Settle(t) => OneWrite' /\ (Quiet("tick") => Quiet("tick")')
           /\ Settle("tick") => Quiet("tick")'
           /\ PutRejected(m) \/ UNCHANGED storeVars =>
                OneWrite' /\ (Quiet("tick") => Quiet("tick")')
           /\ WriteFails \/ Reload => OneWrite' /\ Quiet("tick")'
<1> DEFINE n == Len(saveChain)
<1>1. n \in Nat /\ DOMAIN saveChain = 1..n
  BY Queue
<1>2. "tick" \in Writers
  BY DEF Writers
<1>3. Write(t, m).by = t
  BY DEF Write
<1>4. ASSUME Put(t, m)
      PROVE  /\ DOMAIN saveChain' = 1..(n + 1) /\ saveChain'[n + 1] = Write(t, m)
             /\ \A i \in 1..n : saveChain'[i] = saveChain[i]
  BY <1>4, Queue
<1>5. ASSUME Settle(t)
      PROVE  /\ DOMAIN saveChain' = 1..(n - 1) /\ n > 0 /\ saveChain[1].by = t
             /\ \A i \in 1..(n - 1) : saveChain'[i] = saveChain[i + 1]
  BY <1>5, Queue DEF Settle
<1>6. ASSUME SettlePut("tick", m)
      PROVE  /\ DOMAIN saveChain' = 1..n /\ n > 0 /\ saveChain[1].by = "tick"
             /\ \A i \in 1..(n - 1) : saveChain'[i] = saveChain[i + 1]
  BY <1>2, <1>6, Queue DEF SettlePut
<1>7. ASSUME Put("tick", m)
      PROVE  /\ DOMAIN saveChain' = 1..(n + 1) /\ saveChain'[n + 1] = Write("tick", m)
             /\ \A i \in 1..n : saveChain'[i] = saveChain[i]
  BY <1>2, <1>7, Queue
<1>8. ASSUME Settle("tick")
      PROVE  /\ DOMAIN saveChain' = 1..(n - 1) /\ n > 0 /\ saveChain[1].by = "tick"
             /\ \A i \in 1..(n - 1) : saveChain'[i] = saveChain[i + 1]
  BY <1>2, <1>8, Queue DEF Settle
<1> HIDE DEF n
<1>9. Put(t, m) /\ t # "tick" => OneWrite' /\ (Quiet("tick") => Quiet("tick")')
  <2> SUFFICES ASSUME Put(t, m), t # "tick"
               PROVE  OneWrite' /\ (Quiet("tick") => Quiet("tick")')
    OBVIOUS
  <2>1. \A i \in DOMAIN saveChain' :
          saveChain'[i].by = "tick" => i \in 1..n /\ saveChain[i].by = "tick"
    BY <1>1, <1>3, <1>4
  <2> QED BY <1>1, <2>1 DEF OneWrite, Quiet
<1>10. Put("tick", m) /\ Quiet("tick") => OneWrite'
  <2> SUFFICES ASSUME Put("tick", m), Quiet("tick") PROVE OneWrite'
    OBVIOUS
  <2>1. \A i \in DOMAIN saveChain' : saveChain'[i].by = "tick" => i = n + 1
    BY <1>1, <1>7 DEF Quiet
  <2> QED BY <2>1 DEF OneWrite
<1>11. SettlePut("tick", m) => OneWrite'
  <2> SUFFICES ASSUME SettlePut("tick", m) PROVE OneWrite'
    OBVIOUS
  <2>1. \A i \in 1..(n - 1) : i + 1 \in 1..n /\ i + 1 # 1
    BY <1>1
  <2>2. 1 \in 1..n
    BY <1>1, <1>6
  <2>3. \A i \in 1..(n - 1) : saveChain[i + 1].by # "tick"
    BY <1>1, <1>6, <2>1, <2>2 DEF OneWrite
  <2>4. \A i \in 1..n : i \in 1..(n - 1) \/ i = n
    BY <1>1
  <2>5. \A i \in DOMAIN saveChain' : saveChain'[i].by = "tick" => i = n
    BY <1>6, <2>3, <2>4
  <2> QED BY <2>5 DEF OneWrite
<1>12. Settle(t) => OneWrite' /\ (Quiet("tick") => Quiet("tick")')
  <2> SUFFICES ASSUME Settle(t)
               PROVE  OneWrite' /\ (Quiet("tick") => Quiet("tick")')
    OBVIOUS
  <2>1. \A i \in 1..(n - 1) : i + 1 \in 1..n
    BY <1>1
  <2>2. \A i \in DOMAIN saveChain' :
          saveChain'[i].by = "tick" => i \in 1..(n - 1) /\ saveChain[i + 1].by = "tick"
    BY <1>5
  <2>3. \A i, j \in 1..(n - 1) : i + 1 = j + 1 => i = j
    BY <1>1
  <2> QED BY <1>1, <2>1, <2>2, <2>3 DEF OneWrite, Quiet
<1>13. Settle("tick") => Quiet("tick")'
  <2> SUFFICES ASSUME Settle("tick") PROVE Quiet("tick")'
    OBVIOUS
  <2>1. \A i \in 1..(n - 1) : i + 1 \in 1..n /\ i + 1 # 1
    BY <1>1
  <2>2. 1 \in 1..n
    BY <1>1, <1>8
  <2> QED BY <1>1, <1>8, <2>1, <2>2 DEF OneWrite, Quiet
<1>14. PutRejected(m) \/ UNCHANGED storeVars => OneWrite' /\ (Quiet("tick") => Quiet("tick")')
  BY DEF PutRejected, storeVars, OneWrite, Quiet
<1>15. WriteFails \/ Reload => OneWrite' /\ Quiet("tick")'
  <2> SUFFICES ASSUME WriteFails \/ Reload PROVE OneWrite' /\ Quiet("tick")'
    OBVIOUS
  <2>1. saveChain' = <<>> /\ DOMAIN <<>> = {}
    BY DEF WriteFails, Reload
  <2> QED BY <2>1 DEF OneWrite, Quiet
<1> QED BY <1>9, <1>10, <1>11, <1>12, <1>13, <1>14, <1>15

-----------------------------------------------------------------------------
(* What the pipeline writes, field by field.                               *)
MintRow == [status: MintStatus, intent: Nat]

LEMMA Shape ==
    ASSUME NEW m \in Contents
    PROVE  /\ m.mint \in [Receipts -> MintRow]
           /\ DOMAIN m.intents \subseteq Ids
           /\ m.intents \in [DOMAIN m.intents -> RedeemIntent]
           /\ m.cursor \in Nat
BY DEF Contents, MintRow

(* One mint record is put.                                                 *)
LEMMA MintEdit ==
    ASSUME NEW m \in Contents, NEW r \in Receipts, NEW row \in MintRow
    PROVE  LET x == [m EXCEPT !.mint[r] = row]
           IN /\ x \in Contents
              /\ x.mint[r] = row
              /\ \A q \in Receipts : q # r => x.mint[q] = m.mint[q]
              /\ x.intents = m.intents
<1>1. m.mint \in [Receipts -> MintRow]
  BY Shape
<1>2. [m.mint EXCEPT ![r] = row] \in [Receipts -> MintRow]
  BY <1>1
<1> QED BY <1>1, <1>2 DEF Contents, MintRow

(* ... or only its status.                                                 *)
LEMMA StatusEdit ==
    ASSUME NEW m \in Contents, NEW r \in Receipts, NEW s \in MintStatus
    PROVE  LET x == [m EXCEPT !.mint[r].status = s]
           IN /\ x \in Contents
              /\ x.mint[r] = [status |-> s, intent |-> m.mint[r].intent]
              /\ \A q \in Receipts : q # r => x.mint[q] = m.mint[q]
              /\ x.intents = m.intents
<1> DEFINE row == [status |-> s, intent |-> m.mint[r].intent]
<1>1. m.mint[r] \in MintRow
  BY Shape
<1>2. row \in MintRow /\ row = [m.mint[r] EXCEPT !.status = s]
  BY <1>1 DEF MintRow
<1>3. [m EXCEPT !.mint[r].status = s] = [m EXCEPT !.mint[r] = row]
  BY <1>2 DEF Contents
<1> QED BY <1>2, <1>3, MintEdit

(* The status of one redeem intent is put.                                 *)
LEMMA IntentEdit ==
    ASSUME NEW m \in Contents, NEW i \in Nat, NEW s \in RedeemIntentStatus
    PROVE  LET x == [m EXCEPT !.intents[i].status = s]
           IN /\ x \in Contents
              /\ x.mint = m.mint
              /\ DOMAIN x.intents = DOMAIN m.intents
              /\ \A j \in DOMAIN m.intents :
                   /\ x.intents[j].holder = m.intents[j].holder
                   /\ x.intents[j].payout = m.intents[j].payout
                   /\ x.intents[j].status = IF j = i THEN s ELSE m.intents[j].status
<1> DEFINE D == DOMAIN m.intents
           f == [m.intents EXCEPT ![i].status = s]
<1>1. m.intents \in [D -> RedeemIntent] /\ D \in SUBSET Ids
  BY Shape
<1>2. \A j \in D : m.intents[j] \in RedeemIntent
  BY <1>1
<1>3. \A j \in D : f[j] = IF j = i THEN [m.intents[j] EXCEPT !.status = s] ELSE m.intents[j]
  BY <1>1
<1>4. DOMAIN f = D
  BY <1>1
<1>5. \A j \in D : [m.intents[j] EXCEPT !.status = s] \in RedeemIntent
  BY <1>2 DEF RedeemIntent
<1>6. f \in [D -> RedeemIntent]
  BY <1>1, <1>2, <1>3, <1>5
<1>7. [m EXCEPT !.intents[i].status = s] = [m EXCEPT !.intents = f]
  BY DEF Contents
<1>8. [m EXCEPT !.intents = f] \in Contents
  <2> HIDE DEF f, D
  <2>1. f \in UNION {[S -> RedeemIntent] : S \in SUBSET Ids}
    BY <1>1, <1>6
  <2> QED BY <2>1 DEF Contents
<1>9. /\ [m EXCEPT !.intents = f].mint = m.mint
      /\ [m EXCEPT !.intents = f].intents = f
  <2> HIDE DEF f, D
  <2> QED BY DEF Contents
<1>10. \A j \in D : /\ f[j].holder = m.intents[j].holder
                     /\ f[j].payout = m.intents[j].payout
                     /\ f[j].status = IF j = i THEN s ELSE m.intents[j].status
  BY <1>2, <1>3 DEF RedeemIntent
<1> HIDE DEF f
<1> QED BY <1>4, <1>7, <1>8, <1>9, <1>10

(* The cursor moves, an attestation is kept.                               *)
LEMMA CursorEdit ==
    ASSUME NEW m \in Contents, NEW c \in Nat
    PROVE  LET x == [m EXCEPT !.cursor = c]
           IN x \in Contents /\ x.mint = m.mint /\ x.intents = m.intents
BY DEF Contents

LEMMA AttestEdit ==
    ASSUME NEW m \in Contents, NEW k \in EventKinds, NEW r \in Receipts
    PROVE  LET x == [m EXCEPT !.att = @ \cup {<<k, r>>}]
           IN x \in Contents /\ x.mint = m.mint /\ x.intents = m.intents
BY DEF Contents

-----------------------------------------------------------------------------
(* What may be put: a state file that stands by itself and keeps the       *)
(* releases of the one in memory.                                          *)
Fits(m) == m \in Contents /\ VersionOK(m) /\ Keeps(mem, m)

(* It does when it keeps the payouts, and every record or intent it changes*)
(* has its reasons in itself.                                              *)
LEMMA Onward ==
    ASSUME mem \in Contents, VersionOK(mem), NEW m \in Contents,
           \A j \in DOMAIN mem.intents :
                j \in DOMAIN m.intents /\ m.intents[j].payout = mem.intents[j].payout,
           \A r \in Receipts :
                \/ m.mint[r] = mem.mint[r]
                \/ ~Claimed(mem, r) /\ ~Claimed(m, r) /\ m.mint[r].intent = NoIntent
                \/ /\ Claimed(m, r) /\ BoundIn(m, r)
                   /\ Claimed(mem, r) => m.mint[r].intent = mem.mint[r].intent
                   /\ mem.mint[r].status = "redeemed" => m.mint[r].status = "redeemed",
           \A j \in DOMAIN m.intents :
                \/ j \in DOMAIN mem.intents /\ m.intents[j].status = mem.intents[j].status
                \/ m.intents[j].status \in {"awaiting-receipt", "expired"}
                \/ /\ m.intents[j].status = "receipt-received"
                   /\ \E r \in Receipts : m.mint[r].intent = j
                \/ \E r \in Receipts : m.mint[r].intent = j /\ m.mint[r].status = "redeemed"
    PROVE  Fits(m)
<1>1. /\ \A r \in Receipts : IF Claimed(mem, r) THEN BoundIn(mem, r)
                             ELSE mem.mint[r].intent = NoIntent
      /\ \A i \in DOMAIN mem.intents :
          /\ mem.intents[i].status = "receipt-received" =>
              \E r \in Receipts : mem.mint[r].intent = i
          /\ mem.intents[i].status = "released" =>
              \E r \in Receipts : mem.mint[r].intent = i /\ mem.mint[r].status = "redeemed"
  BY DEF VersionOK
<1>2. NoIntent \notin DOMAIN m.intents /\ NoIntent \notin DOMAIN mem.intents
  BY Shape DEF NoIntent, Ids
<1>3. Keeps(mem, m)
  BY DEF Keeps, Claimed
<1>4. \A r \in Receipts : mem.mint[r].intent \in DOMAIN mem.intents =>
        /\ m.mint[r].intent = mem.mint[r].intent
        /\ mem.mint[r].status = "redeemed" => m.mint[r].status = "redeemed"
  BY <1>1, <1>2, <1>3 DEF Keeps
<1>5. \A r \in Receipts : IF Claimed(m, r) THEN BoundIn(m, r) ELSE m.mint[r].intent = NoIntent
  <2> TAKE r \in Receipts
  <2>1. CASE m.mint[r] = mem.mint[r]
    <3>1. Claimed(m, r) <=> Claimed(mem, r)
      BY <2>1 DEF Claimed
    <3>2. Claimed(mem, r) => BoundIn(m, r)
      BY <1>1, <2>1 DEF BoundIn
    <3> QED BY <1>1, <2>1, <3>1, <3>2
  <2> QED BY <2>1
<1>6. ASSUME NEW j \in DOMAIN m.intents
      PROVE  /\ m.intents[j].status = "receipt-received" =>
                  \E r \in Receipts : m.mint[r].intent = j
             /\ m.intents[j].status = "released" =>
                  \E r \in Receipts : m.mint[r].intent = j /\ m.mint[r].status = "redeemed"
  <2>1. CASE j \in DOMAIN mem.intents /\ m.intents[j].status = mem.intents[j].status
    BY <1>1, <1>4, <2>1
  <2> QED BY <2>1
<1> QED BY <1>3, <1>5, <1>6 DEF Fits, VersionOK

(* The intent a return is bound to is its holder's and pays what it says.  *)
LEMMA BindingIsOne ==
    ASSUME mem \in Contents, NEW r \in Receipts, Bindable(r)
    PROVE  /\ Binding(r) \in DOMAIN mem.intents
           /\ back[r].commit # NoCommit => mem.intents[Binding(r)].payout = back[r].commit
<1>1. DOMAIN mem.intents \in SUBSET (1..MaxIntents) /\ MaxIntents \in Nat
  BY Shape, RedeemConstants DEF Ids
<1>2. Candidates(mem, r) \in SUBSET (DOMAIN mem.intents)
  BY DEF Candidates
<1>3. CASE back[r].commit = NoCommit
  <2> DEFINE open == {i \in Candidates(mem, r) : mem.intents[i].status = "awaiting-receipt"}
  <2>1. Candidates(mem, r) # {} /\ Binding(r) = Legacy(mem, r)
    BY <1>3 DEF Bindable, Binding
  <2>2. open # {} => Oldest(open) \in open
    <3>1. open \in SUBSET Nat
      BY <1>1, <1>2
    <3> HIDE DEF open
    <3> QED BY <3>1, OldestIsOne
  <2>3. Newest(Candidates(mem, r)) \in Candidates(mem, r)
    BY <1>1, <1>2, <2>1, NewestIsOne
  <2>4. Legacy(mem, r) \in Candidates(mem, r)
    BY <2>2, <2>3 DEF Legacy
  <2> QED BY <1>2, <1>3, <2>1, <2>4
<1>4. CASE back[r].commit # NoCommit
  <2> DEFINE S == Committed(mem, r, back[r].commit)
  <2>1. S \in SUBSET (1..MaxIntents) /\ S # {} /\ Binding(r) = Newest(S)
    BY <1>1, <1>2, <1>4 DEF Bindable, Binding, Committed
  <2>2. \A i \in S : i \in DOMAIN mem.intents /\ mem.intents[i].payout = back[r].commit
    BY <1>2 DEF Committed
  <2> HIDE DEF S
  <2>3. Newest(S) \in S
    BY <1>1, <2>1, NewestIsOne
  <2> QED BY <2>1, <2>2, <2>3
<1> QED BY <1>3, <1>4

(* Only r's release is new in version m, or none is.                       *)
NewsOf(m, r) == \A q \in Receipts \ {r} : Claimed(m, q) => m.mint[q] = mem.mint[q]
NoNews(m) == \A q \in Receipts : Claimed(m, q) => m.mint[q] = mem.mint[q]

(* A claim, a release and a mint are put.                                  *)
LEMMA MintPuts ==
    ASSUME mem \in Contents, VersionOK(mem), NEW r \in Receipts
    PROVE  /\ mem.mint[r].status = "minted" /\ Bindable(r) /\ back[r] # Unspent =>
                /\ Fits(WithClaim(r, Binding(r))) /\ NewsOf(WithClaim(r, Binding(r)), r)
                /\ WithClaim(r, Binding(r)).mint[r].status = "redeeming"
           /\ IntentOf(r) # NoIntent =>
                /\ Fits(WithRedeemed(r)) /\ NewsOf(WithRedeemed(r), r)
                /\ WithRedeemed(r).mint[r].status = "redeemed"
           /\ mem.mint[r].status = "minting" =>
                LET m == [mem EXCEPT !.mint[r].status = "minted"] IN Fits(m) /\ NoNews(m)
<1>1. /\ \A q \in Receipts : IF Claimed(mem, q) THEN BoundIn(mem, q)
                             ELSE mem.mint[q].intent = NoIntent
      /\ mem.mint[r] \in MintRow
  BY Shape DEF VersionOK
<1>2. ASSUME mem.mint[r].status = "minted", Bindable(r), back[r] # Unspent
      PROVE  /\ Fits(WithClaim(r, Binding(r))) /\ NewsOf(WithClaim(r, Binding(r)), r)
             /\ WithClaim(r, Binding(r)).mint[r].status = "redeeming"
  <2> DEFINE row == [status |-> "redeeming", intent |-> Binding(r)]
             m == WithClaim(r, Binding(r))
  <2>1. /\ Binding(r) \in DOMAIN mem.intents
        /\ back[r].commit # NoCommit => mem.intents[Binding(r)].payout = back[r].commit
    BY <1>2, BindingIsOne
  <2>2. Binding(r) \in Nat
    BY <2>1, Shape DEF Ids
  <2>3. row \in MintRow
    BY <2>2 DEF MintRow, MintStatus
  <2>4. /\ m \in Contents /\ m.mint[r] = row /\ m.intents = mem.intents
        /\ \A q \in Receipts : q # r => m.mint[q] = mem.mint[q]
    BY <2>3, MintEdit DEF WithClaim
  <2>5. ~Claimed(mem, r) /\ Claimed(m, r)
    BY <1>2, <2>4 DEF Claimed
  <2>6. BoundIn(m, r)
    BY <1>2, <2>1, <2>4 DEF BoundIn
  <2>7. m.mint[r].status = "redeeming"
    BY <2>4
  <2> HIDE DEF m, row
  <2>8. Fits(m)
    BY <2>4, <2>5, <2>6, <1>2, Onward
  <2> QED BY <2>4, <2>7, <2>8 DEF NewsOf, m
<1>3. ASSUME IntentOf(r) # NoIntent
      PROVE  /\ Fits(WithRedeemed(r)) /\ NewsOf(WithRedeemed(r), r)
             /\ WithRedeemed(r).mint[r].status = "redeemed"
  <2> DEFINE m == WithRedeemed(r)
  <2>1. /\ m \in Contents /\ m.intents = mem.intents
        /\ m.mint[r] = [status |-> "redeemed", intent |-> mem.mint[r].intent]
        /\ \A q \in Receipts : q # r => m.mint[q] = mem.mint[q]
    BY StatusEdit DEF WithRedeemed, MintStatus
  <2>2. Claimed(mem, r) /\ BoundIn(mem, r)
    BY <1>1, <1>3 DEF IntentOf
  <2>3. Claimed(m, r) /\ BoundIn(m, r)
    BY <2>1, <2>2 DEF Claimed, BoundIn
  <2> HIDE DEF m
  <2>4. Fits(m)
    BY <2>1, <2>2, <2>3, Onward
  <2> QED BY <2>1, <2>4 DEF NewsOf, m
<1>4. ASSUME mem.mint[r].status = "minting"
      PROVE  LET m == [mem EXCEPT !.mint[r].status = "minted"] IN Fits(m) /\ NoNews(m)
  <2> DEFINE m == [mem EXCEPT !.mint[r].status = "minted"]
  <2>1. /\ m \in Contents /\ m.intents = mem.intents
        /\ m.mint[r] = [status |-> "minted", intent |-> mem.mint[r].intent]
        /\ \A q \in Receipts : q # r => m.mint[q] = mem.mint[q]
    BY StatusEdit DEF MintStatus
  <2> HIDE DEF m
  <2>2. ~Claimed(mem, r) /\ ~Claimed(m, r) /\ m.mint[r].intent = NoIntent
    BY <1>1, <1>4, <2>1 DEF Claimed
  <2>3. Fits(m)
    BY <2>1, <2>2, Onward
  <2> QED BY <2>1, <2>2, <2>3 DEF NoNews, m
<1> QED BY <1>2, <1>3, <1>4

(* Everything else is put.                                                 *)
LEMMA OtherPuts ==
    ASSUME mem \in Contents, VersionOK(mem)
    PROVE  /\ Fits(mem) /\ NoNews(mem)
           /\ \A c \in Nat :
                LET m == [mem EXCEPT !.cursor = c] IN Fits(m) /\ NoNews(m)
           /\ \A i \in Nat : LET m == WithIntent(i, "expired") IN Fits(m) /\ NoNews(m)
           /\ \A r \in Receipts :
                /\ \A k \in EventKinds : Fits(Attested(k, r)) /\ NoNews(Attested(k, r))
                /\ LET m == WithIntent(IntentOf(r), "receipt-received") IN Fits(m) /\ NoNews(m)
                /\ mem.mint[r].status = "redeemed" =>
                    LET m == WithIntent(IntentOf(r), "released") IN Fits(m) /\ NoNews(m)
<1>1. Fits(mem) /\ NoNews(mem)
  BY Onward DEF NoNews
<1>2. ASSUME NEW m \in Contents, m.mint = mem.mint, m.intents = mem.intents
      PROVE  Fits(m) /\ NoNews(m)
  BY <1>2, Onward DEF NoNews
<1>3. ASSUME NEW c \in Nat
      PROVE  LET m == [mem EXCEPT !.cursor = c] IN Fits(m) /\ NoNews(m)
  <2> DEFINE m == [mem EXCEPT !.cursor = c]
  <2>1. m \in Contents /\ m.mint = mem.mint /\ m.intents = mem.intents
    BY CursorEdit
  <2> HIDE DEF m
  <2> QED BY <1>2, <2>1 DEF m
<1>4. ASSUME NEW r \in Receipts, NEW k \in EventKinds
      PROVE  Fits(Attested(k, r)) /\ NoNews(Attested(k, r))
  <2> DEFINE m == Attested(k, r)
  <2>1. m \in Contents /\ m.mint = mem.mint /\ m.intents = mem.intents
    BY AttestEdit DEF Attested
  <2> HIDE DEF m
  <2> QED BY <1>2, <2>1 DEF m
<1>5. ASSUME NEW i \in Nat, NEW s \in RedeemIntentStatus,
             \/ s = "expired"
             \/ s = "receipt-received" /\ \E r \in Receipts : i = IntentOf(r)
             \/ s = "released" /\
                    \E r \in Receipts : i = IntentOf(r) /\ mem.mint[r].status = "redeemed"
      PROVE  Fits(WithIntent(i, s)) /\ NoNews(WithIntent(i, s))
  <2> DEFINE m == WithIntent(i, s)
  <2>0. m = [mem EXCEPT !.intents[i].status = s]
    BY DEF WithIntent
  <2> HIDE DEF m
  <2>1. /\ m \in Contents /\ m.mint = mem.mint
        /\ DOMAIN m.intents = DOMAIN mem.intents
        /\ \A j \in DOMAIN mem.intents :
             /\ m.intents[j].payout = mem.intents[j].payout
             /\ m.intents[j].status = IF j = i THEN s ELSE mem.intents[j].status
    BY <2>0, IntentEdit
  <2>2. \A j \in DOMAIN m.intents :
          \/ j \in DOMAIN mem.intents /\ m.intents[j].status = mem.intents[j].status
          \/ m.intents[j].status \in {"awaiting-receipt", "expired"}
          \/ /\ m.intents[j].status = "receipt-received"
             /\ \E q \in Receipts : m.mint[q].intent = j
          \/ \E q \in Receipts : m.mint[q].intent = j /\ m.mint[q].status = "redeemed"
    <3> TAKE j \in DOMAIN m.intents
    <3>1. CASE j = i
      <4>1. m.intents[j].status = s /\ j \in DOMAIN mem.intents
        BY <2>1, <3>1
      <4>2. \A r \in Receipts : i = IntentOf(r) => m.mint[r].intent = j
        BY <2>1, <3>1 DEF IntentOf
      <4> QED BY <1>5, <2>1, <4>1, <4>2
    <3> QED BY <2>1, <3>1
  <2>3. Fits(m)
    BY <2>1, <2>2, Onward
  <2> QED BY <2>1, <2>3 DEF NoNews, m
<1>6. \A r \in Receipts : IntentOf(r) \in Nat
  BY Shape DEF IntentOf, MintRow
<1> QED BY <1>1, <1>3, <1>4, <1>5, <1>6 DEF RedeemIntentStatus

(* A registration is put: nothing is known of it yet, and no other changes.*)
LEMMA RegistrationPut ==
    ASSUME mem \in Contents, VersionOK(mem), NEW h \in Holders, NEW a \in Addresses,
           registered \in Nat, registered < MaxIntents
    PROVE  Fits(WithRegistration(h, a)) /\ NoNews(WithRegistration(h, a))
<1> DEFINE new == [holder |-> h, payout |-> a, status |-> "awaiting-receipt"]
           D == DOMAIN mem.intents
           E == D \cup {registered + 1}
           f == [i \in E |-> IF i \in D THEN mem.intents[i] ELSE new]
           m == WithRegistration(h, a)
<1>1. new \in RedeemIntent
  BY DEF RedeemIntent, RedeemIntentStatus
<1>2. D \subseteq Ids /\ mem.intents \in [D -> RedeemIntent]
  BY Shape
<1>3. registered + 1 \in Ids
  BY RedeemConstants DEF Ids
<1>4. E \in SUBSET Ids /\ f \in [E -> RedeemIntent]
  BY <1>1, <1>2, <1>3
<1>5. m = [mem EXCEPT !.intents = f]
  BY DEF WithRegistration, Contents
<1>6. m \in Contents /\ m.mint = mem.mint /\ m.intents = f
  <2> HIDE DEF f, E, m
  <2>1. f \in UNION {[S -> RedeemIntent] : S \in SUBSET Ids}
    BY <1>4
  <2> QED BY <1>5, <2>1 DEF Contents
<1>7. \A j \in D : j \in DOMAIN m.intents /\ m.intents[j] = mem.intents[j]
  <2> HIDE DEF m
  <2> QED BY <1>6
<1>8. \A j \in DOMAIN m.intents : j \in D \/ m.intents[j].status = "awaiting-receipt"
  <2> HIDE DEF m
  <2> QED BY <1>6
<1> HIDE DEF m
<1>9. Fits(m)
  BY <1>6, <1>7, <1>8, Onward
<1> QED BY <1>6, <1>9 DEF NoNews, m

-----------------------------------------------------------------------------
(* The store's part of a step.  A return once mined stays where it is.     *)
BackKept == \A r \in Receipts : back[r] # Unspent => back'[r] = back[r]

LEMMA VersionKept ==
    ASSUME BackKept, NEW m, VersionOK(m)
    PROVE  VersionOK(m)'
<1>1. \A r \in Receipts : BoundIn(m, r) => BoundIn(m, r)'
  BY DEF BackKept, BoundIn, Unspent
<1> QED BY <1>1 DEF VersionOK, Claimed

LEMMA StoreStep ==
    ASSUME StoreTypeOK, VersionsOK, BackKept, NEW t \in Writers, NEW m, Fits(m), Stores(t, m)
    PROVE  /\ StoreTypeOK' /\ VersionsOK'
           /\ Reload \/ Keeps(mem, mem')
           /\ mem' \in Contents
<1>1. m \in Contents /\ VersionOK(m) /\ Keeps(mem, m)
  BY DEF Fits
<1>2. /\ Versions' \subseteq Versions \cup {m}
      /\ StoreTypeOK'
  BY <1>1, VersionsAfter
<1>3. \A x \in Versions' : VersionOK(x)'
  <2> TAKE x \in Versions'
  <2>1. VersionOK(x)
    BY <1>1, <1>2 DEF VersionsOK
  <2> QED BY <2>1, VersionKept
<1>4. VersionsOK'
  BY <1>3 DEF VersionsOK
<1>5. Keeps(mem, mem)
  BY DEF Keeps
<1>6. mem' = mem \/ mem' = m \/ Reload
  BY DEF Stores, Put, PutRejected, Settle, SettlePut, WriteFails, storeVars
<1> QED BY <1>1, <1>2, <1>4, <1>5, <1>6 DEF StoreTypeOK

(* The tick's own step: it puts when it has nothing under way, waits while *)
(* it has.                                                                 *)
LEMMA TickStore ==
    ASSUME StoreTypeOK, VersionsOK, WaitInv, BackKept, NEW m, Fits(m),
           \/ Put("tick", m) /\ pc \notin Waiting /\ pc' \in Waiting
           \/ SettlePut("tick", m) /\ pc' \in Waiting
           \/ Settle("tick")
           \/ (PutRejected(m) \/ UNCHANGED storeVars) /\ (pc \in Waiting => pc' \in Waiting)
    PROVE  StoreTypeOK' /\ VersionsOK' /\ WaitInv' /\ Keeps(mem, mem')
<1>1. "tick" \in Writers /\ m \in Contents
  BY DEF Writers, Fits
<1>2. StoreTypeOK' /\ VersionsOK' /\ (Reload \/ Keeps(mem, mem'))
  BY <1>1, StoreStep DEF Stores
<1>3. Keeps(mem, m) /\ Keeps(mem, mem)
  BY DEF Keeps, Fits
<1>4. mem' \in {mem, m}
  BY DEF Put, PutRejected, Settle, SettlePut, storeVars
<1>5. OneWrite' /\ (pc' \notin Waiting => Quiet("tick")')
  BY <1>1, OneWriteAfter DEF WaitInv
<1> QED BY <1>2, <1>3, <1>4, <1>5 DEF WaitInv, Waiting

(* The step of another chain, whose put lies beside the tick's.            *)
LEMMA BesideStore ==
    ASSUME StoreTypeOK, VersionsOK, WaitInv, BackKept, NEW m, Fits(m),
           NEW t \in Writers \ {"tick"},
           Put(t, m) \/ PutRejected(m) \/ Settle(t), pc' = pc
    PROVE  StoreTypeOK' /\ VersionsOK' /\ WaitInv' /\ Keeps(mem, mem')
<1>1. m \in Contents
  BY DEF Fits
<1>2. StoreTypeOK' /\ VersionsOK'
  BY StoreStep DEF Stores
<1>3. Keeps(mem, m) /\ Keeps(mem, mem)
  BY DEF Keeps, Fits
<1>4. mem' \in {mem, m}
  BY DEF Put, PutRejected, Settle
<1>5. OneWrite' /\ (Quiet("tick") => Quiet("tick")')
  BY <1>1, OneWriteAfter DEF WaitInv
<1> QED BY <1>2, <1>3, <1>4, <1>5 DEF WaitInv, Waiting

(* A write fails, or a new process reads the file.                         *)
LEMMA LostStore ==
    ASSUME StoreTypeOK, VersionsOK, BackKept, WriteFails \/ Reload, OneWrite
    PROVE  /\ StoreTypeOK' /\ VersionsOK' /\ WaitInv'
           /\ WriteFails => Keeps(mem, mem')
<1>1. mem \in Contents /\ VersionOK(mem) /\ "tick" \in Writers
  BY DEF StoreTypeOK, VersionsOK, Versions, Writers
<1>2. Fits(mem) /\ Keeps(mem, mem)
  BY <1>1 DEF Fits, Keeps
<1>3. StoreTypeOK' /\ VersionsOK'
  BY <1>1, <1>2, StoreStep DEF Stores
<1>4. OneWrite' /\ Quiet("tick")'
  BY <1>1, OneWriteAfter
<1>5. WriteFails => Keeps(mem, mem')
  BY <1>2 DEF WriteFails
<1> QED BY <1>3, <1>4, <1>5 DEF WaitInv

-----------------------------------------------------------------------------
(* The invariant is kept by the tick's steps.                              *)
LEMMA Mem ==
    ASSUME StoreTypeOK, VersionsOK
    PROVE  /\ mem \in Contents /\ VersionOK(mem) /\ Fits(mem)
           /\ \A r \in Receipts : IntentOf(r) # NoIntent => Claimed(mem, r) /\ BoundIn(mem, r)
           /\ \A r \in Receipts : Keeps(mem, mem') =>
                /\ IntentOf(r) # NoIntent => IntentOf(r)' = IntentOf(r)
                /\ mem.mint[r].status = "redeemed" => mem'.mint[r].status = "redeemed"
<1>1. mem \in Contents /\ VersionOK(mem)
  BY DEF StoreTypeOK, VersionsOK, Versions
<1>2. Fits(mem)
  BY <1>1, OtherPuts
<1>3. \A r \in Receipts : IntentOf(r) # NoIntent => Claimed(mem, r) /\ BoundIn(mem, r)
  BY <1>1 DEF VersionOK, IntentOf
<1> QED BY <1>1, <1>2, <1>3 DEF Keeps, Claimed, IntentOf

LEMMA OutsideKept ==
    ASSUME OutsideTypeOK, PaymentInv, UNCHANGED outsideVars
    PROVE  OutsideTypeOK' /\ PaymentInv' /\ BackKept /\ req' = req /\ back' = back
BY DEF OutsideTypeOK, PaymentInv, Committing, BackKept, outsideVars, walletVars, chainVars

LEMMA ScanSteps ==
    ASSUME ReleaseInv,
           \/ TickStart \/ FirstScan \/ NothingNew \/ ScanStart \/ ScanBlock
           \/ AdvanceCursor \/ TickEnd \/ ScanFails
    PROVE  ReleaseInv'
<1> USE DEF ReleaseInv, TypeOK
<1>1. /\ OutsideTypeOK' /\ PaymentInv' /\ BackKept /\ req' = req /\ back' = back
  BY OutsideKept DEF TickStart, FirstScan, NothingNew, ScanStart, ScanBlock,
                     AdvanceCursor, TickEnd, ScanFails
<1>2. /\ mem \in Contents /\ VersionOK(mem) /\ Fits(mem)
      /\ \A c \in Nat : Fits([mem EXCEPT !.cursor = c])
  BY Mem, OtherPuts
<1>3. mem.cursor \in Nat /\ tip \in Nat /\ upTo \in Nat /\ height \in Nat
  BY <1>2, Shape DEF OutsideTypeOK, TickTypeOK
<1>4. StoreTypeOK' /\ VersionsOK' /\ WaitInv' /\ Keeps(mem, mem')
  <2>1. CASE TickStart \/ ScanStart \/ ScanBlock \/ TickEnd \/ ScanFails
    <3>1. UNCHANGED storeVars /\ pc \notin Waiting
      BY <2>1 DEF TickStart, ScanStart, ScanBlock, TickEnd, ScanFails, Waiting
    <3> QED BY <1>1, <1>2, <3>1, TickStore
  <2>2. CASE FirstScan
    <3> DEFINE m == [mem EXCEPT !.cursor = tip]
    <3>1. \/ Put("tick", m) /\ pc \notin Waiting /\ pc' \in Waiting
          \/ PutRejected(m) /\ pc \notin Waiting
      BY <2>2 DEF FirstScan, Save, Step, Waiting
    <3>2. Fits(m)
      BY <1>2, <1>3
    <3> HIDE DEF m
    <3> QED BY <1>1, <3>1, <3>2, TickStore
  <2>3. CASE AdvanceCursor
    <3> DEFINE m == [mem EXCEPT !.cursor = upTo]
    <3>1. \/ Put("tick", m) /\ pc \notin Waiting /\ pc' \in Waiting
          \/ PutRejected(m) /\ pc \notin Waiting
      BY <2>3 DEF AdvanceCursor, Save, Step, Waiting
    <3>2. Fits(m)
      BY <1>2, <1>3
    <3> HIDE DEF m
    <3> QED BY <1>1, <3>1, <3>2, TickStore
  <2>4. CASE NothingNew
    <3>1. \/ Settle("tick")
          \/ UNCHANGED storeVars /\ pc \notin Waiting
      BY <2>4 DEF NothingNew, Waiting
    <3> QED BY <1>1, <1>2, <3>1, TickStore
  <2> QED BY <2>1, <2>2, <2>3, <2>4
<1>5. TickTypeOK' /\ TickInv'
  <2> USE DEF TickTypeOK, TickInv
  <2>1. CASE TickStart
    BY <1>1, <2>1 DEF TickStart, Locations
  <2>2. CASE FirstScan
    BY <1>1, <2>2 DEF FirstScan, Save, Step, Throw, Locations
  <2>3. CASE NothingNew
    BY <1>1, <2>3 DEF NothingNew, StartReleases, Redeeming, Locations
  <2>4. CASE ScanStart
    BY <1>1, <1>3, <2>4 DEF ScanStart, FirstBlock, Locations
  <2>5. CASE ScanBlock
    <3>1. \A r \in todo' : back[r] # Unspent
      BY <2>5 DEF ScanBlock, Unspent
    <3> QED BY <1>1, <1>3, <2>5, <3>1 DEF ScanBlock, Locations
  <2>6. CASE AdvanceCursor
    BY <1>1, <2>6 DEF AdvanceCursor, Save, Step, Throw, Locations
  <2>7. CASE TickEnd
    BY <1>1, <2>7 DEF TickEnd, Locations
  <2>8. CASE ScanFails
    BY <1>1, <2>8 DEF ScanFails, Throw, Locations
  <2> QED BY <2>1, <2>2, <2>3, <2>4, <2>5, <2>6, <2>7, <2>8
<1> QED BY <1>1, <1>4, <1>5

LEMMA ReturnSteps ==
    ASSUME ReleaseInv, NEW r \in Receipts,
           SkipReturn(r) \/ ClaimReturn(r) \/ TellReceived(r) \/ AttestReturn(r) \/ ToRelease(r)
    PROVE  ReleaseInv'
<1> USE DEF ReleaseInv, TypeOK
<1>1. /\ OutsideTypeOK' /\ PaymentInv' /\ BackKept /\ req' = req /\ back' = back
  BY OutsideKept DEF SkipReturn, ClaimReturn, TellReceived, AttestReturn, ToRelease, Follow
<1>2. mem \in Contents /\ VersionOK(mem) /\ Fits(mem)
  BY Mem
<1>3. NextReturn(r) => back[r] # Unspent
  BY DEF NextReturn, TickInv
<1>4. StoreTypeOK' /\ VersionsOK' /\ WaitInv' /\ Keeps(mem, mem')
  <2>1. CASE SkipReturn(r)
    <3>1. UNCHANGED storeVars /\ pc \notin Waiting
      BY <2>1 DEF SkipReturn, NextReturn, Waiting
    <3> QED BY <1>1, <1>2, <3>1, TickStore
  <2>2. CASE ClaimReturn(r)
    <3> DEFINE m == WithClaim(r, Binding(r))
    <3>1. \/ Put("tick", m) /\ pc \notin Waiting /\ pc' \in Waiting
          \/ PutRejected(m) /\ pc \notin Waiting
      BY <2>2 DEF ClaimReturn, NextReturn, Waiting
    <3>2. Fits(m)
      BY <1>2, <1>3, <2>2, MintPuts DEF ClaimReturn
    <3> HIDE DEF m
    <3> QED BY <1>1, <3>1, <3>2, TickStore
  <2>3. CASE TellReceived(r)
    <3> DEFINE m == WithIntent(IntentOf(r), "receipt-received")
    <3>1. SettlePut("tick", m) /\ pc' \in Waiting
      BY <2>3 DEF TellReceived, Follow, Step, Waiting
    <3>2. Fits(m)
      BY <1>2, OtherPuts
    <3> HIDE DEF m
    <3> QED BY <1>1, <3>1, <3>2, TickStore
  <2>4. CASE AttestReturn(r)
    <3> DEFINE m == Attested("receipt-returned", r)
    <3>1. SettlePut("tick", m) /\ pc' \in Waiting
      BY <2>4 DEF AttestReturn, Follow, Step, Waiting
    <3>2. Fits(m)
      BY <1>2, OtherPuts DEF EventKinds
    <3> HIDE DEF m
    <3> QED BY <1>1, <3>1, <3>2, TickStore
  <2>5. CASE ToRelease(r)
    BY <1>1, <1>2, <2>5, TickStore DEF ToRelease
  <2> QED BY <2>1, <2>2, <2>3, <2>4, <2>5
<1>5. TickTypeOK' /\ TickInv'
  <2> USE DEF TickTypeOK, TickInv
  <2>1. CASE SkipReturn(r)
    BY <1>1, <2>1 DEF SkipReturn, NextReturn
  <2>2. CASE ClaimReturn(r)
    BY <1>1, <2>2 DEF ClaimReturn, NextReturn, Throw, Locations
  <2>3. CASE TellReceived(r)
    BY <1>1, <2>3 DEF TellReceived, Follow, Step, Locations
  <2>4. CASE AttestReturn(r)
    BY <1>1, <2>4 DEF AttestReturn, Follow, Step, Locations
  <2>5. CASE ToRelease(r)
    BY <1>1, <2>5 DEF ToRelease, Step, Locations
  <2> QED BY <2>1, <2>2, <2>3, <2>4, <2>5
<1> QED BY <1>1, <1>4, <1>5

(* A deferred or a begun release, and the payment asked for.               *)
LEMMA AskSteps ==
    ASSUME ReleaseInv, NEW r \in Receipts,
           TickRelease(r) \/ ReleaseDeferred(r) \/ ReleaseStart(r) \/ SendToAddress(r)
    PROVE  ReleaseInv'
<1> USE DEF ReleaseInv, TypeOK
<1>1. UNCHANGED <<storeVars, late, sends, chainVars, registered, paused, crashes, faults>>
  BY DEF TickRelease, ReleaseDeferred, ReleaseStart, SendToAddress, outsideVars, walletVars
<1>2. /\ mem \in Contents /\ VersionOK(mem) /\ Fits(mem)
      /\ BackKept /\ back' = back
  BY <1>1, Mem DEF BackKept, chainVars
<1>3. OutsideTypeOK' /\ PaymentInv'
  <2>1. req' \in {"none", "open", "sent", "refused"}
    BY DEF OutsideTypeOK, TickRelease, ReleaseDeferred, ReleaseStart, SendToAddress,
           outsideVars, walletVars
  <2> QED BY <1>1, <2>1 DEF OutsideTypeOK, PaymentInv, Committing, chainVars
<1>4. StoreTypeOK' /\ VersionsOK' /\ WaitInv'
  <2>1. UNCHANGED storeVars /\ pc \notin Waiting
    BY <1>1 DEF TickRelease, ReleaseDeferred, ReleaseStart, SendToAddress, Waiting
  <2> QED BY <1>2, <2>1, TickStore
<1>5. mem' = mem
  BY <1>1 DEF storeVars
<1>6. TickTypeOK' /\ TickInv'
  <2> USE DEF TickTypeOK, TickInv
  <2>1. CASE TickRelease(r)
    BY <1>2, <2>1 DEF TickRelease, outsideVars, walletVars, Locations
  <2>2. CASE ReleaseDeferred(r)
    BY <1>2, <2>2 DEF ReleaseDeferred, Return, outsideVars, walletVars, Locations
  <2>3. CASE ReleaseStart(r)
    BY <1>2, <1>5, <2>3 DEF ReleaseStart, Deferred, IntentOf, Step, outsideVars, walletVars, Locations
  <2>4. CASE SendToAddress(r)
    BY <1>2, <1>5, <2>4 DEF SendToAddress, IntentOf, Step, Locations
  <2> QED BY <2>1, <2>2, <2>3, <2>4
<1> QED BY <1>3, <1>4, <1>6

(* What the tick asks the wallet to pay goes where the return commits to.  *)
LEMMA PayoutFits ==
    ASSUME ReleaseInv, pc \in {"history", "send"}
    PROVE  Payout(cur) \in Payments /\ Committing(Payout(cur))
<1>1. cur \in Receipts /\ IntentOf(cur) # NoIntent
  BY DEF ReleaseInv, TickInv
<1>2. BoundIn(mem, cur) /\ mem \in Contents
  BY <1>1, Mem DEF ReleaseInv, TypeOK
<1>3. /\ IntentOf(cur) \in DOMAIN mem.intents
      /\ mem.intents[IntentOf(cur)] \in RedeemIntent
      /\ IntentOf(cur) \in Nat
  BY <1>1, <1>2, Shape DEF BoundIn, IntentOf, MintRow
<1>4. mem.intents[IntentOf(cur)].payout \in Addresses
  BY <1>3 DEF RedeemIntent
<1>5. Payout(cur) \in Payments
  BY <1>1, <1>3, <1>4 DEF Payout, Payments
<1>6. Committing(Payout(cur))
  BY <1>2 DEF Payout, Committing, BoundIn, IntentOf
<1> QED BY <1>5, <1>6

LEMMA AnswerSteps ==
    ASSUME ReleaseInv, NEW r \in Receipts,
           HistoryFound(r) \/ HistoryFails(r) \/ SendOk(r) \/ SendFails(r)
    PROVE  ReleaseInv'
<1> USE DEF ReleaseInv, TypeOK
<1>1. cur = r /\ pc \in {"history", "send"} /\ UNCHANGED <<sends, chainVars, registered, paused, crashes, faults>>
  BY DEF HistoryFound, HistoryFails, SendOk, SendFails, outsideVars, walletVars
<1>2. /\ mem \in Contents /\ VersionOK(mem) /\ Fits(mem)
      /\ BackKept /\ back' = back
  BY <1>1, Mem DEF BackKept, chainVars
<1>3. Payout(r) \in Payments /\ Committing(Payout(r)) /\ IntentOf(r) # NoIntent
  BY <1>1, PayoutFits DEF TickInv
<1>4. late' = late \/ late' = Append(late, Payout(r))
  BY DEF HistoryFound, HistoryFails, SendOk, SendFails, outsideVars, walletVars
<1>5. late' \in Seq(Payments) /\ \A k \in DOMAIN late' : Committing(late'[k])
  <2>1. CASE late' = late
    BY <2>1 DEF OutsideTypeOK, PaymentInv
  <2>2. CASE late' = Append(late, Payout(r))
    <3>1. late \in Seq(Payments)
      BY DEF OutsideTypeOK
    <3>2. /\ late' \in Seq(Payments)
          /\ DOMAIN late' = 1..(Len(late) + 1) /\ DOMAIN late = 1..Len(late)
          /\ \A k \in 1..Len(late) : late'[k] = late[k]
          /\ late'[Len(late) + 1] = Payout(r)
      BY <1>3, <2>2, <3>1, AppendProperties
    <3>3. \A k \in 1..(Len(late) + 1) : k \in 1..Len(late) \/ k = Len(late) + 1
      BY <3>1
    <3> QED BY <1>3, <3>2, <3>3 DEF PaymentInv
  <2> QED BY <1>4, <2>1, <2>2
<1>6. req' = "none"
  BY DEF HistoryFound, HistoryFails, SendOk, SendFails, outsideVars, walletVars, TickInv
<1>7. OutsideTypeOK' /\ PaymentInv'
  <2>1. OutsideTypeOK'
    BY <1>1, <1>5, <1>6 DEF OutsideTypeOK, chainVars
  <2>2. \A p : Committing(p)' <=> Committing(p)
    BY <1>2 DEF Committing
  <2> QED BY <1>1, <1>5, <2>1, <2>2 DEF PaymentInv
<1>8. PICK m : /\ Fits(m)
               /\ \/ Save(m, "failed")
                  \/ Save(m, "redeemed") /\ m.mint[r].status = "redeemed"
  <2>1. Fits(WithRedeemed(r)) /\ WithRedeemed(r).mint[r].status = "redeemed"
    BY <1>2, <1>3, MintPuts
  <2> QED BY <1>2, <2>1 DEF HistoryFound, HistoryFails, SendOk, SendFails
<1>9. StoreTypeOK' /\ VersionsOK' /\ WaitInv'
  <2>1. \/ Put("tick", m) /\ pc \notin Waiting /\ pc' \in Waiting
        \/ PutRejected(m) /\ pc \notin Waiting
    BY <1>1, <1>8 DEF Save, Step, Waiting
  <2> QED BY <1>2, <1>8, <2>1, TickStore
<1>10. TickTypeOK' /\ TickInv'
  <2>1. CASE Save(m, "failed")
    BY <1>1, <1>2, <1>6, <2>1 DEF TickTypeOK, TickInv, Save, Step, Throw, Locations
  <2>2. CASE Save(m, "redeemed") /\ m.mint[r].status = "redeemed"
    <3>1. CASE Put("tick", m) /\ Step("redeemed")
      <4>1. mem' = m
        BY <3>1 DEF Put
      <4> QED BY <1>1, <1>2, <1>6, <2>2, <3>1, <4>1 DEF TickTypeOK, TickInv, Step, Locations
    <3>2. CASE Throw
      BY <1>1, <1>2, <1>6, <3>2 DEF TickTypeOK, TickInv, Throw, Locations
    <3> QED BY <2>2, <3>1, <3>2 DEF Save
  <2> QED BY <1>8, <2>1, <2>2
<1> QED BY <1>7, <1>9, <1>10

LEMMA FinishSteps ==
    ASSUME ReleaseInv, NEW r \in Receipts,
           TellReleased(r) \/ AttestRelease(r) \/ Finish(r)
    PROVE  ReleaseInv'
<1> USE DEF ReleaseInv, TypeOK
<1>1. /\ OutsideTypeOK' /\ PaymentInv' /\ BackKept /\ req' = req /\ back' = back
  BY OutsideKept DEF TellReleased, AttestRelease, Finish, Follow
<1>2. mem \in Contents /\ VersionOK(mem) /\ Fits(mem)
  BY Mem
<1>3. StoreTypeOK' /\ VersionsOK' /\ WaitInv' /\ Keeps(mem, mem')
  <2>1. CASE TellReleased(r)
    <3> DEFINE m == WithIntent(IntentOf(r), "released")
    <3>1. SettlePut("tick", m) /\ pc' \in Waiting /\ mem.mint[r].status = "redeemed"
      BY <2>1 DEF TellReleased, Follow, Step, Waiting, TickInv
    <3>2. Fits(m)
      BY <1>2, <3>1, OtherPuts
    <3> HIDE DEF m
    <3> QED BY <1>1, <3>1, <3>2, TickStore
  <2>2. CASE AttestRelease(r)
    <3> DEFINE m == Attested("btc-released", r)
    <3>1. SettlePut("tick", m) /\ pc' \in Waiting
      BY <2>2 DEF AttestRelease, Follow, Step, Waiting
    <3>2. Fits(m)
      BY <1>2, OtherPuts DEF EventKinds
    <3> HIDE DEF m
    <3> QED BY <1>1, <3>1, <3>2, TickStore
  <2>3. CASE Finish(r)
    BY <1>1, <1>2, <2>3, TickStore DEF Finish
  <2> QED BY <2>1, <2>2, <2>3
<1>4. TickTypeOK' /\ TickInv'
  <2> USE DEF TickTypeOK, TickInv
  <2>1. CASE TellReleased(r)
    BY <1>1, <2>1 DEF TellReleased, Follow, Step, Locations
  <2>2. CASE AttestRelease(r)
    BY <1>1, <2>2 DEF AttestRelease, Follow, Step, Locations
  <2>3. CASE Finish(r)
    BY <1>1, <2>3 DEF Finish, Return, Locations
  <2> QED BY <2>1, <2>2, <2>3
<1> QED BY <1>1, <1>3, <1>4

-----------------------------------------------------------------------------
(* ... and by what goes on beside the tick.                                *)
LEMMA TickKept ==
    ASSUME StoreTypeOK, VersionsOK, TickTypeOK, TickInv, UNCHANGED tickVars,
           Keeps(mem, mem'), BackKept, req' # "none" => req # "none"
    PROVE  TickTypeOK' /\ TickInv'
<1>1. UNCHANGED <<pc, cur, phase, todo, height, upTo>>
  BY DEF tickVars
<1>2. TickTypeOK'
  BY <1>1 DEF TickTypeOK
<1>3. \A r \in Receipts :
        /\ IntentOf(r) # NoIntent => IntentOf(r)' = IntentOf(r)
        /\ mem.mint[r].status = "redeemed" => mem'.mint[r].status = "redeemed"
  BY Mem
<1>4. pc \in {"history", "send"} => cur \in Receipts /\ mem'.mint[cur].intent # NoIntent
  BY <1>3 DEF TickInv, IntentOf
<1>5. pc = "redeemed" => cur \in Receipts /\ mem'.mint[cur].status = "redeemed"
  BY <1>3 DEF TickInv
<1>6. \A r \in Receipts : back[r] # Unspent => back'[r] # Unspent
  BY DEF BackKept, Unspent
<1>7. phase = "returns" => \A r \in todo : back'[r] # Unspent
  BY <1>6 DEF TickInv, TickTypeOK
<1>8. IntentOf(cur)' = (mem'.mint[cur].intent)
  BY <1>1 DEF IntentOf
<1>9. (pc \in {"history", "send"} => cur \in Receipts /\ IntentOf(cur) # NoIntent)'
  BY <1>1, <1>4, <1>8
<1>10. (phase = "returns" => \A r \in todo : back[r] # Unspent)'
  BY <1>1, <1>7 DEF Unspent
<1> QED BY <1>1, <1>2, <1>5, <1>9, <1>10 DEF TickInv

LEMMA BesideSteps ==
    ASSUME ReleaseInv, BesideNext
    PROVE  ReleaseInv'
<1> USE DEF ReleaseInv, TypeOK
<1>1. mem \in Contents /\ VersionOK(mem) /\ Fits(mem)
  BY Mem
<1>2. UNCHANGED <<tickVars, walletVars, chainVars, paused, crashes, faults>>
  BY DEF BesideNext, Register, PollExpire, RecordMint, Beside, BesideWritten, outsideVars
<1>3. BackKept /\ back' = back /\ req' = req /\ pc' = pc
  BY <1>2 DEF BackKept, chainVars, walletVars, tickVars
<1>4. PICK m : /\ Fits(m)
               /\ \E t \in Writers \ {"tick"} : Put(t, m) \/ PutRejected(m) \/ Settle(t)
  <2>0. {"api", "poll", "mint"} \subseteq Writers \ {"tick"}
    BY DEF Writers
  <2>1. CASE \E h \in Holders, a \in Addresses : Register(h, a)
    <3>1. PICK h \in Holders, a \in Addresses : Register(h, a)
      BY <2>1
    <3>2. Fits(WithRegistration(h, a))
      BY <1>1, <3>1, RegistrationPut DEF Register, OutsideTypeOK
    <3> QED BY <2>0, <3>1, <3>2 DEF Register
  <2>2. CASE \E i \in DOMAIN mem.intents : PollExpire(i)
    <3>1. PICK i \in DOMAIN mem.intents : PollExpire(i)
      BY <2>2
    <3>2. i \in Nat
      BY <1>1, Shape DEF Ids
    <3>3. Fits(WithIntent(i, "expired"))
      BY <1>1, <3>2, OtherPuts
    <3> QED BY <2>0, <3>1, <3>3 DEF PollExpire, Beside
  <2>3. CASE \E r \in Receipts : RecordMint(r)
    <3>1. PICK r \in Receipts : RecordMint(r)
      BY <2>3
    <3>2. Fits([mem EXCEPT !.mint[r].status = "minted"])
      BY <1>1, <3>1, MintPuts DEF RecordMint
    <3> QED BY <2>0, <3>1, <3>2 DEF RecordMint, Beside
  <2>4. CASE BesideWritten
    BY <1>1, <2>0, <2>4 DEF BesideWritten
  <2> QED BY <2>1, <2>2, <2>3, <2>4 DEF BesideNext
<1>5. StoreTypeOK' /\ VersionsOK' /\ WaitInv' /\ Keeps(mem, mem')
  BY <1>3, <1>4, BesideStore
<1>6. TickTypeOK' /\ TickInv'
  BY <1>2, <1>3, <1>5, TickKept
<1>7. registered' \in Nat
  <2>1. registered' = registered \/ registered' = registered + 1
    BY DEF BesideNext, Register, PollExpire, RecordMint, Beside, BesideWritten, outsideVars
  <2> QED BY <2>1 DEF OutsideTypeOK
<1>8. OutsideTypeOK' /\ PaymentInv'
  <2>1. OutsideTypeOK'
    BY <1>2, <1>7 DEF OutsideTypeOK, walletVars, chainVars
  <2>2. PaymentInv'
    BY <1>2 DEF PaymentInv, Committing, walletVars, chainVars
  <2> QED BY <2>1, <2>2
<1> QED BY <1>5, <1>6, <1>8

(* The wallet's steps.                                                     *)
LEMMA Appended ==
    ASSUME NEW q \in Seq(Payments), NEW p \in Payments
    PROVE  /\ Append(q, p) \in Seq(Payments)
           /\ DOMAIN q = 1..Len(q) /\ Len(q) \in Nat
           /\ DOMAIN Append(q, p) = 1..(Len(q) + 1)
           /\ \A k \in 1..Len(q) : Append(q, p)[k] = q[k]
           /\ Append(q, p)[Len(q) + 1] = p
           /\ \A k \in 1..(Len(q) + 1) : k \in 1..Len(q) \/ k = Len(q) + 1
<1>1. DOMAIN q = 1..Len(q) /\ Len(q) \in Nat
  OBVIOUS
<1>2. \A k \in 1..(Len(q) + 1) : k \in 1..Len(q) \/ k = Len(q) + 1
  BY <1>1
<1> QED BY <1>1, <1>2, AppendProperties

LEMMA WalletSteps ==
    ASSUME ReleaseInv, (\E r \in Receipts : WalletPays(r)) \/ WalletRefuses \/ WalletPaysLate
    PROVE  ReleaseInv'
<1> USE DEF ReleaseInv, TypeOK
<1>1. UNCHANGED <<storeVars, tickVars, chainVars, registered, paused, crashes, faults>>
  BY DEF WalletPays, WalletRefuses, WalletPaysLate
<1>2. BackKept /\ back' = back /\ Fits(mem) /\ pc' = pc
  BY <1>1, Mem DEF BackKept, chainVars, tickVars
<1>3. StoreTypeOK' /\ VersionsOK' /\ WaitInv' /\ Keeps(mem, mem')
  BY <1>1, <1>2, TickStore
<1>4. (req' # "none" => req # "none") /\ req' \in {"none", "open", "sent", "refused"}
  BY DEF WalletPays, WalletRefuses, WalletPaysLate, OutsideTypeOK
<1>5. TickTypeOK' /\ TickInv'
  BY <1>1, <1>2, <1>3, <1>4, TickKept
<1>6. sends \in Seq(Payments) /\ late \in Seq(Payments)
  BY DEF OutsideTypeOK
<1>7. ASSUME NEW p \in Payments, Committing(p), sends' = Append(sends, p)
      PROVE  sends' \in Seq(Payments) /\ \A k \in DOMAIN sends' : Committing(sends'[k])
  BY <1>6, <1>7, Appended DEF PaymentInv
<1>8. /\ sends' \in Seq(Payments) /\ \A k \in DOMAIN sends' : Committing(sends'[k])
      /\ late' \in Seq(Payments) /\ \A k \in DOMAIN late' : Committing(late'[k])
  <2>1. CASE \E r \in Receipts : WalletPays(r)
    <3>1. sends' = Append(sends, Payout(cur)) /\ late' = late /\ pc = "send"
      BY <2>1 DEF WalletPays, TickInv
    <3>2. Payout(cur) \in Payments /\ Committing(Payout(cur))
      BY <3>1, PayoutFits
    <3> QED BY <1>6, <1>7, <3>1, <3>2 DEF PaymentInv
  <2>2. CASE WalletRefuses
    BY <1>6, <2>2 DEF WalletRefuses, PaymentInv
  <2>3. CASE WalletPaysLate
    <3>1. sends' = Append(sends, Head(late)) /\ late' = Tail(late) /\ late # <<>>
      BY <2>3 DEF WalletPaysLate
    <3>2. /\ late' \in Seq(Payments) /\ Head(late) = late[1] /\ Head(late) \in Payments
          /\ Len(late') = Len(late) - 1 /\ Len(late) \in Nat
          /\ \A k \in 1..(Len(late) - 1) : late'[k] = late[k + 1]
      BY <1>6, <3>1, HeadTailProperties
    <3>3. DOMAIN late' = 1..(Len(late) - 1) /\ DOMAIN late = 1..Len(late) /\ Len(late) > 0
      BY <1>6, <3>1, <3>2, EmptySeq
    <3>4. 1 \in DOMAIN late /\ \A k \in DOMAIN late' : k + 1 \in DOMAIN late
      BY <3>2, <3>3
    <3>5. Committing(Head(late)) /\ \A k \in DOMAIN late' : Committing(late'[k])
      BY <3>2, <3>3, <3>4 DEF PaymentInv
    <3> QED BY <1>7, <3>1, <3>2, <3>5
  <2> QED BY <2>1, <2>2, <2>3
<1>9. OutsideTypeOK' /\ PaymentInv'
  <2>1. OutsideTypeOK'
    BY <1>1, <1>4, <1>8 DEF OutsideTypeOK, chainVars
  <2>2. \A p : Committing(p)' <=> Committing(p)
    BY <1>2 DEF Committing
  <2> QED BY <1>8, <2>1, <2>2 DEF PaymentInv
<1> QED BY <1>3, <1>5, <1>9

(* What was paid, and what is owed, stays what its return commits to.      *)
LEMMA Element ==
    ASSUME NEW q \in Seq(Payments), NEW k \in DOMAIN q
    PROVE  q[k] \in Payments
BY ElementOfSeq

LEMMA PaymentKept ==
    ASSUME BackKept, sends \in Seq(Payments), late \in Seq(Payments),
           UNCHANGED <<sends, late>>, PaymentInv
    PROVE  PaymentInv'
<1>1. \A k \in DOMAIN sends : Committing(sends[k])'
  <2> TAKE k \in DOMAIN sends
  <2>1. sends[k] \in Payments /\ Committing(sends[k]) /\ sends'[k] = sends[k]
    BY Element DEF PaymentInv
  <2> DEFINE p == sends[k]
  <2>2. back'[p.receipt] = back[p.receipt]
    BY <2>1 DEF BackKept, Committing, Payments
  <2> QED BY <2>1, <2>2 DEF Committing, Unspent
<1>2. \A k \in DOMAIN late : Committing(late[k])'
  <2> TAKE k \in DOMAIN late
  <2>1. late[k] \in Payments /\ Committing(late[k]) /\ late'[k] = late[k]
    BY Element DEF PaymentInv
  <2> DEFINE p == late[k]
  <2>2. back'[p.receipt] = back[p.receipt]
    BY <2>1 DEF BackKept, Committing, Payments
  <2> QED BY <2>1, <2>2 DEF Committing, Unspent
<1> QED BY <1>1, <1>2 DEF PaymentInv

LEMMA MineStep ==
    ASSUME ReleaseInv, NEW S \in SUBSET {r \in Receipts : back[r] = Unspent}, MineBlock(S)
    PROVE  ReleaseInv'
<1> USE DEF ReleaseInv, TypeOK
<1>1. PICK c \in [S -> Addresses \cup {NoCommit}] :
        back' = [r \in Receipts |-> IF r \in S THEN [height |-> tip + 1, commit |-> c[r]]
                                    ELSE back[r]]
  BY DEF MineBlock
<1>2. /\ UNCHANGED <<storeVars, tickVars, walletVars, registered, paused, crashes, faults>>
      /\ tip' = tip + 1 /\ owed' \subseteq owed \cup S
  BY DEF MineBlock
<1>3. tip \in Nat /\ back \in [Receipts -> [height: Nat, commit: Addresses \cup {NoCommit}]]
  BY DEF OutsideTypeOK
<1>4. back' \in [Receipts -> [height: Nat, commit: Addresses \cup {NoCommit}]]
  <2>1. \A r \in S : [height |-> tip + 1, commit |-> c[r]]
                       \in [height: Nat, commit: Addresses \cup {NoCommit}]
    BY <1>3
  <2> QED BY <1>1, <1>3, <2>1
<1>5. BackKept
  BY <1>1 DEF BackKept
<1>6. Fits(mem) /\ pc' = pc /\ req' = req
  BY <1>2, Mem DEF tickVars, walletVars
<1>7. StoreTypeOK' /\ VersionsOK' /\ WaitInv' /\ Keeps(mem, mem')
  BY <1>2, <1>5, <1>6, TickStore
<1>8. TickTypeOK' /\ TickInv'
  BY <1>2, <1>5, <1>6, <1>7, TickKept
<1>9. OutsideTypeOK'
  BY <1>2, <1>3, <1>4 DEF OutsideTypeOK, walletVars
<1>10. PaymentInv'
  BY <1>2, <1>5, PaymentKept DEF OutsideTypeOK, walletVars
<1> QED BY <1>7, <1>8, <1>9, <1>10

LEMMA PauseStep == ReleaseInv /\ TogglePause => ReleaseInv'
<1> SUFFICES ASSUME ReleaseInv, TogglePause PROVE ReleaseInv'
  OBVIOUS
<1> USE DEF ReleaseInv, TypeOK
<1>1. /\ UNCHANGED <<storeVars, tickVars, walletVars, chainVars, registered, crashes, faults>>
      /\ paused' \in BOOLEAN
  BY DEF TogglePause
<1>2. BackKept /\ Fits(mem) /\ pc' = pc /\ req' = req
  BY <1>1, Mem DEF BackKept, tickVars, walletVars, chainVars
<1>3. StoreTypeOK' /\ VersionsOK' /\ WaitInv' /\ Keeps(mem, mem')
  BY <1>1, <1>2, TickStore
<1>4. TickTypeOK' /\ TickInv'
  BY <1>1, <1>2, <1>3, TickKept
<1>5. OutsideTypeOK'
  BY <1>1 DEF OutsideTypeOK, walletVars, chainVars
<1>6. PaymentInv'
  BY <1>1, <1>2, PaymentKept DEF OutsideTypeOK, walletVars
<1> QED BY <1>3, <1>4, <1>5, <1>6

LEMMA FaultStep == ReleaseInv /\ StoreFault => ReleaseInv'
<1> SUFFICES ASSUME ReleaseInv, StoreFault PROVE ReleaseInv'
  OBVIOUS
<1> USE DEF ReleaseInv, TypeOK
<1>1. /\ WriteFails /\ faults' = faults + 1
      /\ UNCHANGED <<walletVars, chainVars, registered, paused, crashes>>
      /\ IF "tick" \in Awaiting THEN Throw ELSE UNCHANGED tickVars
  BY DEF StoreFault
<1>2. BackKept /\ back' = back /\ req' = req
  BY <1>1 DEF BackKept, walletVars, chainVars
<1>3. StoreTypeOK' /\ VersionsOK' /\ WaitInv' /\ Keeps(mem, mem')
  BY <1>1, <1>2, LostStore DEF WaitInv
<1>4. TickTypeOK' /\ TickInv'
  <2>1. CASE "tick" \in Awaiting
    <3>1. Throw /\ pc \in Waiting
      BY <1>1, <2>1 DEF Awaiting, WaitInv, Quiet
    <3>2. req = "none"
      BY <3>1 DEF TickInv, Waiting
    <3> QED BY <1>2, <3>1, <3>2 DEF Throw, TickTypeOK, TickInv, Locations
  <2>2. CASE "tick" \notin Awaiting
    BY <1>1, <1>2, <1>3, <2>2, TickKept
  <2> QED BY <2>1, <2>2
<1>5. OutsideTypeOK'
  BY <1>1 DEF OutsideTypeOK, walletVars, chainVars
<1>6. PaymentInv'
  BY <1>1, <1>2, PaymentKept DEF OutsideTypeOK, walletVars
<1> QED BY <1>3, <1>4, <1>5, <1>6

LEMMA RebootStep == ReleaseInv /\ (Crash \/ Exit) => ReleaseInv'
<1> SUFFICES ASSUME ReleaseInv, Crash \/ Exit PROVE ReleaseInv'
  OBVIOUS
<1> USE DEF ReleaseInv, TypeOK
<1>1. Reboot /\ crashes' \in Nat
  BY DEF Crash, Exit, OutsideTypeOK
<1>2. /\ Reload /\ req' = "none" /\ pc' = "next" /\ cur' = NoReceipt /\ phase' = "boot"
      /\ todo' = Redeeming(disk) /\ height' = 0 /\ upTo' = 0
      /\ UNCHANGED <<sends, chainVars, registered, paused, faults>>
      /\ late' = late \/ (late' = Append(late, Payout(cur)) /\ req = "open")
  BY <1>1 DEF Reboot
<1>3. BackKept /\ back' = back
  BY <1>2 DEF BackKept, chainVars
<1>4. StoreTypeOK' /\ VersionsOK' /\ WaitInv'
  BY <1>2, <1>3, LostStore DEF WaitInv
<1>5. TickTypeOK' /\ TickInv'
  BY <1>2 DEF TickTypeOK, TickInv, Redeeming, Locations
<1>6. late' \in Seq(Payments) /\ \A k \in DOMAIN late' : Committing(late'[k])
  <2>1. CASE late' = late
    BY <2>1 DEF OutsideTypeOK, PaymentInv
  <2>2. CASE late' = Append(late, Payout(cur)) /\ req = "open"
    <3>1. Payout(cur) \in Payments /\ Committing(Payout(cur))
      BY <2>2, PayoutFits DEF TickInv
    <3> QED BY <2>2, <3>1, Appended DEF OutsideTypeOK, PaymentInv
  <2> QED BY <1>2, <2>1, <2>2
<1>7. OutsideTypeOK'
  BY <1>1, <1>2, <1>6 DEF OutsideTypeOK, chainVars
<1>8. PaymentInv'
  <2>1. \A p : Committing(p)' <=> Committing(p)
    BY <1>3 DEF Committing
  <2> QED BY <1>2, <1>6, <2>1 DEF PaymentInv
<1> QED BY <1>4, <1>5, <1>7, <1>8

LEMMA StepRelease == ReleaseInv /\ [Next]_vars => ReleaseInv'
<1> SUFFICES ASSUME ReleaseInv, [Next]_vars PROVE ReleaseInv'
  OBVIOUS
<1>1. CASE TickNext
  BY <1>1, ScanSteps, ReturnSteps, AskSteps, AnswerSteps, FinishSteps DEF TickNext
<1>2. CASE FailNext
  BY <1>2, ScanSteps, AnswerSteps DEF FailNext
<1>3. CASE BesideNext
  BY <1>3, BesideSteps
<1>4. CASE OutsideNext
  BY <1>4, WalletSteps, MineStep, PauseStep, FaultStep, RebootStep DEF OutsideNext
<1>5. CASE UNCHANGED vars
  <2>1. UNCHANGED storeVars /\ UNCHANGED tickVars /\ UNCHANGED outsideVars
    BY <1>5 DEF vars
  <2>2. OutsideTypeOK' /\ PaymentInv' /\ BackKept /\ req' = req
    BY <2>1, OutsideKept DEF ReleaseInv, TypeOK
  <2>3. Fits(mem) /\ pc' = pc
    BY <2>1, Mem DEF ReleaseInv, TypeOK, tickVars
  <2>4. StoreTypeOK' /\ VersionsOK' /\ WaitInv' /\ Keeps(mem, mem')
    BY <2>1, <2>2, <2>3, TickStore DEF ReleaseInv, TypeOK
  <2>5. TickTypeOK' /\ TickInv'
    BY <2>1, <2>2, <2>4, TickKept DEF ReleaseInv, TypeOK
  <2> QED BY <2>2, <2>4, <2>5 DEF ReleaseInv, TypeOK
<1> QED BY <1>1, <1>2, <1>3, <1>4, <1>5 DEF Next

LEMMA InitRelease == Init => ReleaseInv
<1> SUFFICES ASSUME Init PROVE ReleaseInv
  OBVIOUS
<1> USE DEF Init, StoreInit
<1>1. EmptyContents \in Contents
  <2>1. <<>> \in [{} -> RedeemIntent] /\ {} \in SUBSET Ids
    OBVIOUS
  <2>2. <<>> \in UNION {[S -> RedeemIntent] : S \in SUBSET Ids}
    BY <2>1
  <2> QED BY <2>2 DEF EmptyContents, Contents, MintStatus, NoIntent, NoCursor
<1>2. TypeOK
  BY <1>1, EmptySeq DEF TypeOK, StoreTypeOK, TickTypeOK, OutsideTypeOK, Locations, Unspent
<1>3. VersionsOK
  <2>1. Versions = {EmptyContents}
    BY DEF Versions
  <2>2. EmptyContents.intents = <<>> /\ DOMAIN <<>> = {}
    BY DEF EmptyContents
  <2>3. \A r \in Receipts : EmptyContents.mint[r] = [status |-> "minting", intent |-> NoIntent]
    BY DEF EmptyContents
  <2> QED BY <2>1, <2>2, <2>3 DEF VersionsOK, VersionOK, Claimed
<1>4. WaitInv /\ TickInv /\ PaymentInv
  BY DEF WaitInv, OneWrite, Quiet, TickInv, PaymentInv
<1> QED BY <1>2, <1>3, <1>4 DEF ReleaseInv

-----------------------------------------------------------------------------
(* Whatever crashes, fails or comes late, every version of the state file  *)
(* binds its claimed releases to intents their returns allow, and nothing  *)
(* but such a release is paid or owed (gateway.ts:1228-1291): the          *)
(* inductive invariant of the release pipeline.                            *)
THEOREM ReleaseInvHolds == Spec => []ReleaseInv
<1>1. Init => ReleaseInv
  BY InitRelease
<1>2. ReleaseInv /\ [Next]_vars => ReleaseInv'
  BY StepRelease
<1> QED BY <1>1, <1>2, PTL DEF Spec

(* A return is paid to the address it commits to and to no other, and only *)
(* a returned receipt is paid (gateway.ts:1228-1237): also after crashes   *)
(* and failed writes, and when the wallet pays late.                       *)
THEOREM PayoutsAreCommitted == Spec => []PayoutCommitted
<1>1. ReleaseInv => PayoutCommitted
  BY DEF ReleaseInv, PaymentInv, Committing, PayoutCommitted
<1> QED BY <1>1, ReleaseInvHolds, PTL

(* The written intents never tell more than the written ledger: received   *)
(* ones are bound by a claim, released ones by a redeemed record           *)
(* (gateway.ts:1269-1280, 1339-1349), whatever write fails between them.   *)
THEOREM RedeemIntentsAreBehind == Spec => []IntentNeverAhead
<1>1. ReleaseInv => IntentNeverAhead
  <2> SUFFICES ASSUME ReleaseInv, NEW i \in DOMAIN disk.intents,
                      NEW bound, bound = {disk.mint[r].status :
                                            r \in {s \in Receipts : disk.mint[s].intent = i}}
               PROVE  /\ disk.intents[i].status = "receipt-received" => bound # {}
                      /\ disk.intents[i].status = "released" => "redeemed" \in bound
    BY DEF IntentNeverAhead
  <2>1. VersionOK(disk)
    BY DEF ReleaseInv, VersionsOK, Versions
  <2>2. ASSUME disk.intents[i].status = "receipt-received" PROVE bound # {}
    <3>1. PICK r \in Receipts : disk.mint[r].intent = i
      BY <2>1, <2>2 DEF VersionOK
    <3>2. disk.mint[r].status \in bound
      BY <3>1
    <3> QED BY <3>2
  <2>3. ASSUME disk.intents[i].status = "released" PROVE "redeemed" \in bound
    <3>1. PICK r \in Receipts : disk.mint[r].intent = i /\ disk.mint[r].status = "redeemed"
      BY <2>1, <2>3 DEF VersionOK
    <3> QED BY <3>1
  <2> QED BY <2>2, <2>3
<1> QED BY <1>1, ReleaseInvHolds, PTL

-----------------------------------------------------------------------------
(***************************************************************************)
(* That a release is paid once, for every number of receipts, intents,     *)
(* blocks and crashes: nothing twice for one intent while the wallet's     *)
(* history shows every payment and none comes late; nothing twice for one  *)
(* receipt while the store writes; and the ledger of claims and payments,  *)
(* when returns commit to addresses of their own.                          *)
(***************************************************************************)

(* What a step does to the store, and how the tick's claim moves: the tick *)
(* puts, or waits for, what claims nothing new, and records a release when *)
(* it is found or answered; it claims; its claim is written and it goes on;*)
(* another chain puts or waits; the store fails or is read again.          *)
Found(r) ==
    /\ cur = r
    /\ \/ pc = "history" /\ Already(IntentOf(r))
       \/ pc = "send" /\ req = "sent"

Old(m) ==
    \A r \in Receipts :
        /\ Claimed(m, r) => Claimed(mem, r)
        /\ m.mint[r].status = "redeemed" => mem.mint[r].status = "redeemed" \/ Found(r)

TickMoves ==
    /\ pc # "claimed" /\ pc' # "claimed"
    /\ \E m : /\ Fits(m) /\ Old(m)
              /\ \/ Put("tick", m) \/ PutRejected(m) \/ Settle("tick") \/ SettlePut("tick", m)
                 \/ UNCHANGED storeVars

ClaimMoves ==
    /\ pc = "next" /\ pc' = "claimed" /\ cur' \in Receipts
    /\ \E m : Fits(m) /\ NewsOf(m, cur') /\ m.mint[cur'].status = "redeeming" /\ Put("tick", m)

TellMoves ==
    /\ pc = "claimed" /\ pc' = "told"
    /\ \E m : Fits(m) /\ Old(m) /\ SettlePut("tick", m)

BesideMoves ==
    /\ UNCHANGED <<pc, cur>>
    /\ \E m : /\ Fits(m) /\ Old(m)
              /\ \/ \E t \in Writers \ {"tick"} : Put(t, m) \/ PutRejected(m) \/ Settle(t)
                 \/ UNCHANGED storeVars

LostMoves ==
    \/ WriteFails /\ faults < MaxWriteFaults
    \/ Reload /\ req' = "none" /\ pc' = "next"
    \/ \E m : Fits(m) /\ PutRejected(m)

LEMMA NewsAreOld ==
    ASSUME NEW m
    PROVE  /\ NoNews(m) => Old(m)
           /\ \A r \in Receipts : NewsOf(m, r) /\ Claimed(mem, r) /\ Found(r) => Old(m)
BY DEF NoNews, NewsOf, Old, Claimed

LEMMA TickStoreMoves ==
    ASSUME ReleaseInv, TickNext \/ FailNext
    PROVE  TickMoves \/ ClaimMoves \/ TellMoves \/ LostMoves
<1>1. mem \in Contents /\ VersionOK(mem) /\ Fits(mem) /\ Old(mem)
  BY Mem DEF ReleaseInv, TypeOK, Old
<1>2. mem.cursor \in Nat /\ tip \in Nat /\ upTo \in Nat
  BY <1>1, Shape DEF ReleaseInv, TypeOK, OutsideTypeOK, TickTypeOK
<1>3. \A c \in Nat : Fits([mem EXCEPT !.cursor = c]) /\ Old([mem EXCEPT !.cursor = c])
  BY <1>1, OtherPuts, NewsAreOld
<1>4. CASE \/ TickStart \/ ScanStart \/ ScanBlock \/ TickEnd \/ ScanFails
           \/ \E r \in Receipts :
                SkipReturn(r) \/ TickRelease(r) \/ ReleaseDeferred(r) \/ ReleaseStart(r)
                \/ SendToAddress(r)
  <2>1. UNCHANGED storeVars /\ pc # "claimed" /\ pc' # "claimed"
    BY <1>4 DEF TickStart, ScanStart, ScanBlock, TickEnd, ScanFails, Throw, SkipReturn, NextReturn,
                TickRelease, ReleaseDeferred, ReleaseStart, SendToAddress, Return, Step
  <2> QED BY <1>1, <2>1 DEF TickMoves
<1>5. CASE FirstScan
  <2>1. PICK m : m = [mem EXCEPT !.cursor = tip]
    OBVIOUS
  <2>2. (Put("tick", m) \/ PutRejected(m)) /\ pc # "claimed" /\ pc' # "claimed"
    BY <1>5, <2>1 DEF FirstScan, Save, Step, Throw
  <2> QED BY <1>2, <1>3, <2>1, <2>2 DEF TickMoves
<1>6. CASE AdvanceCursor
  <2>1. PICK m : m = [mem EXCEPT !.cursor = upTo]
    OBVIOUS
  <2>2. (Put("tick", m) \/ PutRejected(m)) /\ pc # "claimed" /\ pc' # "claimed"
    BY <1>6, <2>1 DEF AdvanceCursor, Save, Step, Throw
  <2> QED BY <1>2, <1>3, <2>1, <2>2 DEF TickMoves
<1>7. CASE NothingNew \/ \E r \in Receipts : ToRelease(r) \/ Finish(r)
  <2>1. (Settle("tick") \/ UNCHANGED storeVars) /\ pc # "claimed" /\ pc' # "claimed"
    BY <1>7 DEF NothingNew, StartReleases, ToRelease, Finish, Return, Step
  <2> QED BY <1>1, <2>1 DEF TickMoves
<1>8. ASSUME NEW r \in Receipts, ClaimReturn(r)
      PROVE  ClaimMoves \/ LostMoves
  <2>1. PICK m : m = WithClaim(r, Binding(r))
    OBVIOUS
  <2>2. Fits(m) /\ NewsOf(m, r) /\ m.mint[r].status = "redeeming"
    <3>1. back[r] # Unspent
      BY <1>8 DEF ClaimReturn, NextReturn, ReleaseInv, TickInv
    <3> QED BY <1>1, <1>8, <2>1, <3>1, MintPuts DEF ClaimReturn
  <2>3. \/ Put("tick", m) /\ pc' = "claimed" /\ cur' = r /\ pc = "next"
        \/ PutRejected(m)
    BY <1>8, <2>1 DEF ClaimReturn, NextReturn
  <2> QED BY <2>2, <2>3 DEF ClaimMoves, LostMoves
<1>9. ASSUME NEW r \in Receipts, TellReceived(r)
      PROVE  TellMoves
  <2>1. PICK m : m = WithIntent(IntentOf(r), "receipt-received")
    OBVIOUS
  <2>2. Fits(m) /\ Old(m)
    BY <1>1, <2>1, OtherPuts, NewsAreOld
  <2>3. SettlePut("tick", m) /\ pc = "claimed" /\ pc' = "told"
    BY <1>9, <2>1 DEF TellReceived, Follow, Step
  <2> QED BY <2>2, <2>3 DEF TellMoves
<1>10. ASSUME NEW r \in Receipts, AttestReturn(r) \/ AttestRelease(r) \/ TellReleased(r)
       PROVE  TickMoves
  <2>1. CASE AttestReturn(r)
    <3>1. PICK m : m = Attested("receipt-returned", r)
      OBVIOUS
    <3>2. Fits(m) /\ Old(m)
      BY <1>1, <3>1, OtherPuts, NewsAreOld DEF EventKinds
    <3>3. SettlePut("tick", m) /\ pc # "claimed" /\ pc' # "claimed"
      BY <2>1, <3>1 DEF AttestReturn, Follow, Step
    <3> QED BY <3>2, <3>3 DEF TickMoves
  <2>2. CASE AttestRelease(r)
    <3>1. PICK m : m = Attested("btc-released", r)
      OBVIOUS
    <3>2. Fits(m) /\ Old(m)
      BY <1>1, <3>1, OtherPuts, NewsAreOld DEF EventKinds
    <3>3. SettlePut("tick", m) /\ pc # "claimed" /\ pc' # "claimed"
      BY <2>2, <3>1 DEF AttestRelease, Follow, Step
    <3> QED BY <3>2, <3>3 DEF TickMoves
  <2>3. CASE TellReleased(r)
    <3>1. PICK m : m = WithIntent(IntentOf(r), "released")
      OBVIOUS
    <3>2. mem.mint[r].status = "redeemed"
      BY <2>3 DEF TellReleased, Follow, ReleaseInv, TickInv
    <3>3. Fits(m) /\ Old(m)
      BY <1>1, <3>1, <3>2, OtherPuts, NewsAreOld
    <3>4. SettlePut("tick", m) /\ pc # "claimed" /\ pc' # "claimed"
      BY <2>3, <3>1 DEF TellReleased, Follow, Step
    <3> QED BY <3>3, <3>4 DEF TickMoves
  <2> QED BY <1>10, <2>1, <2>2, <2>3
<1>11. ASSUME NEW r \in Receipts, HistoryFound(r) \/ SendOk(r) \/ HistoryFails(r) \/ SendFails(r)
       PROVE  TickMoves
  <2>1. PICK m : m = WithRedeemed(r)
    OBVIOUS
  <2>2. IntentOf(r) # NoIntent
    BY <1>11 DEF HistoryFound, SendOk, HistoryFails, SendFails, ReleaseInv, TickInv
  <2>3. Fits(m) /\ (Found(r) => Old(m))
    BY <1>1, <2>1, <2>2, MintPuts, NewsAreOld, Mem DEF ReleaseInv, TypeOK
  <2>4. /\ pc # "claimed" /\ pc' # "claimed"
        /\ \/ Found(r) /\ (Put("tick", m) \/ PutRejected(m))
           \/ Put("tick", mem) \/ PutRejected(mem)
    BY <1>11, <2>1 DEF HistoryFound, SendOk, HistoryFails, SendFails, Save, Step, Throw, Found
  <2> QED BY <1>1, <2>3, <2>4 DEF TickMoves
<1> QED BY <1>4, <1>5, <1>6, <1>7, <1>8, <1>9, <1>10, <1>11 DEF TickNext, FailNext

LEMMA StoreMoves ==
    ASSUME ReleaseInv, Next
    PROVE  TickMoves \/ ClaimMoves \/ TellMoves \/ BesideMoves \/ LostMoves
<1>1. mem \in Contents /\ VersionOK(mem) /\ Fits(mem) /\ Old(mem)
  BY Mem DEF ReleaseInv, TypeOK, Old
<1>2. CASE BesideNext
  <2>0. {"api", "poll", "mint"} \subseteq Writers \ {"tick"} /\ UNCHANGED <<pc, cur>>
    BY <1>2 DEF Writers, BesideNext, Register, PollExpire, RecordMint, Beside, BesideWritten, tickVars
  <2>1. ASSUME NEW h \in Holders, NEW a \in Addresses, Register(h, a)
        PROVE  BesideMoves
    <3>1. PICK m : m = WithRegistration(h, a)
      OBVIOUS
    <3>2. Fits(m) /\ Old(m)
      BY <1>1, <2>1, <3>1, RegistrationPut, NewsAreOld
         DEF Register, ReleaseInv, TypeOK, OutsideTypeOK
    <3> QED BY <2>0, <2>1, <3>1, <3>2 DEF Register, BesideMoves
  <2>2. ASSUME NEW i \in DOMAIN mem.intents, PollExpire(i)
        PROVE  BesideMoves
    <3>1. PICK m : m = WithIntent(i, "expired")
      OBVIOUS
    <3>2. i \in Nat
      BY <1>1, Shape DEF Ids
    <3>3. Fits(m) /\ Old(m)
      BY <1>1, <3>1, <3>2, OtherPuts, NewsAreOld
    <3> QED BY <2>0, <2>2, <3>1, <3>3 DEF PollExpire, Beside, BesideMoves
  <2>3. ASSUME NEW r \in Receipts, RecordMint(r)
        PROVE  BesideMoves
    <3>1. PICK m : m = [mem EXCEPT !.mint[r].status = "minted"]
      OBVIOUS
    <3>2. Fits(m) /\ Old(m)
      BY <1>1, <2>3, <3>1, MintPuts, NewsAreOld DEF RecordMint
    <3> QED BY <2>0, <2>3, <3>1, <3>2 DEF RecordMint, Beside, BesideMoves
  <2>4. CASE BesideWritten
    BY <1>1, <2>0, <2>4 DEF BesideWritten, BesideMoves
  <2> QED BY <1>2, <2>1, <2>2, <2>3, <2>4 DEF BesideNext
<1>3. CASE OutsideNext
  <2>1. CASE StoreFault \/ Crash \/ Exit
    BY <2>1 DEF StoreFault, Crash, Exit, Reboot, LostMoves
  <2>2. CASE \/ (\E r \in Receipts : WalletPays(r)) \/ WalletRefuses \/ WalletPaysLate
             \/ \E S \in SUBSET {r \in Receipts : back[r] = Unspent} : MineBlock(S)
             \/ TogglePause
    <3>1. UNCHANGED storeVars /\ UNCHANGED <<pc, cur>>
      BY <2>2 DEF WalletPays, WalletRefuses, WalletPaysLate, MineBlock, TogglePause, tickVars
    <3> QED BY <1>1, <3>1 DEF BesideMoves
  <2> QED BY <1>3, <2>1, <2>2 DEF OutsideNext
<1> QED BY <1>2, <1>3, TickStoreMoves DEF Next

LEMMA MemMoves ==
    ASSUME ReleaseInv, Next
    PROVE  Keeps(mem, mem') \/ req' = "none"
<1>1. Keeps(mem, mem)
  BY DEF Keeps
<1>2. mem' = mem \/ req' = "none" \/ \E m : Fits(m) /\ mem' = m
  BY StoreMoves DEF TickMoves, ClaimMoves, TellMoves, BesideMoves, LostMoves, Put, PutRejected,
                    Settle, SettlePut, WriteFails, storeVars
<1> QED BY <1>1, <1>2 DEF Fits

-----------------------------------------------------------------------------
(* The wallet's history reaches back to the first payment, and an abandoned*)
(* payment is never made: what the first result needs.                     *)
Seen == LatePayment = FALSE /\ MaxSends <= HistoryDepth

LEMMA AlreadySent ==
    ASSUME Seen, sends \in Seq(Payments), Len(sends) <= MaxSends, NEW i
    PROVE  Already(i) <=> \E k \in DOMAIN sends : sends[k].intent = i
<1>1. MaxSends \in Nat /\ HistoryDepth \in Nat
  BY RedeemConstants
<1>2. DOMAIN sends = 1..Len(sends) /\ Len(sends) \in Nat
  OBVIOUS
<1>3. \A k \in DOMAIN sends : k + HistoryDepth > Len(sends)
  BY <1>1, <1>2 DEF Seen
<1> QED BY <1>3 DEF Already

(* The payments of a step: the wallet makes the one that is asked for, the *)
(* tick asks for one the history does not show, or neither.                *)
LEMMA PaymentSteps ==
    ASSUME ReleaseInv, Seen, late = <<>>, Next
    PROVE  /\ late' = <<>>
           /\ \/ /\ req = "open" /\ req' = "sent" /\ Len(sends) < MaxSends
                 /\ sends' = Append(sends, Payout(cur))
                 /\ UNCHANGED <<storeVars, tickVars, back>>
              \/ /\ ~Already(IntentOf(cur)) /\ req' = "open" /\ pc = "history"
                 /\ UNCHANGED <<storeVars, sends, back, cur>>
              \/ /\ sends' = sends
                 /\ req' \in {"open", "sent"} =>
                        req' = req /\ pc = "send" /\ UNCHANGED tickVars
<1>0. ReleaseInv'
  BY StepRelease
<1> USE DEF Seen
<1>1. req # "none" => pc = "send"
  BY DEF ReleaseInv, TickInv
<1>2. CASE TickNext
  <2>1. CASE \E r \in Receipts : SendToAddress(r)
    <3>1. PICK r \in Receipts : SendToAddress(r)
      BY <2>1
    <3>2. /\ cur = r /\ pc = "history" /\ ~Already(IntentOf(r)) /\ req' = "open"
          /\ UNCHANGED <<storeVars, sends, late, back, cur>>
      BY <3>1 DEF SendToAddress, Step, chainVars
    <3> QED BY <3>2
  <2>2. CASE \E r \in Receipts : SendOk(r)
    BY <2>2 DEF SendOk
  <2>3. CASE \/ TickStart \/ FirstScan \/ NothingNew \/ ScanStart \/ ScanBlock
             \/ AdvanceCursor \/ TickEnd
    <3>1. UNCHANGED outsideVars /\ pc # "send"
      BY <2>3 DEF TickStart, FirstScan, NothingNew, ScanStart, ScanBlock, AdvanceCursor, TickEnd
    <3> QED BY <1>1, <3>1 DEF outsideVars, walletVars
  <2>4. CASE \E r \in Receipts :
                \/ SkipReturn(r) \/ ClaimReturn(r) \/ TellReceived(r) \/ AttestReturn(r)
                \/ ToRelease(r) \/ TickRelease(r) \/ ReleaseDeferred(r) \/ ReleaseStart(r)
                \/ HistoryFound(r) \/ TellReleased(r) \/ AttestRelease(r) \/ Finish(r)
    <3>1. UNCHANGED outsideVars /\ pc # "send"
      BY <2>4 DEF SkipReturn, ClaimReturn, TellReceived, AttestReturn, ToRelease, TickRelease,
                  ReleaseDeferred, ReleaseStart, HistoryFound, TellReleased, AttestRelease,
                  Finish, Follow, NextReturn
    <3> QED BY <1>1, <3>1 DEF outsideVars, walletVars
  <2> QED BY <1>2, <2>1, <2>2, <2>3, <2>4 DEF TickNext
<1>3. CASE FailNext
  <2>1. CASE \E r \in Receipts : SendFails(r)
    BY <2>1 DEF SendFails
  <2>2. CASE ScanFails \/ \E r \in Receipts : HistoryFails(r)
    <3>1. UNCHANGED outsideVars /\ pc # "send"
      BY <2>2 DEF ScanFails, HistoryFails
    <3> QED BY <1>1, <3>1 DEF outsideVars, walletVars
  <2> QED BY <1>3, <2>1, <2>2 DEF FailNext
<1>4. CASE BesideNext
  <2>1. UNCHANGED <<tickVars, walletVars, chainVars>>
    BY <1>4 DEF BesideNext, Register, PollExpire, RecordMint, Beside, BesideWritten, outsideVars
  <2> QED BY <1>1, <2>1 DEF walletVars
<1>5. CASE OutsideNext
  <2>1. CASE \E r \in Receipts : WalletPays(r)
    BY <2>1 DEF WalletPays, chainVars
  <2>2. CASE WalletRefuses \/ WalletPaysLate
    BY <2>2 DEF WalletRefuses, WalletPaysLate
  <2>3. CASE TogglePause \/ \E S \in SUBSET {r \in Receipts : back[r] = Unspent} : MineBlock(S)
    <3>1. UNCHANGED <<tickVars, walletVars>>
      BY <2>3 DEF TogglePause, MineBlock
    <3> QED BY <1>1, <3>1 DEF walletVars
  <2>4. CASE StoreFault
    <3>1. UNCHANGED walletVars /\ (req # "none" => UNCHANGED tickVars)
      <4>1. pc = "send" => "tick" \notin Awaiting
        BY DEF ReleaseInv, WaitInv, Waiting, Quiet, Awaiting
      <4> QED BY <1>1, <2>4, <4>1 DEF StoreFault
    <3> QED BY <1>1, <3>1, <2>4 DEF walletVars, ReleaseInv, TypeOK, OutsideTypeOK
  <2>5. CASE Crash \/ Exit
    BY <2>5 DEF Crash, Exit, Reboot
  <2> QED BY <1>5, <2>1, <2>2, <2>3, <2>4, <2>5 DEF OutsideNext
<1> QED BY <1>2, <1>3, <1>4, <1>5 DEF Next

(* No intent is paid twice.                                                *)
LEMMA StepSent ==
    ASSUME ReleaseInv, SentInv, Seen, [Next]_vars
    PROVE  SentInv'
<1>0. ReleaseInv'
  BY StepRelease
<1>1. sends \in Seq(Payments) /\ Len(sends) \in Nat /\ DOMAIN sends = 1..Len(sends)
  <2>1. sends \in Seq(Payments)
    BY DEF ReleaseInv, TypeOK, OutsideTypeOK
  <2> QED BY <2>1
<1>2. MaxSends \in Nat
  BY RedeemConstants
<1>3. CASE UNCHANGED vars
  BY <1>3 DEF vars, outsideVars, walletVars, storeVars, tickVars, SentInv, IntentOf
<1>4. CASE Next
  <2>1. late' = <<>>
    BY <1>4, PaymentSteps DEF SentInv
  <2>2. CASE /\ req = "open" /\ req' = "sent" /\ Len(sends) < MaxSends
             /\ sends' = Append(sends, Payout(cur))
    <3> DEFINE n == Len(sends)
               p == Payout(cur)
    <3>1. p \in Payments /\ p.intent = IntentOf(cur)
      BY <2>2, PayoutFits DEF ReleaseInv, TickInv, Payout
    <3>2. \A k \in 1..n : sends[k].intent # p.intent
      BY <1>1, <2>2, <3>1 DEF SentInv
    <3>3. /\ DOMAIN sends' = 1..(n + 1) /\ sends'[n + 1] = p /\ Len(sends') = n + 1
          /\ \A k \in 1..n : sends'[k] = sends[k]
          /\ \A k \in 1..(n + 1) : k \in 1..n \/ k = n + 1
      BY <1>1, <2>2, <3>1, Appended, AppendProperties
    <3> HIDE DEF n, p
    <3>4. \A j, k \in DOMAIN sends' : sends'[j].intent = sends'[k].intent => j = k
      BY <1>1, <3>2, <3>3 DEF SentInv, n
    <3>5. Len(sends') <= MaxSends
      BY <1>1, <1>2, <2>2, <3>3 DEF n
    <3> QED BY <2>1, <2>2, <3>4, <3>5 DEF SentInv
  <2>3. CASE ~Already(IntentOf(cur)) /\ UNCHANGED <<storeVars, sends, cur>>
    <3>1. IntentOf(cur)' = IntentOf(cur)
      BY <2>3 DEF storeVars, IntentOf
    <3>2. \A k \in DOMAIN sends : sends[k].intent # IntentOf(cur)
      BY <1>1, <2>3, AlreadySent DEF SentInv
    <3> QED BY <2>1, <2>3, <3>1, <3>2 DEF SentInv
  <2>4. CASE /\ sends' = sends
             /\ req' \in {"open", "sent"} => req' = req /\ pc = "send" /\ UNCHANGED tickVars
    <3>1. ASSUME req' = "open"
          PROVE  \A k \in DOMAIN sends : sends[k].intent # IntentOf(cur)'
      <4>1. req = "open" /\ pc = "send" /\ pc' = "send" /\ cur' = cur /\ cur \in Receipts
        BY <2>4, <3>1 DEF tickVars, ReleaseInv, TickInv
      <4>2. IntentOf(cur)' = IntentOf(cur)
        <5>1. Keeps(mem, mem')
          BY <1>4, <3>1, MemMoves
        <5> QED BY <4>1, <5>1, Mem DEF ReleaseInv, TypeOK, TickInv
      <4> QED BY <4>1, <4>2 DEF SentInv
    <3> QED BY <2>1, <2>4, <3>1 DEF SentInv
  <2> QED BY <1>4, <2>2, <2>3, <2>4, PaymentSteps DEF SentInv
<1> QED BY <1>3, <1>4

-----------------------------------------------------------------------------
(* The store keeps the order of its versions while every write succeeds.   *)
LEMMA KeepsOn ==
    ASSUME NEW a, NEW b, NEW c
    PROVE  /\ Keeps(a, a)
           /\ Keeps(a, b) /\ Keeps(b, c) => Keeps(a, c)
BY DEF Keeps

LEMMA OrderAfter ==
    ASSUME StoreTypeOK, OrderInv, NEW t \in Writers, NEW m, Fits(m),
           Put(t, m) \/ Settle(t) \/ SettlePut(t, m) \/ Reload \/ UNCHANGED storeVars
    PROVE  OrderInv' /\ Keeps(disk, disk')
<1> DEFINE n == Len(saveChain)
           S(i) == saveChain[i].state
<1>0. m \in Contents /\ Keeps(mem, m)
  BY DEF Fits
<1>1. n \in Nat /\ DOMAIN saveChain = 1..n
  BY <1>0, Queue
<1>2. /\ Keeps(disk, mem) /\ ~poisoned
      /\ \A i \in 1..n : Keeps(disk, S(i)) /\ Keeps(S(i), mem)
      /\ \A i, j \in 1..n : i <= j => Keeps(S(i), S(j))
  BY <1>1 DEF OrderInv
<1>3. Write(t, m).state = m
  BY DEF Write
<1>4. ASSUME ~poisoned', Keeps(disk', mem'),
             \A i \in DOMAIN saveChain' :
                /\ Keeps(disk', saveChain'[i].state) /\ Keeps(saveChain'[i].state, mem')
                /\ \A j \in DOMAIN saveChain' :
                    i <= j => Keeps(saveChain'[i].state, saveChain'[j].state)
      PROVE  OrderInv'
  BY <1>4 DEF OrderInv
<1>5. CASE Put(t, m)
  <2>1. /\ DOMAIN saveChain' = 1..(n + 1) /\ saveChain'[n + 1] = Write(t, m)
        /\ \A i \in 1..n : saveChain'[i] = saveChain[i]
        /\ mem' = m /\ disk' = disk /\ poisoned' = poisoned
    BY <1>0, <1>5, Queue DEF Put
  <2>2. \A i \in 1..n : Keeps(S(i), m)
    BY <1>0, <1>2, KeepsOn
  <2>3. Keeps(disk, m) /\ Keeps(m, m)
    BY <1>0, <1>2, KeepsOn
  <2> HIDE DEF n
  <2>4. \A i \in 1..(n + 1) : (i \in 1..n \/ i = n + 1) /\ ~(n + 1 <= i /\ i \in 1..n)
    BY <1>1
  <2>5. \A i \in 1..(n + 1) :
          /\ Keeps(disk', saveChain'[i].state) /\ Keeps(saveChain'[i].state, mem')
          /\ \A j \in 1..(n + 1) : i <= j => Keeps(saveChain'[i].state, saveChain'[j].state)
    BY <1>2, <1>3, <2>1, <2>2, <2>3, <2>4
  <2> QED BY <1>2, <1>4, <2>1, <2>3, <2>5, KeepsOn
<1>6. CASE Settle(t)
  <2>1. /\ DOMAIN saveChain' = 1..(n - 1) /\ n > 0
        /\ \A i \in 1..(n - 1) : saveChain'[i] = saveChain[i + 1]
        /\ mem' = mem /\ disk' = S(1) /\ poisoned' = poisoned
    BY <1>0, <1>6, Queue DEF Settle
  <2> HIDE DEF n
  <2>2. 1 \in 1..n /\ \A i \in 1..(n - 1) : i + 1 \in 1..n /\ 1 <= i + 1
    BY <1>1, <2>1
  <2>3. \A i, j \in 1..(n - 1) : i <= j => i + 1 <= j + 1
    BY <1>1
  <2>4. \A i \in 1..(n - 1) :
          /\ Keeps(disk', saveChain'[i].state) /\ Keeps(saveChain'[i].state, mem')
          /\ \A j \in 1..(n - 1) : i <= j => Keeps(saveChain'[i].state, saveChain'[j].state)
    BY <1>2, <2>1, <2>2, <2>3
  <2> QED BY <1>2, <1>4, <2>1, <2>2, <2>4
<1>7. CASE SettlePut(t, m)
  <2>1. /\ DOMAIN saveChain' = 1..n /\ n > 0
        /\ \A i \in 1..(n - 1) : saveChain'[i] = saveChain[i + 1]
        /\ saveChain'[n] = Write(t, m)
        /\ mem' = m /\ disk' = S(1) /\ poisoned' = poisoned
    BY <1>0, <1>7, Queue DEF SettlePut
  <2>2. \A i \in 1..n : Keeps(S(i), m)
    BY <1>0, <1>2, KeepsOn
  <2>3. Keeps(m, m)
    BY KeepsOn
  <2> HIDE DEF n
  <2>4. 1 \in 1..n /\ \A i \in 1..(n - 1) : i + 1 \in 1..n /\ 1 <= i + 1
    BY <1>1, <2>1
  <2>5. \A i \in 1..n : (i \in 1..(n - 1) \/ i = n) /\ ~(n <= i /\ i \in 1..(n - 1))
    BY <1>1, <2>1
  <2>6. \A i, j \in 1..(n - 1) : i <= j => i + 1 <= j + 1
    BY <1>1
  <2>7. \A i \in 1..n :
          /\ Keeps(disk', saveChain'[i].state) /\ Keeps(saveChain'[i].state, mem')
          /\ \A j \in 1..n : i <= j => Keeps(saveChain'[i].state, saveChain'[j].state)
    BY <1>2, <1>3, <2>1, <2>2, <2>3, <2>4, <2>5, <2>6
  <2> QED BY <1>2, <1>4, <2>1, <2>2, <2>4, <2>7
<1>8. CASE Reload
  <2>1. mem' = disk /\ disk' = disk /\ saveChain' = <<>> /\ DOMAIN <<>> = {} /\ poisoned' = FALSE
    BY <1>8 DEF Reload
  <2> QED BY <1>4, <2>1, KeepsOn
<1>9. CASE UNCHANGED storeVars
  <2>1. OrderInv'
    BY <1>9 DEF storeVars, OrderInv
  <2> QED BY <1>9, <2>1, KeepsOn DEF storeVars
<1> QED BY <1>5, <1>6, <1>7, <1>8, <1>9

(* No write fails: what the second result needs besides.                   *)
StoreWrites == MaxWriteFaults = 0

LEMMA NothingLost ==
    ASSUME ReleaseInv, OrderInv, StoreWrites
    PROVE  /\ LostMoves => Reload /\ pc' = "next"
           /\ \A m : ~PutRejected(m)
<1>1. faults \in Nat
  BY DEF ReleaseInv, TypeOK, OutsideTypeOK
<1>2. ~(faults < MaxWriteFaults)
  BY <1>1 DEF StoreWrites
<1>3. \A m : ~PutRejected(m)
  BY DEF OrderInv, PutRejected
<1> QED BY <1>2, <1>3 DEF LostMoves

LEMMA StepOrder ==
    ASSUME ReleaseInv, OrderInv, StoreWrites, Next
    PROVE  OrderInv' /\ Keeps(disk, disk')
<1>1. StoreTypeOK /\ "tick" \in Writers
  BY DEF ReleaseInv, TypeOK, Writers
<1>2. \E m : /\ Fits(m) 
             /\ \/ \E t \in Writers : Put(t, m) \/ Settle(t) \/ SettlePut(t, m)
                \/ Reload \/ UNCHANGED storeVars
  <2>1. Fits(mem)
    BY Mem DEF ReleaseInv, TypeOK
  <2>2. LostMoves => Reload
    BY NothingLost
  <2> QED BY <1>1, <2>1, <2>2, StoreMoves, NothingLost
          DEF TickMoves, ClaimMoves, TellMoves, BesideMoves
<1> QED BY <1>1, <1>2, OrderAfter

(* The head of the queue is what the tick waits for when its write is done.*)
LEMMA ClaimAfter ==
    ASSUME StoreTypeOK, OrderInv, ClaimDurable, OneWrite, NEW m, Fits(m), Keeps(disk, disk')
    PROVE  /\ Old(m) /\ pc # "claimed" /\ mem' \in {mem, m} =>
                \A r \in Receipts : Claimed(mem', r) => Claimed(disk', r)
           /\ SettlePut("tick", m) /\ pc = "claimed" => Claimed(disk', cur)
<1>1. ASSUME Old(m), pc # "claimed", mem' \in {mem, m}
      PROVE  \A r \in Receipts : Claimed(mem', r) => Claimed(disk', r)
  <2> TAKE r \in Receipts
  <2> SUFFICES ASSUME Claimed(mem', r) PROVE Claimed(disk', r)
    OBVIOUS
  <2>1. Claimed(mem, r)
    BY <1>1 DEF Old
  <2>2. Claimed(disk, r)
    BY <1>1, <2>1 DEF ClaimDurable
  <2> QED BY <2>2 DEF Keeps
<1>2. ASSUME SettlePut("tick", m), pc = "claimed"
      PROVE  Claimed(disk', cur)
  <2>1. "tick" \in Writers /\ m \in Contents
    BY DEF Writers, Fits
  <2>2. /\ Len(saveChain) > 0 /\ saveChain[1].by = "tick" /\ disk' = saveChain[1].state
        /\ DOMAIN saveChain = 1..Len(saveChain) /\ Len(saveChain) \in Nat
    BY <1>2, <2>1, Queue DEF SettlePut
  <2>3. 1 \in DOMAIN saveChain
    BY <2>2
  <2> QED BY <1>2, <2>2, <2>3 DEF ClaimDurable
<1> QED BY <1>1, <1>2

LEMMA StepClaim ==
    ASSUME ReleaseInv, OrderInv, ClaimDurable, StoreWrites, Next
    PROVE  ClaimDurable'
<1>1. /\ StoreTypeOK /\ OneWrite /\ "tick" \in Writers
      /\ pc \notin Waiting => Quiet("tick")
  BY DEF ReleaseInv, TypeOK, Writers, WaitInv
<1>2. OrderInv' /\ Keeps(disk, disk')
  BY StepOrder
<1>3. CASE TickMoves
  <2>1. PICK m : /\ Fits(m) /\ Old(m)
                 /\ \/ Put("tick", m) \/ PutRejected(m) \/ Settle("tick") \/ SettlePut("tick", m)
                    \/ UNCHANGED storeVars
    BY <1>3 DEF TickMoves
  <2>2. mem' \in {mem, m}
    BY <2>1 DEF Put, PutRejected, Settle, SettlePut, storeVars
  <2>3. pc # "claimed" /\ pc' # "claimed"
    BY <1>3 DEF TickMoves
  <2> QED BY <1>1, <1>2, <2>1, <2>2, <2>3, ClaimAfter DEF ClaimDurable
<1>4. CASE ClaimMoves
  <2>1. PICK m : Fits(m) /\ NewsOf(m, cur') /\ Claimed(m, cur') /\ Put("tick", m)
    BY <1>4 DEF ClaimMoves, Claimed
  <2>2. pc = "next" /\ pc' = "claimed" /\ cur' \in Receipts /\ Quiet("tick")
    BY <1>1, <1>4 DEF ClaimMoves, Waiting
  <2>3. /\ DOMAIN saveChain' = 1..(Len(saveChain) + 1) /\ mem' = m /\ disk' = disk
        /\ \A i \in 1..Len(saveChain) : saveChain'[i] = saveChain[i]
        /\ saveChain'[Len(saveChain) + 1].state = m
        /\ DOMAIN saveChain = 1..Len(saveChain) /\ Len(saveChain) \in Nat
    BY <1>1, <2>1, Queue DEF Put, Write, Fits
  <2>4. \A i \in DOMAIN saveChain' :
          saveChain'[i].by = "tick" => Claimed(saveChain'[i].state, cur')
    <3>1. \A i \in 1..(Len(saveChain) + 1) : i \in 1..Len(saveChain) \/ i = Len(saveChain) + 1
      BY <2>3
    <3> QED BY <2>1, <2>2, <2>3, <3>1 DEF Quiet
  <2>5. \A r \in Receipts : Claimed(mem', r) => Claimed(disk', r) \/ cur' = r
    <3> TAKE r \in Receipts
    <3> SUFFICES ASSUME Claimed(m, r), cur' # r PROVE Claimed(disk, r)
      BY <2>3
    <3>1. Claimed(mem, r)
      BY <2>1 DEF NewsOf, Claimed
    <3> QED BY <2>2, <3>1 DEF ClaimDurable
  <2> QED BY <2>2, <2>4, <2>5 DEF ClaimDurable
<1>5. CASE TellMoves
  <2>1. PICK m : Fits(m) /\ Old(m) /\ SettlePut("tick", m)
    BY <1>5 DEF TellMoves
  <2>2. pc = "claimed" /\ pc' = "told" /\ mem' = m
    BY <1>5, <2>1 DEF TellMoves, SettlePut
  <2>3. Claimed(disk', cur)
    BY <1>1, <1>2, <2>1, <2>2, ClaimAfter
  <2>4. \A r \in Receipts : Claimed(m, r) => Claimed(disk', r)
    BY <1>2, <2>1, <2>2, <2>3 DEF Old, ClaimDurable, Keeps
  <2> QED BY <2>2, <2>4 DEF ClaimDurable
<1>6. CASE BesideMoves
  <2>1. PICK m : /\ Fits(m) /\ Old(m)
                 /\ \/ \E t \in Writers \ {"tick"} : Put(t, m) \/ Settle(t)
                    \/ UNCHANGED storeVars
    BY <1>6, NothingLost DEF BesideMoves
  <2>2. pc' = pc /\ cur' = cur /\ mem' \in {mem, m}
    BY <1>6, <2>1 DEF BesideMoves, Put, Settle, storeVars
  <2>3. \A r \in Receipts : Claimed(mem', r) => Claimed(disk', r) \/ (pc = "claimed" /\ cur = r)
    BY <1>2, <2>1, <2>2 DEF Old, ClaimDurable, Keeps
  <2>4. \A i \in DOMAIN saveChain' : saveChain'[i].by = "tick" =>
          \E j \in DOMAIN saveChain : saveChain'[i] = saveChain[j]
    <3>1. CASE UNCHANGED storeVars
      BY <3>1 DEF storeVars
    <3>2. ASSUME NEW t \in Writers \ {"tick"}, Put(t, m)
          PROVE  \A i \in DOMAIN saveChain' : saveChain'[i].by = "tick" =>
                   \E j \in DOMAIN saveChain : saveChain'[i] = saveChain[j]
      <4>1. /\ DOMAIN saveChain' = 1..(Len(saveChain) + 1)
            /\ \A i \in 1..Len(saveChain) : saveChain'[i] = saveChain[i]
            /\ saveChain'[Len(saveChain) + 1] = Write(t, m)
            /\ DOMAIN saveChain = 1..Len(saveChain) /\ Len(saveChain) \in Nat
        BY <1>1, <2>1, <3>2, Queue DEF Fits
      <4>2. saveChain'[Len(saveChain) + 1].by # "tick"
        BY <4>1 DEF Write
      <4>3. \A i \in 1..(Len(saveChain) + 1) : i \in 1..Len(saveChain) \/ i = Len(saveChain) + 1
        BY <4>1
      <4> QED BY <4>1, <4>2, <4>3
    <3>3. ASSUME NEW t \in Writers \ {"tick"}, Settle(t)
          PROVE  \A i \in DOMAIN saveChain' : saveChain'[i].by = "tick" =>
                   \E j \in DOMAIN saveChain : saveChain'[i] = saveChain[j]
      <4>1. /\ DOMAIN saveChain' = 1..(Len(saveChain) - 1)
            /\ \A i \in 1..(Len(saveChain) - 1) : saveChain'[i] = saveChain[i + 1]
            /\ DOMAIN saveChain = 1..Len(saveChain) /\ Len(saveChain) \in Nat
        BY <1>1, <2>1, <3>3, Queue DEF Fits
      <4>2. \A i \in 1..(Len(saveChain) - 1) : i + 1 \in 1..Len(saveChain)
        BY <4>1
      <4> QED BY <4>1, <4>2
    <3> QED BY <2>1, <3>1, <3>2, <3>3
  <2>5. (pc = "claimed" => \A i \in DOMAIN saveChain :
            saveChain[i].by = "tick" => Claimed(saveChain[i].state, cur))'
    BY <2>2, <2>4 DEF ClaimDurable
  <2> QED BY <2>2, <2>3, <2>5 DEF ClaimDurable
<1>7. CASE LostMoves
  <2>1. mem' = disk' /\ pc' = "next"
    BY <1>7, NothingLost DEF Reload
  <2> QED BY <2>1 DEF ClaimDurable
<1> QED BY <1>3, <1>4, <1>5, <1>6, <1>7, StoreMoves

(* What is paid is claimed on disk, for good.                              *)
LEMMA StepPayment ==
    ASSUME ReleaseInv, SentInv, OrderInv, DurableInv, Seen, StoreWrites, Next
    PROVE  PaymentDurable'
<1>1. sends \in Seq(Payments) /\ StoreTypeOK /\ VersionsOK
  BY DEF ReleaseInv, TypeOK, OutsideTypeOK
<1>2. OrderInv' /\ Keeps(disk, disk')
  BY StepOrder
<1>3. \A k \in DOMAIN sends : sends[k].receipt \in Receipts
  BY <1>1, Element DEF Payments
<1>4. \A k \in DOMAIN sends :
        Claimed(disk', sends[k].receipt) /\ disk'.mint[sends[k].receipt].intent = sends[k].intent
  BY <1>2, <1>3 DEF DurableInv, PaymentDurable, Keeps
<1>5. CASE sends' = sends
  BY <1>4, <1>5 DEF PaymentDurable
<1>6. CASE req = "open" /\ sends' = Append(sends, Payout(cur)) /\ UNCHANGED storeVars
  <2> DEFINE n == Len(sends)
             p == Payout(cur)
  <2>1. pc = "send" /\ cur \in Receipts /\ IntentOf(cur) # NoIntent
    BY <1>6 DEF ReleaseInv, TickInv
  <2>2. p \in Payments /\ p.intent = IntentOf(cur) /\ p.receipt = cur
    BY <2>1, PayoutFits DEF Payout
  <2>3. Claimed(mem, cur)
    BY <1>1, <2>1, Mem
  <2>4. Claimed(disk, cur)
    BY <2>1, <2>3 DEF DurableInv, ClaimDurable
  <2>5. disk.mint[cur].intent = IntentOf(cur)
    BY <2>1, <2>4 DEF OrderInv, Keeps, IntentOf
  <2>6. disk' = disk
    BY <1>6 DEF storeVars
  <2>7. /\ DOMAIN sends' = 1..(n + 1) /\ sends'[n + 1] = p /\ DOMAIN sends = 1..n
        /\ \A k \in 1..n : sends'[k] = sends[k]
        /\ \A k \in 1..(n + 1) : k \in 1..n \/ k = n + 1
    BY <1>1, <1>6, <2>2, Appended
  <2> HIDE DEF n, p
  <2>8. \A k \in DOMAIN sends' :
          /\ Claimed(disk', sends'[k].receipt)
          /\ disk'.mint[sends'[k].receipt].intent = sends'[k].intent
    BY <1>4, <2>2, <2>4, <2>5, <2>6, <2>7
  <2> QED BY <2>8 DEF PaymentDurable
<1> QED BY <1>5, <1>6, PaymentSteps DEF SentInv

(* Together: a payment is claimed on disk, and one is found again.         *)
PaidOnceInv == ReleaseInv /\ SentInv /\ OrderInv /\ DurableInv

LEMMA StepPaid ==
    ASSUME PaidOnceInv, Seen, StoreWrites, [Next]_vars
    PROVE  PaidOnceInv'
<1> USE DEF PaidOnceInv
<1>1. ReleaseInv' /\ SentInv'
  BY StepRelease, StepSent
<1>2. CASE Next
  BY <1>1, <1>2, StepOrder, StepClaim, StepPayment DEF DurableInv
<1>3. CASE UNCHANGED vars
  BY <1>1, <1>3 DEF vars, storeVars, tickVars, outsideVars, walletVars, OrderInv, DurableInv,
                    ClaimDurable, PaymentDurable
<1> QED BY <1>2, <1>3

LEMMA InitPaid == Init => PaidOnceInv
<1> SUFFICES ASSUME Init PROVE PaidOnceInv
  OBVIOUS
<1>1. ReleaseInv
  BY InitRelease
<1>2. saveChain = <<>> /\ late = <<>> /\ sends = <<>> /\ DOMAIN <<>> = {} /\ Len(<<>>) = 0
  BY DEF Init, StoreInit
<1>3. mem = EmptyContents /\ disk = EmptyContents /\ ~poisoned /\ req = "none" /\ pc = "idle"
  BY DEF Init, StoreInit
<1>4. SentInv
  BY <1>2, <1>3, RedeemConstants DEF SentInv
<1>5. OrderInv
  BY <1>2, <1>3, KeepsOn DEF OrderInv
<1>6. \A r \in Receipts : ~Claimed(EmptyContents, r)
  BY DEF Claimed, EmptyContents
<1>7. DurableInv
  BY <1>2, <1>3, <1>6 DEF DurableInv, ClaimDurable, PaymentDurable
<1> QED BY <1>1, <1>4, <1>5, <1>7 DEF PaidOnceInv

-----------------------------------------------------------------------------
(* The comment redeem:<intentId> is looked up before every payment         *)
(* (gateway.ts:1290-1294), so no intent is paid twice, whatever crashes and*)
(* whatever write fails: when the wallet makes no payment its client gave  *)
(* up, and listtransactions reaches back to the first one.                 *)
THEOREM NoIntentPaidTwice ==
    ASSUME Seen
    PROVE  Spec => [](\A j, k \in DOMAIN sends : sends[j].intent = sends[k].intent => j = k)
<1>1. Init => ReleaseInv /\ SentInv
  BY InitPaid DEF PaidOnceInv
<1>2. ReleaseInv /\ SentInv /\ [Next]_vars => (ReleaseInv /\ SentInv)'
  BY StepRelease, StepSent
<1>3. SentInv => \A j, k \in DOMAIN sends : sends[j].intent = sends[k].intent => j = k
  BY DEF SentInv
<1> QED BY <1>1, <1>2, <1>3, PTL DEF Spec

(* A receipt, and an intent, is paid at most once (gateway.ts:1269, 1290): *)
(* the claim that names the intent is on disk before the payment is asked  *)
(* for, so that after any crash the same intent is looked up; when besides *)
(* every write of the state file succeeds.                                 *)
THEOREM PaymentsAreOnce ==
    ASSUME Seen, StoreWrites
    PROVE  Spec => []PaidOnce
<1>1. Init => PaidOnceInv
  BY InitPaid
<1>2. PaidOnceInv /\ [Next]_vars => PaidOnceInv'
  BY StepPaid
<1>3. PaidOnceInv => PaidOnce
  <2> SUFFICES ASSUME PaidOnceInv, NEW j \in DOMAIN sends, NEW k \in DOMAIN sends,
                      sends[j].receipt = sends[k].receipt \/ sends[j].intent = sends[k].intent
               PROVE  j = k
    BY DEF PaidOnce
  <2>1. sends[j].intent = sends[k].intent
    BY DEF PaidOnceInv, DurableInv, PaymentDurable
  <2> QED BY <2>1 DEF PaidOnceInv, SentInv
<1> QED BY <1>1, <1>2, <1>3, PTL DEF Spec

-----------------------------------------------------------------------------
(* Every return commits to an address of its own: what the last result     *)
(* needs besides.  Two returns that may be bound to one intent would both  *)
(* be recorded as released by its one payment.                             *)
OwnCommits ==
    /\ \A r \in Receipts : NoCommit \notin Commits[r]
    /\ \A r, s \in Receipts : r # s => Commits[r] \cap Commits[s] = {}

LEMMA OwnIntent ==
    ASSUME ReleaseInv, PaidInv, OwnCommits, NEW r \in Receipts, NEW s \in Receipts,
           Claimed(mem, r), Claimed(mem, s), mem.mint[r].intent = mem.mint[s].intent
    PROVE  r = s
<1>1. BoundIn(mem, r) /\ BoundIn(mem, s)
  BY DEF ReleaseInv, VersionsOK, Versions, VersionOK
<1>2. back[r].commit \in Commits[r] /\ back[s].commit \in Commits[s]
  BY <1>1 DEF PaidInv, BoundIn
<1>3. back[r].commit = back[s].commit
  BY <1>1, <1>2 DEF BoundIn, OwnCommits
<1> QED BY <1>2, <1>3 DEF OwnCommits

(* What the history shows for a receipt's intent is the receipt's payment. *)
LEMMA FoundIsPaid ==
    ASSUME PaidOnceInv, PaidInv, OwnCommits, NEW r \in Receipts, Found(r)
    PROVE  Paid(r)
<1>1. CASE pc = "send" /\ req = "sent"
  BY <1>1 DEF Found, PaidInv
<1>2. CASE pc = "history" /\ Already(IntentOf(r))
  <2>1. PICK k \in DOMAIN sends : sends[k].intent = IntentOf(r)
    BY <1>2 DEF Already
  <2>2. sends[k].receipt \in Receipts
    BY <2>1, Element DEF PaidOnceInv, ReleaseInv, TypeOK, OutsideTypeOK, Payments
  <2>3. Claimed(disk, sends[k].receipt) /\ disk.mint[sends[k].receipt].intent = IntentOf(r)
    BY <2>1 DEF PaidOnceInv, DurableInv, PaymentDurable
  <2>4. Claimed(mem, sends[k].receipt) /\ mem.mint[sends[k].receipt].intent = mem.mint[r].intent
    BY <2>2, <2>3 DEF PaidOnceInv, OrderInv, Keeps, IntentOf
  <2>5. Claimed(mem, r)
    BY <1>2, Mem DEF Found, PaidOnceInv, ReleaseInv, TypeOK, TickInv
  <2>6. sends[k].receipt = r
    BY <2>2, <2>4, <2>5, OwnIntent DEF PaidOnceInv
  <2> QED BY <2>6 DEF Paid
<1> QED BY <1>1, <1>2 DEF Found

LEMMA PaidForGood ==
    ASSUME PaidOnceInv, Seen, Next, NEW r, Paid(r)
    PROVE  Paid(r)'
<1>1. sends \in Seq(Payments)
  BY DEF PaidOnceInv, ReleaseInv, TypeOK, OutsideTypeOK
<1>2. CASE sends' = sends
  BY <1>2 DEF Paid
<1>3. CASE req = "open" /\ sends' = Append(sends, Payout(cur))
  <2>1. Payout(cur) \in Payments
    BY <1>3, PayoutFits DEF PaidOnceInv, ReleaseInv, TickInv
  <2>2. \A k \in DOMAIN sends : k \in DOMAIN sends' /\ sends'[k] = sends[k]
    BY <1>1, <1>3, <2>1, Appended
  <2> QED BY <2>2 DEF Paid
<1> QED BY <1>2, <1>3, PaymentSteps DEF PaidOnceInv, SentInv

LEMMA CommitsMined ==
    ASSUME ReleaseInv, PaidInv, Next, NEW r \in Receipts, back'[r] # Unspent
    PROVE  back'[r].commit \in Commits[r]
<1>1. CASE back' = back
  BY <1>1 DEF PaidInv
<1>2. CASE \E S \in SUBSET {q \in Receipts : back[q] = Unspent} : MineBlock(S)
  <2>1. PICK S \in SUBSET {q \in Receipts : back[q] = Unspent} : MineBlock(S)
    BY <1>2
  <2>2. PICK c \in [S -> Addresses \cup {NoCommit}] :
          /\ \A q \in S : c[q] \in Commits[q]
          /\ back' = [q \in Receipts |-> IF q \in S THEN [height |-> tip + 1, commit |-> c[q]]
                                         ELSE back[q]]
    BY <2>1 DEF MineBlock
  <2>3. CASE r \in S
    BY <2>2, <2>3
  <2>4. CASE r \notin S
    BY <2>2, <2>4 DEF PaidInv
  <2> QED BY <2>3, <2>4
<1>3. back' = back \/ \E S \in SUBSET {q \in Receipts : back[q] = Unspent} : MineBlock(S)
  <2>1. CASE TickNext
    BY <2>1 DEF TickNext, TickStart, FirstScan, NothingNew, ScanStart, ScanBlock, AdvanceCursor,
                TickEnd, SkipReturn, ClaimReturn, TellReceived, AttestReturn, ToRelease,
                TickRelease, ReleaseDeferred, ReleaseStart, HistoryFound, SendToAddress, SendOk,
                TellReleased, AttestRelease, Finish, Follow, outsideVars, chainVars
  <2>2. CASE FailNext
    BY <2>2 DEF FailNext, ScanFails, HistoryFails, SendFails, outsideVars, chainVars
  <2>3. CASE BesideNext
    BY <2>3 DEF BesideNext, Register, PollExpire, RecordMint, Beside, BesideWritten,
                outsideVars, chainVars
  <2>4. CASE OutsideNext
    BY <2>4 DEF OutsideNext, WalletPays, WalletRefuses, WalletPaysLate, TogglePause, StoreFault,
                Crash, Exit, Reboot, chainVars
  <2> QED BY <2>1, <2>2, <2>3, <2>4 DEF Next
<1> QED BY <1>1, <1>2, <1>3

LEMMA StepPaidInv ==
    ASSUME PaidOnceInv, PaidInv, Seen, StoreWrites, OwnCommits, [Next]_vars
    PROVE  PaidInv'
<1>1. CASE UNCHANGED vars
  BY <1>1 DEF vars, storeVars, tickVars, outsideVars, walletVars, chainVars, PaidInv, Paid,
              Versions, Unspent
<1>2. CASE Next
  <2>1. \A r \in Receipts : Paid(r) => Paid(r)'
    BY <1>2, PaidForGood
  <2>2. \E m : /\ m \in Contents
               /\ \E t \in Writers : Stores(t, m)
               /\ \A r \in Receipts : m.mint[r].status = "redeemed" => Paid(r)
    <3>1. \A r \in Receipts : mem.mint[r].status = "redeemed" \/ Found(r) => Paid(r)
      BY FoundIsPaid DEF PaidInv, Versions
    <3>2. \A m : Old(m) => \A r \in Receipts : m.mint[r].status = "redeemed" => Paid(r)
      BY <3>1 DEF Old
    <3>3. "tick" \in Writers /\ Fits(mem)
      BY Mem DEF Writers, PaidOnceInv, ReleaseInv, TypeOK
    <3>4. CASE TickMoves \/ TellMoves
      BY <3>2, <3>3, <3>4 DEF TickMoves, TellMoves, Stores, Fits
    <3>5. CASE BesideMoves
      BY <3>2, <3>3, <3>5 DEF BesideMoves, Stores, Fits
    <3>6. CASE ClaimMoves
      <4>1. PICK m : Fits(m) /\ NewsOf(m, cur') /\ m.mint[cur'].status = "redeeming" /\ Put("tick", m)
        BY <3>6 DEF ClaimMoves
      <4>2. \A r \in Receipts : m.mint[r].status = "redeemed" => mem.mint[r].status = "redeemed"
        BY <4>1 DEF NewsOf, Claimed
      <4> QED BY <3>1, <3>3, <4>1, <4>2 DEF Stores, Fits
    <3>7. CASE LostMoves
      BY <3>1, <3>3, <3>7, NothingLost DEF PaidOnceInv, Stores, Fits
    <3> QED BY <1>2, <3>4, <3>5, <3>6, <3>7, StoreMoves DEF PaidOnceInv
  <2>3. \A x \in Versions' : \A r \in Receipts : x.mint[r].status = "redeemed" => Paid(r)'
    <3>1. PICK m : /\ m \in Contents
                   /\ \E t \in Writers : Stores(t, m)
                   /\ \A r \in Receipts : m.mint[r].status = "redeemed" => Paid(r)
      BY <2>2
    <3>2. Versions' \subseteq Versions \cup {m}
      BY <3>1, VersionsAfter DEF PaidOnceInv, ReleaseInv, TypeOK
    <3> QED BY <2>1, <3>1, <3>2 DEF PaidInv
  <2>4. \A r \in Receipts : back'[r] # Unspent => back'[r].commit \in Commits[r]
    BY <1>2, CommitsMined DEF PaidOnceInv
  <2>5. ASSUME req' = "sent"
        PROVE  Paid(cur)'
    <3>1. CASE req = "open" /\ sends' = Append(sends, Payout(cur)) /\ UNCHANGED tickVars
      <4>1. Payout(cur) \in Payments /\ sends \in Seq(Payments)
        BY <3>1, PayoutFits DEF PaidOnceInv, ReleaseInv, TickInv, TypeOK, OutsideTypeOK
      <4>2. Len(sends) + 1 \in DOMAIN sends' /\ sends'[Len(sends) + 1] = Payout(cur)
        BY <3>1, <4>1, Appended
      <4>3. sends'[Len(sends) + 1].receipt = cur /\ cur' = cur
        BY <3>1, <4>2 DEF Payout, tickVars
      <4> QED BY <4>2, <4>3 DEF Paid
    <3>2. CASE sends' = sends /\ req = "sent" /\ UNCHANGED tickVars
      BY <3>2 DEF PaidInv, Paid, tickVars
    <3> QED BY <1>2, <2>5, <3>1, <3>2, PaymentSteps DEF PaidOnceInv, SentInv
  <2> QED BY <2>3, <2>4, <2>5 DEF PaidInv, Unspent
<1> QED BY <1>1, <1>2

(* How often a receipt is paid: never, or once.                            *)
LEMMA PaidCount ==
    ASSUME PaidOnceInv, NEW r \in Receipts
    PROVE  /\ ~Paid(r) => Cardinality(PaymentsFor(r)) = 0
           /\ Paid(r) => Cardinality(PaymentsFor(r)) = 1
<1>1. ASSUME ~Paid(r) PROVE Cardinality(PaymentsFor(r)) = 0
  <2>1. PaymentsFor(r) = {}
    BY <1>1 DEF Paid, PaymentsFor
  <2> QED BY <2>1, FS_EmptySet
<1>2. ASSUME Paid(r) PROVE Cardinality(PaymentsFor(r)) = 1
  <2>1. PICK k \in DOMAIN sends : sends[k].receipt = r
    BY <1>2 DEF Paid
  <2>2. \A j \in DOMAIN sends : sends[j].receipt = r => j = k
    <3> TAKE j \in DOMAIN sends
    <3> SUFFICES ASSUME sends[j].receipt = r PROVE j = k
      OBVIOUS
    <3>1. sends[j].intent = sends[k].intent
      BY <2>1 DEF PaidOnceInv, DurableInv, PaymentDurable
    <3> QED BY <3>1 DEF PaidOnceInv, SentInv
  <2>3. PaymentsFor(r) = {k}
    BY <2>1, <2>2 DEF PaymentsFor
  <2> QED BY <2>3, FS_Singleton
<1> QED BY <1>1, <1>2

(* A payment is asked for only when its receipt is claimed on disk and not *)
(* paid yet.                                                               *)
LEMMA AskedIsUnpaid ==
    ASSUME PaidOnceInv, req = "open"
    PROVE  cur \in Receipts /\ Claimed(disk, cur) /\ ~Paid(cur)
<1>1. pc = "send" /\ cur \in Receipts /\ IntentOf(cur) # NoIntent
  BY DEF PaidOnceInv, ReleaseInv, TickInv
<1>2. Claimed(mem, cur)
  BY <1>1, Mem DEF PaidOnceInv, ReleaseInv, TypeOK
<1>3. Claimed(disk, cur)
  BY <1>1, <1>2 DEF PaidOnceInv, DurableInv, ClaimDurable
<1>4. disk.mint[cur].intent = IntentOf(cur)
  BY <1>1, <1>3 DEF PaidOnceInv, OrderInv, Keeps, IntentOf
<1>5. ~Paid(cur)
  BY <1>4 DEF Paid, PaidOnceInv, DurableInv, PaymentDurable, SentInv
<1> QED BY <1>1, <1>3, <1>5

(* A step writes the state file or pays, never both.                       *)
LEMMA StepMaps ==
    ASSUME PaidOnceInv, PaidInv, Seen, StoreWrites, OwnCommits, [Next]_vars
    PROVE  [Ledger!Next]_(Ledger!ledgerVars)
<1> DEFINE claimed == {r \in Receipts : disk.mint[r].status \in {"redeeming", "redeemed"}}
           recorded == {r \in Receipts : disk.mint[r].status = "redeemed"}
           issued == [r \in Receipts |-> Cardinality(PaymentsFor(r))]
<1>1. PaidOnceInv' /\ PaidInv'
  BY StepPaid, StepPaidInv
<1>2. CASE sends' = sends
  <2>1. Keeps(disk, disk')
    <3>1. CASE Next
      BY <3>1, StepOrder DEF PaidOnceInv
    <3>2. CASE UNCHANGED vars
      BY <3>2, KeepsOn DEF vars, storeVars
    <3> QED BY <3>1, <3>2
  <2>2. claimed \subseteq claimed' /\ recorded \subseteq recorded'
    BY <2>1 DEF Keeps, Claimed
  <2>3. issued' = issued /\ \A r \in Receipts : Paid(r)' <=> Paid(r)
    BY <1>2 DEF PaymentsFor, Paid
  <2>4. \A r \in recorded' : r \in claimed' /\ r \in Receipts /\ issued[r] = 1
    <3> TAKE r \in recorded'
    <3>1. r \in Receipts /\ disk'.mint[r].status = "redeemed"
      OBVIOUS
    <3>2. disk' \in Versions'
      BY DEF Versions
    <3>3. Paid(r)'
      BY <1>1, <3>1, <3>2 DEF PaidInv
    <3> QED BY <2>3, <3>1, <3>3, PaidCount
  <2> DEFINE New == claimed' \ claimed
             Landed == recorded' \ recorded
  <2>5. New \subseteq Receipts /\ Landed \subseteq Receipts
    OBVIOUS
  <2>6. claimed' = claimed \cup New /\ recorded' = recorded \cup Landed
    BY <2>2
  <2>7. Landed \subseteq {r \in claimed \cup New : issued[r] = 1}
    BY <2>4, <2>6
  <2> HIDE DEF New, Landed
  <2>8. PICK C \in SUBSET Receipts, R \in SUBSET Receipts : C = New /\ R = Landed
    BY <2>5
  <2>9. Ledger!Persist(C, R)
    BY <2>3, <2>6, <2>7, <2>8 DEF Ledger!Persist
  <2> QED BY <2>9 DEF Ledger!Next
<1>3. CASE req = "open" /\ sends' = Append(sends, Payout(cur)) /\ UNCHANGED storeVars
  <2> DEFINE n == Len(sends)
  <2>1. cur \in Receipts /\ Claimed(disk, cur) /\ ~Paid(cur)
    BY <1>3, AskedIsUnpaid
  <2>2. Payout(cur) \in Payments /\ Payout(cur).receipt = cur
    BY <1>3, PayoutFits DEF PaidOnceInv, ReleaseInv, TickInv, Payout
  <2>3. sends \in Seq(Payments)
    BY DEF PaidOnceInv, ReleaseInv, TypeOK, OutsideTypeOK
  <2>4. /\ DOMAIN sends' = 1..(n + 1) /\ DOMAIN sends = 1..n
        /\ sends'[n + 1] = Payout(cur) /\ n \in Nat
        /\ \A k \in 1..n : sends'[k] = sends[k]
        /\ \A k \in 1..(n + 1) : k \in 1..n \/ k = n + 1
    BY <1>3, <2>2, <2>3, Appended
  <2>5. \A r \in Receipts : Cardinality(PaymentsFor(r))' = IF r = cur THEN 1
                                                          ELSE Cardinality(PaymentsFor(r))
    <3> TAKE r \in Receipts
    <3>1. CASE r = cur
      <4>1. n + 1 \in DOMAIN sends' /\ sends'[n + 1].receipt = r
        BY <2>2, <2>4, <3>1
      <4>2. \A k \in DOMAIN sends' : sends'[k].receipt = r => k = n + 1
        BY <2>1, <2>4, <3>1 DEF Paid
      <4>3. PaymentsFor(r)' = {n + 1}
        BY <4>1, <4>2 DEF PaymentsFor
      <4> QED BY <3>1, <4>3, FS_Singleton
    <3>2. CASE r # cur
      <4>1. PaymentsFor(r)' = PaymentsFor(r)
        <5> HIDE DEF n
        <5>1. \A k \in 1..n : k \in 1..(n + 1)
          BY <2>4
        <5> QED BY <2>2, <2>4, <3>2, <5>1 DEF PaymentsFor
      <4> QED BY <3>2, <4>1
    <3> QED BY <3>1, <3>2
  <2>6. issued' = [issued EXCEPT ![cur] = 1]
    BY <2>1, <2>5
  <2>7. issued[cur] = 0 /\ cur \in claimed
    BY <2>1, PaidCount DEF Claimed
  <2>8. claimed' = claimed /\ recorded' = recorded
    BY <1>3 DEF storeVars
  <2>9. Ledger!Issue(cur)
    BY <2>6, <2>7, <2>8 DEF Ledger!Issue
  <2> QED BY <2>1, <2>9 DEF Ledger!Next
<1>4. \/ sends' = sends
      \/ req = "open" /\ sends' = Append(sends, Payout(cur)) /\ UNCHANGED storeVars
  <2>1. CASE Next
    BY <2>1, PaymentSteps DEF PaidOnceInv, SentInv
  <2>2. CASE UNCHANGED vars
    BY <2>2 DEF vars, outsideVars, walletVars
  <2> QED BY <2>1, <2>2
<1> QED BY <1>2, <1>3, <1>4

LEMMA InitPaidInv == Init => PaidInv
<1> SUFFICES ASSUME Init PROVE PaidInv
  OBVIOUS
<1>1. saveChain = <<>> /\ DOMAIN <<>> = {} /\ mem = EmptyContents /\ disk = EmptyContents
  BY DEF Init, StoreInit
<1>2. Versions = {EmptyContents}
  BY <1>1 DEF Versions
<1>3. \A r \in Receipts : EmptyContents.mint[r].status # "redeemed"
  BY DEF EmptyContents
<1>4. req = "none" /\ back = [r \in Receipts |-> Unspent]
  BY DEF Init
<1> QED BY <1>2, <1>3, <1>4 DEF PaidInv

(* The release pipeline implements the ledger of claims and payments       *)
(* (store.ts:58-69, gateway.ts:1269-1349): a receipt is claimed durably    *)
(* before its payment, is paid at most once and is recorded as redeemed    *)
(* only when paid; crashes, retries and lookups are invisible in it.       *)
THEOREM ReleasesImplementLedger ==
    ASSUME Seen, StoreWrites, OwnCommits
    PROVE  Spec => LedgerSpec
<1>1. Init => PaidOnceInv /\ PaidInv
  BY InitPaid, InitPaidInv
<1>2. PaidOnceInv /\ PaidInv /\ [Next]_vars => (PaidOnceInv /\ PaidInv)'
  BY StepPaid, StepPaidInv
<1>3. PaidOnceInv /\ PaidInv /\ [Next]_vars => [Ledger!Next]_(Ledger!ledgerVars)
  BY StepMaps
<1>4. Init => Ledger!Init
  <2> SUFFICES ASSUME Init PROVE Ledger!Init
    OBVIOUS
  <2>1. disk = EmptyContents /\ sends = <<>> /\ DOMAIN <<>> = {}
    BY DEF Init, StoreInit
  <2>2. \A r \in Receipts : PaymentsFor(r) = {}
    BY <2>1 DEF PaymentsFor
  <2>3. \A r \in Receipts : Cardinality(PaymentsFor(r)) = 0
    BY <2>2, FS_EmptySet
  <2>4. \A r \in Receipts : disk.mint[r].status = "minting"
    BY <2>1 DEF EmptyContents
  <2> QED BY <2>3, <2>4 DEF Ledger!Init
<1> QED BY <1>1, <1>2, <1>3, <1>4, PTL DEF Spec, LedgerSpec, Ledger!Spec

====
