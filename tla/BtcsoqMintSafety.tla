---- MODULE BtcsoqMintSafety ----
(***************************************************************************)
(* Safety of the mint pipeline, for every number of deposits, blocks,      *)
(* crashes and write faults: its types; that a claim outlives every crash, *)
(* and nothing is signed for without one; that a receipt is backed and no  *)
(* intent is ahead; and, while the signer drops what its client gave up,   *)
(* that a deposit has one receipt and the pipeline implements the ledger.  *)
(***************************************************************************)
EXTENDS BtcsoqMintInv, SequenceTheorems, TLAPS

-----------------------------------------------------------------------------
(* The store's operations keep its shape, whatever is put.                 *)
LEMMA StoreTypes ==
    ASSUME StoreTypeOK, NEW t \in Threads, NEW m \in Contents,
           Put(t, m) \/ PutRejected(m) \/ Settle(t) \/ SettlePut(t, m) \/ WriteFails \/ Reload
    PROVE  StoreTypeOK'
<1>1. Write(t, m) \in [by: Threads, state: Contents]
  BY DEF Write
<1>h. Written(t) => /\ Tail(saveChain) \in Seq([by: Threads, state: Contents])
                    /\ Head(saveChain).state \in Contents
  <2> DEFINE W == [by: Threads, state: Contents]
  <2> SUFFICES ASSUME Written(t)
               PROVE  Tail(saveChain) \in Seq(W) /\ Head(saveChain).state \in Contents
    OBVIOUS
  <2>1. saveChain \in Seq(W) /\ saveChain # <<>>
    BY DEF Written, StoreTypeOK
  <2>2. Head(saveChain) \in W /\ Tail(saveChain) \in Seq(W)
    <3> HIDE DEF W
    <3> QED BY <2>1, HeadTailProperties
  <2> QED BY <2>2
<1>2. CASE Put(t, m)
  BY <1>1, <1>2 DEF Put, StoreTypeOK
<1>3. CASE PutRejected(m)
  BY <1>3 DEF PutRejected, StoreTypeOK
<1>4. CASE Settle(t)
  BY <1>4, <1>h DEF Settle, StoreTypeOK
<1>5. CASE SettlePut(t, m)
  BY <1>1, <1>5, <1>h DEF SettlePut, StoreTypeOK
<1>6. CASE WriteFails
  BY <1>6 DEF WriteFails, StoreTypeOK
<1>7. CASE Reload
  <2>1. mem' \in Contents /\ disk' \in Contents /\ poisoned' \in BOOLEAN
    BY <1>7 DEF Reload, StoreTypeOK
  <2>2. saveChain' \in Seq([by: Threads, state: Contents])
    BY <1>7, EmptySeq DEF Reload
  <2> QED BY <2>1, <2>2 DEF StoreTypeOK
<1> QED BY <1>2, <1>3, <1>4, <1>5, <1>6, <1>7

(* What the pipeline puts is a state file.                                 *)
LEMMA ContentsPut ==
    ASSUME StoreTypeOK, NEW d \in Deposits
    PROVE  /\ \A c \in Unseen..Finalized : [mem EXCEPT !.dep[d].conf = c] \in Contents
           /\ \A why \in Held : WithHeld(d, why) \in Contents
           /\ \A h \in Nat :
                [mem EXCEPT !.mint[d] = [status |-> "minting", height |-> h]] \in Contents
           /\ WithMinted(d) \in Contents
           /\ \A i, s : s \in IntentStatus => WithIntent(i, s) \in Contents
           /\ \A k \in EventKinds : Attested(k, d) \in Contents
<1>0. mem \in Contents
  BY DEF StoreTypeOK
<1>1. ASSUME NEW r \in DepositRecord
      PROVE  [mem EXCEPT !.dep[d] = r] \in Contents
  BY <1>0 DEF Contents
<1>2. ASSUME NEW r \in MintRecord
      PROVE  [mem EXCEPT !.mint[d] = r] \in Contents
  BY <1>0 DEF Contents
<1>3. mem.dep[d] \in DepositRecord /\ mem.mint[d] \in MintRecord
  BY <1>0 DEF Contents
<1>4. \A c \in Unseen..Finalized : [mem EXCEPT !.dep[d].conf = c] \in Contents
  <2> TAKE c \in Unseen..Finalized
  <2>1. [mem.dep[d] EXCEPT !.conf = c] \in DepositRecord
    BY <1>3 DEF DepositRecord
  <2>2. [mem EXCEPT !.dep[d].conf = c] = [mem EXCEPT !.dep[d] = [mem.dep[d] EXCEPT !.conf = c]]
    BY <1>0 DEF Contents
  <2> QED BY <1>1, <2>1, <2>2
<1>5. \A why \in Held : WithHeld(d, why) \in Contents
  <2> TAKE why \in Held
  <2>1. [mem.dep[d] EXCEPT !.held = why] \in DepositRecord
    BY <1>3 DEF DepositRecord
  <2>2. WithHeld(d, why) = [mem EXCEPT !.dep[d] = [mem.dep[d] EXCEPT !.held = why]]
    BY <1>0 DEF Contents, WithHeld
  <2> QED BY <1>1, <2>1, <2>2
<1>6. \A h \in Nat :
        [mem EXCEPT !.mint[d] = [status |-> "minting", height |-> h]] \in Contents
  BY <1>2 DEF MintRecord, MintStatus
<1>7. WithMinted(d) \in Contents
  <2>1. [mem.mint[d] EXCEPT !.status = "minted"] \in MintRecord
    BY <1>3 DEF MintRecord, MintStatus
  <2>2. WithMinted(d) = [mem EXCEPT !.mint[d] = [mem.mint[d] EXCEPT !.status = "minted"]]
    BY <1>0 DEF Contents, WithMinted
  <2> QED BY <1>2, <2>1, <2>2
<1>8. \A i, s : s \in IntentStatus => WithIntent(i, s) \in Contents
  BY <1>0 DEF Contents, WithIntent
<1>9. \A k \in EventKinds : Attested(k, d) \in Contents
  BY <1>0 DEF Contents, Attested
<1> QED BY <1>4, <1>5, <1>6, <1>7, <1>8, <1>9

(* A step's bookkeeping keeps the chains' shape.                           *)
LEMMA ThreadTypes ==
    ASSUME ThreadTypeOK, NEW t \in Threads, NEW l \in Locations, NEW S,
           Step(t, l) \/ Return(t) \/ Throw(S) \/ UNCHANGED threadVars
    PROVE  ThreadTypeOK'
<1> USE DEF ThreadTypeOK
<1>1. {"idle", "next", "halted"} \subseteq Locations
  BY DEF Locations
<1>2. CASE Step(t, l)
  BY <1>2 DEF Step
<1>3. CASE Return(t)
  BY <1>1, <1>3 DEF Return
<1>4. CASE Throw(S)
  BY <1>1, <1>4 DEF Throw
<1>5. CASE UNCHANGED threadVars
  BY <1>5 DEF threadVars
<1> QED BY <1>2, <1>3, <1>4, <1>5

LEMMA SaveTypes ==
    ASSUME StoreTypeOK, ThreadTypeOK,
           NEW t \in Threads, NEW m \in Contents, NEW l \in Locations, Save(t, m, l)
    PROVE  StoreTypeOK' /\ ThreadTypeOK'
BY StoreTypes, ThreadTypes DEF Save

LEMMA UnchangedTypes ==
    /\ StoreTypeOK /\ UNCHANGED storeVars => StoreTypeOK'
    /\ OutsideTypeOK /\ UNCHANGED outsideVars => OutsideTypeOK'
<1>1. StoreTypeOK /\ UNCHANGED storeVars => StoreTypeOK'
  BY DEF storeVars, StoreTypeOK
<1>2. OutsideTypeOK /\ UNCHANGED outsideVars => OutsideTypeOK'
  BY DEF OutsideTypeOK, outsideVars, signerVars, chainVars, breakerVars, budgetVars
<1> QED BY <1>1, <1>2

(* The poll's steps.                                                       *)
LEMMA PollTypes ==
    ASSUME TypeOK, NEW d \in Deposits, PollNext(d)
    PROVE  TypeOK'
<1> USE DEF TypeOK
<1>1. {"idle", "detected", "revived", "transited", "certified", "route"} \subseteq Locations
  BY DEF Locations
<1>2. "poll" \in Threads
  BY DEF Threads
<1>3. OutsideTypeOK'
  BY UnchangedTypes DEF PollNext, PollDetect, PollRevive, PollTransit, PollCertify, PollRoute
<1>4. Bound(d) => IntentOf[d] \in Intents
  BY ConstantsAssumption DEF Bound
<1>5. CASE \E c \in Mempool..MaxConfidence : PollDetect(d, c)
  <2>1. PICK c \in Mempool..MaxConfidence : PollDetect(d, c)
    BY <1>5
  <2>2. c \in Unseen..Finalized
    BY ConstantsAssumption DEF Unseen, Mempool, Finalized
  <2>3. [mem EXCEPT !.dep[d].conf = c] \in Contents
    BY <2>2, ContentsPut
  <2>4. StoreTypeOK'
    BY <1>2, <2>1, <2>3, StoreTypes DEF PollDetect
  <2>5. ThreadTypeOK'
    BY <1>1, <1>2, <2>1 DEF PollDetect, ThreadTypeOK, threadVars
  <2> QED BY <1>3, <2>4, <2>5
<1>6. CASE PollRevive(d)
  BY <1>1, <1>2, <1>3, <1>4, <1>6, StoreTypes, ThreadTypes, ContentsPut
  DEF PollRevive, IntentStatus
<1>7. CASE PollTransit(d)
  <2>1. Bound(d) => Transition(d) \in IntentStatus
    BY <1>4 DEF Transition, IntentStatus, StoreTypeOK, Contents
  <2>2. Bound(d)
    BY <1>7 DEF PollTransit
  <2> QED BY <1>1, <1>2, <1>3, <1>4, <1>7, <2>1, <2>2, StoreTypes, ThreadTypes, ContentsPut
          DEF PollTransit
<1>8. CASE PollCertify(d)
  BY <1>1, <1>2, <1>3, <1>8, StoreTypes, ThreadTypes, ContentsPut
  DEF PollCertify, EventKinds
<1>9. CASE PollRoute(d)
  <2>1. Settle("poll") /\ (Return("poll") \/ Step("poll", "route"))
    BY <1>9 DEF PollRoute
  <2>2. mem \in Contents
    BY DEF StoreTypeOK
  <2> QED BY <1>1, <1>2, <1>3, <2>1, <2>2, StoreTypes, ThreadTypes
<1> QED BY <1>5, <1>6, <1>7, <1>8, <1>9 DEF PollNext

(* The steps of the mint and of its drive.                                 *)
LEMMA MintTypes ==
    ASSUME TypeOK, NEW t \in Threads, NEW d \in Deposits, MintNext(t, d)
    PROVE  TypeOK'
<1> USE DEF TypeOK
<1>1. {"validate", "held", "claim", "claimed", "bound", "lookup", "scan", "attempt", "send",
       "failed", "minted", "told", "attested"} \subseteq Locations
  BY DEF Locations
<1>2. mem \in Contents
  BY DEF StoreTypeOK
<1>3. CASE RouteNothing(t, d) \/ RouteUnderpaid(t, d) \/ RouteValidate(t, d)
  BY <1>1, <1>3, ContentsPut, SaveTypes, ThreadTypes, UnchangedTypes
  DEF RouteNothing, RouteUnderpaid, RouteValidate, Held
<1>4. CASE ValidateOk(t, d) \/ ValidateBad(t, d)
  BY <1>1, <1>4, ContentsPut, SaveTypes, ThreadTypes, UnchangedTypes
  DEF ValidateOk, ValidateBad, Held
<1>5. CASE Claim(t, d)
  <2>1. tip \in Nat
    BY DEF OutsideTypeOK
  <2> QED BY <1>1, <1>5, <2>1, ContentsPut, SaveTypes, ThreadTypes, UnchangedTypes DEF Claim
<1>6. CASE BindIntent(t, d) \/ TellIntent(t, d)
  <2>1. {"minting", "minted"} \subseteq IntentStatus
    BY DEF IntentStatus
  <2> QED BY <1>1, <1>6, <2>1, ContentsPut, StoreTypes, ThreadTypes, UnchangedTypes
          DEF BindIntent, TellIntent
<1>7. CASE AttestMint(t, d)
  BY <1>1, <1>7, ContentsPut, StoreTypes, ThreadTypes, UnchangedTypes
  DEF AttestMint, EventKinds
<1>8. CASE DriveNothing(t, d)
  BY <1>8, ThreadTypes, UnchangedTypes, <1>1 DEF DriveNothing
<1>9. CASE DriveStart(t, d)
  <2>1. ThreadTypeOK'
    BY <1>1, <1>9 DEF DriveStart, ThreadTypeOK
  <2> QED BY <1>9, <2>1, UnchangedTypes DEF DriveStart
<1>10. ASSUME Recover(t, d)
       PROVE  StoreTypeOK' /\ ThreadTypeOK'
  <2>1. WithMinted(d) \in Contents
    BY ContentsPut
  <2>2. CASE PutRejected(WithMinted(d)) /\ Throw({t})
    BY <1>1, <2>1, <2>2, StoreTypes, ThreadTypes
  <2>3. CASE /\ Put(t, WithMinted(d))
             /\ pc' = [pc EXCEPT ![t] = "minted"]
             /\ inFlight' = inFlight \ {t}
             /\ UNCHANGED <<cur, phase, todo>>
    <3>1. StoreTypeOK'
      BY <2>1, <2>3, StoreTypes
    <3>2. ThreadTypeOK'
      BY <1>1, <2>3 DEF ThreadTypeOK
    <3> QED BY <3>1, <3>2
  <2> QED BY <1>10, <2>2, <2>3 DEF Recover
<1>11. CASE LookupMempool(t, d)
  BY <1>1, <1>10, <1>11, ThreadTypes, UnchangedTypes DEF LookupMempool
<1>12. CASE ScanFound(t, d)
  BY <1>10, <1>12, UnchangedTypes DEF ScanFound
<1>13. CASE ScanMissing(t, d) \/ LookupFails(t, d)
  BY <1>1, <1>2, <1>13, SaveTypes, UnchangedTypes DEF ScanMissing, LookupFails
<1>14. CASE SendRequest(t, d)
  <2>1. StoreTypeOK' /\ ThreadTypeOK'
    BY <1>1, <1>2, <1>14, StoreTypes, ThreadTypes DEF SendRequest
  <2>2. OutsideTypeOK'
    BY <1>14 DEF SendRequest, OutsideTypeOK, chainVars, breakerVars, budgetVars
  <2> QED BY <2>1, <2>2
<1>15. CASE SendOk(t, d)
  <2>1. StoreTypeOK' /\ ThreadTypeOK'
    BY <1>1, <1>15, ContentsPut, SaveTypes DEF SendOk
  <2>2. OutsideTypeOK'
    BY <1>15 DEF SendOk, OutsideTypeOK, chainVars, breakerVars, budgetVars
  <2> QED BY <2>1, <2>2
<1>16. CASE SendFails(t, d)
  <2>1. StoreTypeOK' /\ ThreadTypeOK'
    BY <1>1, <1>2, <1>16, SaveTypes DEF SendFails
  <2>2. OutsideTypeOK'
    BY <1>16 DEF SendFails, OutsideTypeOK, chainVars, breakerVars, budgetVars
  <2> QED BY <2>1, <2>2
<1> QED BY <1>3, <1>4, <1>5, <1>6, <1>7, <1>8, <1>9, <1>11, <1>12, <1>13, <1>14, <1>15, <1>16
        DEF MintNext

LEMMA ThreadNextTypes ==
    ASSUME TypeOK, NEW t \in Threads, ThreadNext(t)
    PROVE  TypeOK'
<1> USE DEF TypeOK
<1>1. "drive" \in Locations /\ mem \in Contents
  BY DEF Locations, StoreTypeOK
<1>2. CASE ValidateUnreachable(t) \/ ClaimUnreachable(t)
  BY <1>1, <1>2, ThreadTypes, UnchangedTypes DEF ValidateUnreachable, ClaimUnreachable
<1>3. CASE StartDrive(t) \/ Finish(t)
  BY <1>1, <1>3, StoreTypes, ThreadTypes, UnchangedTypes DEF StartDrive, Finish
<1>4. CASE \E d \in Deposits : MintNext(t, d)
  BY <1>4, MintTypes
<1> QED BY <1>2, <1>3, <1>4 DEF ThreadNext

(* The sweeps and the expiry.                                              *)
LEMMA SweepTypes ==
    ASSUME TypeOK, TickNext \/ \E i \in Intents : PollExpire(i)
    PROVE  TypeOK'
<1> USE DEF TypeOK
<1>1. {"next", "route", "drive", "idle", "held"} \subseteq Locations
  BY DEF Locations
<1>2. "tick" \in Threads /\ "poll" \in Threads
  BY DEF Threads
<1>3. CASE TickStart
  <2>1. ThreadTypeOK'
    BY <1>1, <1>2, <1>3 DEF TickStart, ThreadTypeOK
  <2>2. porHalted' \in BOOLEAN
    BY <1>3 DEF TickStart, OutsideTypeOK
  <2>3. OutsideTypeOK'
    BY <1>3, <2>2 DEF TickStart, OutsideTypeOK, signerVars, chainVars, budgetVars
  <2> QED BY <1>3, <2>1, <2>3, UnchangedTypes DEF TickStart
<1>4. ASSUME NEW d \in Deposits, TickDeposit(d) \/ TickMint(d)
      PROVE  TypeOK'
  <2>1. ThreadTypeOK'
    BY <1>1, <1>2, <1>4 DEF TickDeposit, TickMint, ThreadTypeOK
  <2> QED BY <1>4, <2>1, UnchangedTypes DEF TickDeposit, TickMint
<1>5. CASE TickAdvance
  <2>1. ThreadTypeOK'
    BY <1>1, <1>2, <1>5 DEF TickAdvance, ThreadTypeOK
  <2> QED BY <1>5, <2>1, UnchangedTypes DEF TickAdvance
<1>6. ASSUME NEW i \in Intents, PollExpire(i)
      PROVE  TypeOK'
  <2>1. WithIntent(i, "expired") \in Contents
    BY DEF WithIntent, IntentStatus, StoreTypeOK, Contents
  <2> QED BY <1>1, <1>2, <1>6, <2>1, StoreTypes, ThreadTypes, UnchangedTypes DEF PollExpire
<1> QED BY <1>3, <1>4, <1>5, <1>6 DEF TickNext

(* The signer, the chain, the operator, failures.                          *)
LEMMA RebootTypes ==
    ASSUME TypeOK, Reboot, UNCHANGED crashes \/ crashes' = crashes + 1
    PROVE  TypeOK'
<1> USE DEF TypeOK
<1>1. StoreTypeOK'
  <2>1. "poll" \in Threads /\ mem \in Contents /\ Reload
    BY DEF Threads, StoreTypeOK, Reboot
  <2> QED BY <2>1, StoreTypes
<1>2. ThreadTypeOK'
  <2>1. {"idle", "next"} \subseteq Locations
    BY DEF Locations
  <2>2. {d \in Deposits : disk.mint[d].status = "minting"} \subseteq Deposits
    OBVIOUS
  <2> QED BY <2>1, <2>2 DEF Reboot, ThreadTypeOK
<1>3. late' \in [Deposits -> Nat]
  <2>1. CASE UNCHANGED late
    BY <2>1 DEF OutsideTypeOK
  <2>2. CASE \E t \in Threads : late' = [late EXCEPT ![cur[t]] = @ + 1]
    <3>1. PICK t \in Threads : late' = [late EXCEPT ![cur[t]] = @ + 1]
      BY <2>2
    <3>2. \A d \in Deposits : late[d] \in Nat /\ late[d] + 1 \in Nat
      BY DEF OutsideTypeOK
    <3> QED BY <3>1, <3>2 DEF OutsideTypeOK
  <2> QED BY <2>1, <2>2 DEF Reboot
<1>4. req' \in [Threads -> {"none", "open", "sent", "refused"}] /\ porHalted' \in BOOLEAN
  BY DEF Reboot
<1>5. crashes' \in Nat
  BY DEF OutsideTypeOK
<1>6. OutsideTypeOK'
  BY <1>3, <1>4, <1>5 DEF Reboot, OutsideTypeOK, chainVars
<1> QED BY <1>1, <1>2, <1>6

LEMMA OutsideTypes ==
    ASSUME TypeOK, OutsideNext
    PROVE  TypeOK'
<1> USE DEF TypeOK
<1>1. ASSUME NEW t \in Threads, SignerRefuses(t)
      PROVE  TypeOK'
  BY <1>1 DEF SignerRefuses, storeVars, threadVars, chainVars, breakerVars, budgetVars,
              StoreTypeOK, ThreadTypeOK, OutsideTypeOK
<1>2. ASSUME NEW t \in Threads, NEW d \in Deposits, SignerBroadcasts(t, d)
      PROVE  TypeOK'
  BY <1>2 DEF SignerBroadcasts, storeVars, threadVars, breakerVars, budgetVars,
              StoreTypeOK, ThreadTypeOK, OutsideTypeOK
<1>3. ASSUME NEW d \in Deposits, SignerBroadcastsLate(d)
      PROVE  TypeOK'
  BY <1>3 DEF SignerBroadcastsLate, storeVars, threadVars, breakerVars, budgetVars,
              StoreTypeOK, ThreadTypeOK, OutsideTypeOK
<1>4. ASSUME NEW S \in SUBSET mempool, MineBlock(S)
      PROVE  TypeOK'
  BY <1>4 DEF MineBlock, storeVars, threadVars, signerVars, breakerVars, budgetVars,
              StoreTypeOK, ThreadTypeOK, OutsideTypeOK
<1>5. CASE TogglePause
  BY <1>5 DEF TogglePause, storeVars, threadVars, signerVars, chainVars, budgetVars,
              StoreTypeOK, ThreadTypeOK, OutsideTypeOK
<1>6. CASE StoreFault
  <2>1. PICK t \in Threads : TRUE
    BY DEF Threads
  <2>2. StoreTypeOK'
    BY <1>6, <2>1, StoreTypes DEF StoreFault, StoreTypeOK
  <2>3. "idle" \in Locations
    BY DEF Locations
  <2>4. ThreadTypeOK'
    BY <1>6, <2>1, <2>3, ThreadTypes DEF StoreFault
  <2>5. OutsideTypeOK'
    BY <1>6 DEF StoreFault, signerVars, chainVars, breakerVars, OutsideTypeOK
  <2> QED BY <2>2, <2>4, <2>5
<1>7. CASE Crash \/ Exit
  BY <1>7, RebootTypes DEF Crash, Exit
<1> QED BY <1>1, <1>2, <1>3, <1>4, <1>5, <1>6, <1>7 DEF OutsideNext

LEMMA StepTypes ==
    ASSUME TypeOK, [Next]_vars
    PROVE  TypeOK'
<1>1. CASE Next
  BY <1>1, PollTypes, ThreadNextTypes, SweepTypes, OutsideTypes DEF Next
<1>2. CASE UNCHANGED vars
  BY <1>2, UnchangedTypes
  DEF vars, threadVars, TypeOK, ThreadTypeOK
<1> QED BY <1>1, <1>2

LEMMA InitTypes == Init => TypeOK
<1> SUFFICES ASSUME Init PROVE TypeOK
  OBVIOUS
<1>1. EmptyContents \in Contents
  BY DEF EmptyContents, Contents, DepositRecord, MintRecord, MintStatus, IntentStatus,
         Unclaimed, Held, Unseen, Finalized
<1>2. StoreTypeOK
  <2>1. <<>> \in Seq([by: Threads, state: Contents])
    BY EmptySeq
  <2> QED BY <1>1, <2>1 DEF Init, StoreInit, StoreTypeOK
<1>3. ThreadTypeOK
  BY DEF Init, ThreadTypeOK, Locations
<1>4. OutsideTypeOK
  BY DEF Init, OutsideTypeOK
<1> QED BY <1>2, <1>3, <1>4 DEF TypeOK

(* Type correctness, for every number of deposits and intents, every       *)
(* binding and amount, and any number of blocks, crashes and write faults. *)
THEOREM TypeCorrect == Spec => []TypeOK
BY InitTypes, StepTypes, PTL DEF Spec

-----------------------------------------------------------------------------
(* Versions of the state file.                                             *)
LEMMA KeepsOrder ==
    /\ \A a : Keeps(a, a)
    /\ \A a, b, c : Keeps(a, b) /\ Keeps(b, c) => Keeps(a, c)
BY DEF Keeps

LEMMA TruthGrows ==
    ASSUME NEW h \in Nat, NEW k \in Nat, h <= k,
           NEW s \in [Deposits -> Nat], NEW r \in [Deposits -> Nat],
           \A d \in Deposits : s[d] <= r[d],
           NEW m \in Contents, Truthful(m, h, s)
    PROVE  Truthful(m, k, r)
<1>1. \A d \in Deposits : m.mint[d].height \in Nat
  BY DEF Contents, MintRecord
<1> QED BY <1>1 DEF Truthful

(* The queue of writes after each of the store's operations.               *)
LEMMA Queue ==
    ASSUME StoreTypeOK, NEW t \in Threads, NEW m \in Contents
    PROVE  /\ Len(saveChain) \in Nat /\ DOMAIN saveChain = 1..Len(saveChain)
           /\ \A i \in 1..Len(saveChain) :
                saveChain[i].by \in Threads /\ saveChain[i].state \in Contents
           /\ Put(t, m) =>
                /\ DOMAIN saveChain' = 1..(Len(saveChain) + 1)
                /\ \A i \in 1..Len(saveChain) : saveChain'[i] = saveChain[i]
                /\ saveChain'[Len(saveChain) + 1] = Write(t, m)
           /\ Written(t) =>
                /\ Len(saveChain) > 0
                /\ Head(saveChain) = saveChain[1]
                /\ saveChain[1].by = t
           /\ Settle(t) =>
                /\ DOMAIN saveChain' = 1..(Len(saveChain) - 1)
                /\ \A i \in 1..(Len(saveChain) - 1) : saveChain'[i] = saveChain[i + 1]
           /\ SettlePut(t, m) =>
                /\ DOMAIN saveChain' = 1..Len(saveChain)
                /\ \A i \in 1..(Len(saveChain) - 1) : saveChain'[i] = saveChain[i + 1]
                /\ saveChain'[Len(saveChain)] = Write(t, m)
<1> DEFINE W == [by: Threads, state: Contents]
<1>1. saveChain \in Seq(W) /\ Write(t, m) \in W
  BY DEF StoreTypeOK, Write
<1>2. \A w \in W : w.by \in Threads /\ w.state \in Contents
  OBVIOUS
<1> HIDE DEF W
<1>3. Len(saveChain) \in Nat /\ DOMAIN saveChain = 1..Len(saveChain)
  BY <1>1
<1>4. \A i \in 1..Len(saveChain) : saveChain[i].by \in Threads /\ saveChain[i].state \in Contents
  BY <1>1, <1>2
<1>5. ASSUME Put(t, m)
      PROVE  /\ DOMAIN saveChain' = 1..(Len(saveChain) + 1)
             /\ \A i \in 1..Len(saveChain) : saveChain'[i] = saveChain[i]
             /\ saveChain'[Len(saveChain) + 1] = Write(t, m)
  BY <1>1, <1>5, AppendProperties DEF Put
<1>6. ASSUME Written(t)
      PROVE  /\ Len(saveChain) > 0
             /\ Head(saveChain) = saveChain[1]
             /\ saveChain[1].by = t
             /\ Tail(saveChain) \in Seq(W)
             /\ Len(Tail(saveChain)) = Len(saveChain) - 1
             /\ \A i \in 1..(Len(saveChain) - 1) : Tail(saveChain)[i] = saveChain[i + 1]
  <2>1. saveChain # <<>> /\ Head(saveChain).by = t
    BY <1>6 DEF Written
  <2> QED BY <1>1, <2>1, HeadTailProperties, EmptySeq
<1>7. ASSUME Settle(t)
      PROVE  /\ DOMAIN saveChain' = 1..(Len(saveChain) - 1)
             /\ \A i \in 1..(Len(saveChain) - 1) : saveChain'[i] = saveChain[i + 1]
  BY <1>6, <1>7 DEF Settle
<1>8. ASSUME SettlePut(t, m)
      PROVE  /\ DOMAIN saveChain' = 1..Len(saveChain)
             /\ \A i \in 1..(Len(saveChain) - 1) : saveChain'[i] = saveChain[i + 1]
             /\ saveChain'[Len(saveChain)] = Write(t, m)
  <2>1. saveChain' = Append(Tail(saveChain), Write(t, m)) /\ Written(t)
    BY <1>8 DEF SettlePut
  <2> QED BY <1>1, <1>3, <1>6, <2>1, AppendProperties
<1> QED BY <1>3, <1>4, <1>5, <1>6, <1>7, <1>8

(* Whatever a chain puts keeps what memory holds: every version keeps what *)
(* the older ones hold, and what is written stays written.                 *)
LEMMA StoreKeeps ==
    ASSUME StoreTypeOK, StoreInv, UNCHANGED <<tip, broadcasts>>,
           NEW t \in Threads, NEW m \in Contents,
           Keeps(mem, m), Truthful(m, tip, broadcasts),
           \/ Put(t, m) \/ PutRejected(m) \/ Settle(t) \/ SettlePut(t, m) \/ WriteFails
           \/ UNCHANGED storeVars
    PROVE  StoreInv' /\ Keeps(mem, mem') /\ Keeps(disk, disk')
<1> DEFINE n == Len(saveChain)
<1>1. /\ n \in Nat /\ DOMAIN saveChain = 1..n
      /\ Keeps(disk, mem) /\ Keeps(disk, disk) /\ Keeps(mem, mem) /\ Keeps(m, m)
      /\ Keeps(disk, m)
      /\ Truthful(disk, tip, broadcasts) /\ Truthful(mem, tip, broadcasts)
      /\ \A i \in 1..n :
            /\ Truthful(saveChain[i].state, tip, broadcasts)
            /\ Keeps(disk, saveChain[i].state) /\ Keeps(saveChain[i].state, mem)
            /\ Keeps(saveChain[i].state, m)
            /\ \A j \in 1..n : i <= j => Keeps(saveChain[i].state, saveChain[j].state)
  BY Queue, KeepsOrder DEF StoreInv
<1>2. Write(t, m).state = m
  BY DEF Write
<1>3. CASE Put(t, m)
  <2>1. /\ DOMAIN saveChain' = 1..(n + 1) /\ saveChain'[n + 1] = Write(t, m)
        /\ \A i \in 1..n : saveChain'[i] = saveChain[i]
        /\ mem' = m /\ disk' = disk
    BY <1>3, Queue DEF Put
  <2> HIDE DEF n
  <2>2. ASSUME NEW i \in 1..(n + 1)
        PROVE  /\ Truthful(saveChain'[i].state, tip, broadcasts)
               /\ Keeps(disk, saveChain'[i].state) /\ Keeps(saveChain'[i].state, m)
               /\ \A j \in 1..(n + 1) : i <= j => Keeps(saveChain'[i].state, saveChain'[j].state)
    <3>1. i \in 1..n \/ i = n + 1
      BY <1>1
    <3> QED BY <1>1, <1>2, <2>1, <3>1
  <2> QED BY <1>1, <2>1, <2>2 DEF StoreInv
<1>4. CASE Settle(t)
  <2>1. /\ DOMAIN saveChain' = 1..(n - 1) /\ n > 0
        /\ \A i \in 1..(n - 1) : saveChain'[i] = saveChain[i + 1]
        /\ mem' = mem /\ disk' = saveChain[1].state
    BY <1>4, Queue DEF Settle
  <2> HIDE DEF n
  <2>2. ASSUME NEW i \in 1..(n - 1)
        PROVE  /\ Truthful(saveChain'[i].state, tip, broadcasts)
               /\ Keeps(disk', saveChain'[i].state) /\ Keeps(saveChain'[i].state, mem)
               /\ \A j \in 1..(n - 1) : i <= j => Keeps(saveChain'[i].state, saveChain'[j].state)
    BY <1>1, <2>1
  <2> QED BY <1>1, <2>1, <2>2 DEF StoreInv
<1>5. CASE SettlePut(t, m)
  <2>1. /\ DOMAIN saveChain' = 1..n /\ n > 0
        /\ \A i \in 1..(n - 1) : saveChain'[i] = saveChain[i + 1]
        /\ saveChain'[n] = Write(t, m)
        /\ mem' = m /\ disk' = saveChain[1].state
    BY <1>5, Queue DEF SettlePut
  <2> HIDE DEF n
  <2>2. ASSUME NEW i \in 1..n
        PROVE  /\ Truthful(saveChain'[i].state, tip, broadcasts)
               /\ Keeps(disk', saveChain'[i].state) /\ Keeps(saveChain'[i].state, m)
               /\ \A j \in 1..n : i <= j => Keeps(saveChain'[i].state, saveChain'[j].state)
    <3>1. i \in 1..(n - 1) \/ i = n
      BY <1>1
    <3> QED BY <1>1, <1>2, <2>1, <3>1
  <2> QED BY <1>1, <2>1, <2>2 DEF StoreInv
<1>6. CASE PutRejected(m)
  BY <1>1, <1>6 DEF PutRejected, StoreInv
<1>7. CASE WriteFails
  BY <1>1, <1>7 DEF WriteFails, StoreInv
<1>8. CASE UNCHANGED storeVars
  BY <1>1, <1>8 DEF storeVars, StoreInv
<1> QED BY <1>3, <1>4, <1>5, <1>6, <1>7, <1>8

-----------------------------------------------------------------------------
(* What a step of chain t may do: it leaves the other chain and the chain  *)
(* of blocks alone, ...                                                    *)
Apart(t) ==
    /\ UNCHANGED <<broadcasts, chainVars>>
    /\ \A u \in Threads \ {t} :
        /\ pc'[u] = pc[u] /\ cur'[u] = cur[u] /\ req'[u] = req[u]
        /\ u \in inFlight' <=> u \in inFlight
    /\ phase' = "boot" => phase = "boot" /\ todo' \subseteq todo

(* ... puts m when it awaits no other write, and then awaits this one, ... *)
Stores(t, m) ==
    /\ Keeps(mem, m) /\ Truthful(m, tip, broadcasts)
    /\ \/ Put(t, m) /\ pc[t] \notin Waiting /\ pc'[t] \in Waiting
       \/ (PutRejected(m) \/ UNCHANGED storeVars) /\ pc[t] \notin Waiting
       \/ Settle(t)
       \/ SettlePut(t, m) /\ pc'[t] \in Waiting

(* ... enters attemptMint's try block alone and leaves it for good, ...    *)
Locks(t) ==
    /\ pc'[t] \in Locked => t \in inFlight'
    /\ t \in inFlight' =>
        /\ pc'[t] \in Locked \cup {"failed", "minted", "told", "attested"}
        /\ \/ t \in inFlight /\ cur'[t] = cur[t]
           \/ \A u \in inFlight : cur[u] # cur'[t]

(* ... and works, and asks the signer, under a claim only.                 *)
Claims(t) ==
    /\ pc'[t] \in UnderClaim => cur'[t] \in Deposits /\ mem'.mint[cur'[t]].status # "none"
    /\ pc'[t] = "send" => disk'.mint[cur'[t]].status # "none"
    /\ req'[t] # "none" => pc'[t] = "send"
    /\ req'[t] = "sent" => broadcasts[cur'[t]] > 0
    /\ \A d \in Deposits : late'[d] = late[d] \/ disk.mint[d].status # "none"

LEMMA WritesKeep ==
    ASSUME TypeOK, WriteInv, NEW t \in Threads, NEW m \in Contents,
           Apart(t), Stores(t, m), Claims(t)
    PROVE  WriteInv'
<1> DEFINE n == Len(saveChain)
           Good(i, ch) == /\ pc'[ch[i].by] \in Waiting
                          /\ pc'[ch[i].by] \in UnderClaim =>
                                ch[i].state.mint[cur'[ch[i].by]].status # "none"
<1>1. StoreTypeOK /\ ThreadTypeOK
  BY DEF TypeOK
<1>2. /\ n \in Nat /\ DOMAIN saveChain = 1..n
      /\ \A i \in 1..n :
            /\ saveChain[i].by \in Threads
            /\ pc[saveChain[i].by] \in Waiting
            /\ pc[saveChain[i].by] \in UnderClaim =>
                saveChain[i].state.mint[cur[saveChain[i].by]].status # "none"
            /\ \A j \in 1..n : saveChain[j].by = saveChain[i].by => i = j
  BY <1>1, Queue DEF WriteInv
<1>3. \A i \in 1..n : saveChain[i].by # t => Good(i, saveChain)
  BY <1>2 DEF Apart
<1>4. Keeps(mem, mem')
  BY KeepsOrder DEF Stores, Put, PutRejected, Settle, SettlePut, storeVars
<1>5. \A u \in Threads : pc'[u] \in UnderClaim =>
        cur'[u] \in Deposits /\ mem'.mint[cur'[u]].status # "none"
  BY <1>4 DEF WriteInv, Apart, Claims, Keeps
<1>6. phase' = "boot" => \A d \in todo' : mem'.mint[d].status # "none"
  BY <1>1, <1>4 DEF WriteInv, Apart, Keeps, ThreadTypeOK
<1>7. /\ Write(t, m).by = t /\ Write(t, m).state = m
  BY DEF Write
<1>8. SUFFICES \A i \in DOMAIN saveChain' :
                 /\ Good(i, saveChain')
                 /\ \A j \in DOMAIN saveChain' : saveChain'[j].by = saveChain'[i].by => i = j
  BY <1>5, <1>6 DEF WriteInv
<1> HIDE DEF n
<1>9. CASE Put(t, m) /\ pc[t] \notin Waiting /\ pc'[t] \in Waiting
  <2>1. /\ DOMAIN saveChain' = 1..(n + 1) /\ saveChain'[n + 1] = Write(t, m)
        /\ \A i \in 1..n : saveChain'[i] = saveChain[i]
        /\ mem' = m
    BY <1>1, <1>9, Queue DEF Put, n
  <2>2. \A i \in 1..n : saveChain[i].by # t
    BY <1>2, <1>9
  <2>3. ASSUME NEW i \in 1..(n + 1)
        PROVE  /\ Good(i, saveChain')
               /\ \A j \in 1..(n + 1) : saveChain'[j].by = saveChain'[i].by => i = j
    <3>1. \A j \in 1..(n + 1) : j \in 1..n \/ j = n + 1
      BY <1>2
    <3>2. CASE i \in 1..n
      BY <1>2, <1>3, <1>7, <2>1, <2>2, <3>1, <3>2
    <3>3. CASE i = n + 1
      BY <1>2, <1>5, <1>7, <1>9, <2>1, <2>2, <3>1, <3>3
    <3> QED BY <3>1, <3>2, <3>3
  <2> QED BY <2>1, <2>3
<1>10. CASE (PutRejected(m) \/ UNCHANGED storeVars) /\ pc[t] \notin Waiting
  <2>1. saveChain' = saveChain
    BY <1>10 DEF PutRejected, storeVars
  <2>2. \A i \in 1..n : saveChain[i].by # t
    BY <1>2, <1>10
  <2> QED BY <1>2, <1>3, <2>1, <2>2
<1>11. CASE Settle(t)
  <2>1. /\ DOMAIN saveChain' = 1..(n - 1) /\ n > 0 /\ saveChain[1].by = t
        /\ \A i \in 1..(n - 1) : saveChain'[i] = saveChain[i + 1]
    BY <1>1, <1>11, Queue DEF Settle, n
  <2>2. \A i \in 1..(n - 1) : i + 1 \in 1..n /\ saveChain[i + 1].by # t
    BY <1>2, <2>1
  <2> QED BY <1>2, <1>3, <2>1, <2>2
<1>12. CASE SettlePut(t, m) /\ pc'[t] \in Waiting
  <2>1. /\ DOMAIN saveChain' = 1..n /\ n > 0 /\ saveChain[1].by = t
        /\ \A i \in 1..(n - 1) : saveChain'[i] = saveChain[i + 1]
        /\ saveChain'[n] = Write(t, m)
        /\ mem' = m
    BY <1>1, <1>12, Queue DEF SettlePut, n
  <2>2. \A i \in 1..(n - 1) : i + 1 \in 1..n /\ saveChain[i + 1].by # t
    BY <1>2, <2>1
  <2>3. ASSUME NEW i \in 1..n
        PROVE  /\ Good(i, saveChain')
               /\ \A j \in 1..n : saveChain'[j].by = saveChain'[i].by => i = j
    <3>1. \A j \in 1..n : j \in 1..(n - 1) \/ j = n
      BY <1>2
    <3>2. CASE i \in 1..(n - 1)
      <4>1. i + 1 \in 1..n /\ saveChain'[i] = saveChain[i + 1] /\ saveChain[i + 1].by # t
        BY <2>1, <2>2, <3>2
      <4>2. Good(i, saveChain')
        BY <1>3, <4>1
      <4>3. ASSUME NEW j \in 1..(n - 1), saveChain'[j].by = saveChain'[i].by
            PROVE  i = j
        <5> HIDE DEF Good
        <5>1. saveChain'[j] = saveChain[j + 1]
          BY <2>1
        <5>2. saveChain[j + 1].by = saveChain[i + 1].by
          BY <4>1, <4>3, <5>1
        <5>3. j + 1 \in 1..n
          BY <1>2
        <5>4. i + 1 = j + 1
          BY <1>2, <4>1, <5>2, <5>3
        <5> QED BY <1>2, <3>2, <5>4
      <4>4. saveChain'[n].by # saveChain'[i].by
        BY <1>7, <2>1, <4>1
      <4> QED BY <3>1, <4>2, <4>3, <4>4
    <3>3. CASE i = n
      BY <1>2, <1>5, <1>7, <1>12, <2>1, <2>2, <3>1, <3>3
    <3> QED BY <3>1, <3>2, <3>3
  <2> QED BY <2>1, <2>3
<1> QED BY <1>9, <1>10, <1>11, <1>12 DEF Stores

LEMMA LocksKeep ==
    ASSUME TypeOK, LockInv, NEW t \in Threads, Apart(t), Locks(t), TypeOK'
    PROVE  LockInv'
<1>1. inFlight \subseteq Threads /\ inFlight' \subseteq Threads
  BY DEF TypeOK, ThreadTypeOK
<1>2. \A u \in Threads : pc'[u] \in Locked => u \in inFlight'
  BY DEF LockInv, Apart, Locks
<1>3. \A u \in inFlight' : pc'[u] \in Locked \cup {"failed", "minted", "told", "attested"}
  BY <1>1 DEF LockInv, Apart, Locks
<1>4. \A u, v \in inFlight' : cur'[u] = cur'[v] => u = v
  BY <1>1 DEF LockInv, Apart, Locks
<1> QED BY <1>2, <1>3, <1>4 DEF LockInv

(* Mined speaks of the height in memory, which a durable claim fixes.      *)
LEMMA ChainKeeps ==
    ASSUME TypeOK, StoreInv, WriteInv, ChainInv, NEW t \in Threads, NEW m \in Contents,
           Apart(t), Claims(t), Keeps(mem, mem'), Keeps(disk, disk'),
           TypeOK'
    PROVE  ChainInv'
<1>1. /\ \A d \in Deposits : disk.mint[d].status # "none" =>
            /\ disk'.mint[d].status # "none"
            /\ disk'.mint[d].height = disk.mint[d].height
            /\ mem'.mint[d].height = mem.mint[d].height
  BY DEF StoreInv, Keeps
<1>2. UNCHANGED <<broadcasts, mempool, blocks>>
  BY DEF Apart, chainVars
<1>3. \A u \in Threads : pc'[u] = "send" => disk'.mint[cur'[u]].status # "none"
  <2>1. "send" \in UnderClaim
    BY DEF UnderClaim, Locked
  <2> QED BY <1>1, <2>1 DEF WriteInv, ChainInv, Apart, Claims
<1>4. ASSUME NEW d \in Deposits
      PROVE  /\ late'[d] > 0 => disk'.mint[d].status # "none"
             /\ broadcasts'[d] > 0 =>
                  disk'.mint[d].status # "none" /\ (d \in mempool' \/ Mined(d)')
  BY <1>1, <1>2 DEF ChainInv, Claims, Mined
<1>5. \A d \in mempool' : broadcasts'[d] > 0
  BY <1>2 DEF ChainInv
<1>6. \A b \in blocks' : broadcasts'[b[1]] > 0 /\ b[2] >= disk'.mint[b[1]].height
  <2>1. \A b \in blocks : b[1] \in Deposits
    BY DEF TypeOK, OutsideTypeOK
  <2> QED BY <1>1, <1>2, <2>1 DEF ChainInv
<1> QED BY <1>3, <1>4, <1>5, <1>6 DEF ChainInv

(* A step of a chain that keeps to these bounds keeps the invariant.       *)
LEMMA ChainStep ==
    ASSUME ClaimInv, NEW t \in Threads, NEW m \in Contents,
           Apart(t), Stores(t, m), Locks(t), Claims(t), TypeOK'
    PROVE  ClaimInv' /\ Keeps(mem, mem') /\ Keeps(disk, disk')
<1> USE DEF ClaimInv
<1>1. StoreInv' /\ Keeps(mem, mem') /\ Keeps(disk, disk')
  <2>1. StoreTypeOK /\ UNCHANGED <<tip, broadcasts>>
    BY DEF TypeOK, Apart, chainVars
  <2> QED BY <2>1, StoreKeeps DEF Stores
<1>2. WriteInv'
  BY WritesKeep
<1>3. LockInv'
  BY LocksKeep
<1>4. ChainInv'
  BY <1>1, ChainKeeps
<1>5. RequestInv'
  BY DEF RequestInv, Apart, Claims
<1> QED BY <1>1, <1>2, <1>3, <1>4, <1>5

-----------------------------------------------------------------------------
(* Steps that leave the signer's requests alone.                           *)
Elsewhere(t) == UNCHANGED outsideVars /\ pc[t] # "send"

LEMMA LeaveStep ==
    ASSUME ClaimInv, NEW t \in Threads, Elsewhere(t), Return(t) \/ Throw({t})
    PROVE  Apart(t) /\ Locks(t) /\ Claims(t)
<1>1. /\ pc'[t] \in {"idle", "next", "halted"} /\ t \notin inFlight'
      /\ \A u \in Threads \ {t} :
            /\ pc'[u] = pc[u] /\ cur'[u] = cur[u]
            /\ u \in inFlight' <=> u \in inFlight
      /\ phase' = "boot" => phase = "boot" /\ todo' \subseteq todo
  BY DEF Return, Throw, ClaimInv, TypeOK, ThreadTypeOK
<1>2. req[t] = "none"
  BY DEF Elsewhere, ClaimInv, RequestInv
<1>3. UNCHANGED <<broadcasts, mempool, blocks, tip, req, late>>
  BY DEF Elsewhere, outsideVars, signerVars, chainVars
<1>4. Apart(t)
  BY <1>1, <1>3 DEF Apart, chainVars
<1>5. Locks(t) /\ Claims(t)
  BY <1>1, <1>2, <1>3 DEF Locks, Claims, Locked, UnderClaim
<1> QED BY <1>4, <1>5

LEMMA MoveStep ==
    ASSUME ClaimInv, NEW t \in Threads, NEW l \in Locations \ {"send"}, Elsewhere(t), Step(t, l),
           l \in Locked => pc[t] \in Locked,
           pc[t] \in Locked \cup {"failed", "minted", "told", "attested"} =>
             l \in Locked \cup {"failed", "minted", "told", "attested"},
           l \in UnderClaim =>
             \/ pc[t] \in UnderClaim /\ Keeps(mem, mem')
             \/ cur[t] \in Deposits /\ mem'.mint[cur[t]].status # "none"
    PROVE  Apart(t) /\ Locks(t) /\ Claims(t)
<1>1. /\ pc'[t] = l /\ \A u \in Threads \ {t} : pc'[u] = pc[u]
      /\ UNCHANGED <<cur, inFlight, phase, todo>>
  BY DEF Step, ClaimInv, TypeOK, ThreadTypeOK
<1>2. req[t] = "none"
  BY DEF Elsewhere, ClaimInv, RequestInv
<1>3. UNCHANGED <<broadcasts, mempool, blocks, tip, req, late>>
  BY DEF Elsewhere, outsideVars, signerVars, chainVars
<1>4. Apart(t)
  BY <1>1, <1>3 DEF Apart, chainVars
<1>5. Locks(t)
  BY <1>1 DEF Locks, ClaimInv, LockInv
<1>6. pc[t] \in UnderClaim => cur[t] \in Deposits /\ mem.mint[cur[t]].status # "none"
  BY DEF ClaimInv, WriteInv
<1>7. Claims(t)
  BY <1>1, <1>2, <1>3, <1>6 DEF Claims, Keeps
<1> QED BY <1>4, <1>5, <1>7

LEMMA SaveStep ==
    ASSUME ClaimInv, NEW t \in Threads, NEW m \in Contents, NEW l \in Waiting,
           Elsewhere(t), Save(t, m, l), pc[t] \notin Waiting,
           Keeps(mem, m), Truthful(m, tip, broadcasts),
           l = "attempt" => pc[t] \in Locked,
           pc[t] \in Locked => l \in {"attempt", "failed", "minted"},
           l \in UnderClaim =>
             \/ pc[t] \in UnderClaim
             \/ cur[t] \in Deposits /\ m.mint[cur[t]].status # "none"
    PROVE  Apart(t) /\ Stores(t, m) /\ Locks(t) /\ Claims(t)
<1>1. CASE Put(t, m) /\ Step(t, l)
  <2>1. Stores(t, m)
    BY <1>1 DEF Stores, Step, ClaimInv, TypeOK, ThreadTypeOK
  <2>2. mem' = m /\ l \in Locations \ {"send"}
    BY <1>1 DEF Put, Waiting, Locations
  <2>3. l \in Locked => l = "attempt"
    BY DEF Locked, Waiting
  <2>4. "attempt" \in Locked
    BY DEF Locked
  <2>5. /\ l \in Locked => pc[t] \in Locked
        /\ pc[t] \in Locked \cup {"failed", "minted", "told", "attested"} =>
             l \in Locked \cup {"failed", "minted", "told", "attested"}
    BY <2>3, <2>4 DEF Waiting
  <2>6. Apart(t) /\ Locks(t) /\ Claims(t)
    BY <1>1, <2>2, <2>5, MoveStep
  <2> QED BY <2>1, <2>6
<1>2. CASE PutRejected(m) /\ Throw({t})
  <2>1. Stores(t, m)
    BY <1>2 DEF Stores
  <2> QED BY <1>2, <2>1, LeaveStep
<1> QED BY <1>1, <1>2 DEF Save

(* What the pipeline puts keeps the claims, and tells the truth.           *)
LEMMA Edits ==
    ASSUME ClaimInv, NEW d \in Deposits
    PROVE  /\ mem \in Contents /\ Truthful(mem, tip, broadcasts)
           /\ \A m : m.mint = mem.mint => Keeps(mem, m) /\ Truthful(m, tip, broadcasts)
           /\ \A c : [mem EXCEPT !.dep[d].conf = c].mint = mem.mint
           /\ \A why : WithHeld(d, why).mint = mem.mint
           /\ \A i, s : WithIntent(i, s).mint = mem.mint
           /\ \A k : Attested(k, d).mint = mem.mint
           /\ broadcasts[d] > 0 =>
                Keeps(mem, WithMinted(d)) /\ Truthful(WithMinted(d), tip, broadcasts)
<1>1. mem \in Contents /\ Truthful(mem, tip, broadcasts)
  BY DEF ClaimInv, TypeOK, StoreTypeOK, StoreInv
<1>2. \A m : m.mint = mem.mint => Keeps(mem, m) /\ Truthful(m, tip, broadcasts)
  BY <1>1 DEF Keeps, Truthful
<1>3. /\ \A c : [mem EXCEPT !.dep[d].conf = c].mint = mem.mint
      /\ \A why : WithHeld(d, why).mint = mem.mint
      /\ \A i, s : WithIntent(i, s).mint = mem.mint
      /\ \A k : Attested(k, d).mint = mem.mint
  BY <1>1 DEF Contents, WithHeld, WithIntent, Attested
<1>4. \A e \in Deposits :
        WithMinted(d).mint[e] =
          IF e = d THEN [mem.mint[d] EXCEPT !.status = "minted"] ELSE mem.mint[e]
  BY <1>1 DEF Contents, WithMinted
<1>5. \A e \in Deposits : mem.mint[e] \in MintRecord
  BY <1>1 DEF Contents
<1>6. ASSUME broadcasts[d] > 0
      PROVE  Keeps(mem, WithMinted(d)) /\ Truthful(WithMinted(d), tip, broadcasts)
  <2>1. \A e \in Deposits :
          /\ WithMinted(d).mint[e].status = IF e = d THEN "minted" ELSE mem.mint[e].status
          /\ WithMinted(d).mint[e].height = mem.mint[e].height
    BY <1>4, <1>5 DEF MintRecord
  <2> QED BY <1>1, <1>6, <2>1 DEF Keeps, Truthful
<1> QED BY <1>1, <1>2, <1>3, <1>6

-----------------------------------------------------------------------------
(* The poll's steps put no claim and no record.                            *)
LEMMA PollClaims ==
    ASSUME ClaimInv, NEW d \in Deposits, PollNext(d)
    PROVE  ClaimInv' /\ Keeps(mem, mem') /\ Keeps(disk, disk')
<1>1. TypeOK'
  BY PollTypes DEF ClaimInv
<1>2. "poll" \in Threads /\ StoreTypeOK /\ ThreadTypeOK
  BY DEF Threads, ClaimInv, TypeOK
<1>3. ASSUME NEW m \in Contents, Apart("poll"), Stores("poll", m), Locks("poll"), Claims("poll")
      PROVE  ClaimInv' /\ Keeps(mem, mem') /\ Keeps(disk, disk')
  BY <1>1, <1>2, <1>3, ChainStep
<1>4. ASSUME NEW m \in Contents, m.mint = mem.mint,
             NEW l \in {"revived", "transited", "certified"},
             UNCHANGED outsideVars, SettlePut("poll", m), Step("poll", l),
             pc["poll"] \in {"detected", "revived", "transited"}
      PROVE  ClaimInv' /\ Keeps(mem, mem') /\ Keeps(disk, disk')
  <2>1. pc'["poll"] = l
    BY <1>2, <1>4 DEF Step, ThreadTypeOK
  <2>2. Keeps(mem, m) /\ Truthful(m, tip, broadcasts)
    BY <1>4, Edits
  <2>3. Stores("poll", m)
    BY <1>4, <2>1, <2>2 DEF Stores, Waiting
  <2>4. Apart("poll") /\ Locks("poll") /\ Claims("poll")
    BY <1>2, <1>4, MoveStep DEF Elsewhere, Locations, Locked, UnderClaim
  <2> QED BY <1>3, <1>4, <2>3, <2>4
<1>5. CASE \E c \in Mempool..MaxConfidence : PollDetect(d, c)
  <2>1. PICK c \in Mempool..MaxConfidence : PollDetect(d, c)
    BY <1>5
  <2> DEFINE m == [mem EXCEPT !.dep[d].conf = c]
  <2>2. m \in Contents /\ Keeps(mem, m) /\ Truthful(m, tip, broadcasts)
    <3>1. c \in Unseen..Finalized
      BY ConstantsAssumption DEF Unseen, Mempool, Finalized
    <3> QED BY <1>2, <3>1, ContentsPut, Edits
  <2>3. /\ pc["poll"] = "idle" /\ pc'["poll"] \in {"idle", "detected"}
        /\ UNCHANGED <<inFlight, phase, todo>> /\ pc'["tick"] = pc["tick"]
        /\ cur'["tick"] = cur["tick"]
    BY <1>2, <2>1 DEF PollDetect, At, threadVars, ThreadTypeOK, Threads
  <2>4. UNCHANGED <<broadcasts, mempool, blocks, tip, req, late>>
    BY <2>1 DEF PollDetect, outsideVars, signerVars, chainVars
  <2>5. Apart("poll")
    BY <2>3, <2>4 DEF Apart, chainVars, Threads
  <2>6. Stores("poll", m)
    BY <1>2, <2>1, <2>2, <2>3 DEF PollDetect, Stores, Waiting, ThreadTypeOK
  <2>7. Locks("poll")
    BY <2>3 DEF Locks, Locked, ClaimInv, LockInv
  <2>8. Claims("poll")
    BY <1>2, <2>3, <2>4 DEF Claims, UnderClaim, Locked, ClaimInv, RequestInv
  <2> QED BY <1>3, <2>2, <2>5, <2>6, <2>7, <2>8
<1>6. CASE PollRevive(d)
  <2>1. "awaiting-deposit" \in IntentStatus
    BY DEF IntentStatus
  <2> QED BY <1>2, <1>4, <1>6, <2>1, ContentsPut, Edits DEF PollRevive, At
<1>7. CASE PollTransit(d)
  <2>1. WithIntent(IntentOf[d], Transition(d)) \in Contents
    <3>1. IntentOf[d] \in Intents
      BY <1>7, ConstantsAssumption DEF PollTransit, Bound
    <3>2. Transition(d) \in IntentStatus
      BY <1>2, <3>1 DEF Transition, IntentStatus, StoreTypeOK, Contents
    <3> QED BY <1>2, <3>2, ContentsPut
  <2> QED BY <1>4, <1>7, <2>1, Edits DEF PollTransit, At
<1>8. CASE PollCertify(d)
  <2>1. "deposit-confirmed" \in EventKinds
    BY DEF EventKinds
  <2> QED BY <1>2, <1>4, <1>8, <2>1, ContentsPut, Edits DEF PollCertify, At
<1>9. CASE PollRoute(d)
  <2>1. Settle("poll") /\ UNCHANGED outsideVars /\ (Return("poll") \/ Step("poll", "route"))
        /\ pc["poll"] \in {"detected", "revived", "transited", "certified"}
    BY <1>9 DEF PollRoute, At
  <2>2. mem \in Contents /\ Stores("poll", mem)
    BY <2>1, Edits DEF Stores
  <2>3. Apart("poll") /\ Locks("poll") /\ Claims("poll")
    BY <1>2, <2>1, MoveStep, LeaveStep DEF Elsewhere, Locations, Locked, UnderClaim
  <2> QED BY <1>3, <2>2, <2>3
<1> QED BY <1>5, <1>6, <1>7, <1>8, <1>9 DEF PollNext

-----------------------------------------------------------------------------
(* The steps of the mint and of its drive.                                 *)

(* A receipt the drive finds on chain was sent.                            *)
LEMMA RecoverStep ==
    ASSUME ClaimInv, NEW t \in Threads, NEW d \in Deposits, cur[t] = d,
           pc[t] \in {"lookup", "scan"}, Recover(t, d), UNCHANGED outsideVars,
           broadcasts[d] > 0
    PROVE  Apart(t) /\ Stores(t, WithMinted(d)) /\ Locks(t) /\ Claims(t)
<1>1. Elsewhere(t) /\ pc[t] \in UnderClaim /\ pc[t] \notin Waiting
  BY DEF Elsewhere, UnderClaim, Locked, Waiting
<1>2. Keeps(mem, WithMinted(d)) /\ Truthful(WithMinted(d), tip, broadcasts)
  BY Edits
<1>3. CASE PutRejected(WithMinted(d)) /\ Throw({t})
  BY <1>1, <1>2, <1>3, LeaveStep DEF Stores
<1>4. CASE /\ Put(t, WithMinted(d))
           /\ pc' = [pc EXCEPT ![t] = "minted"]
           /\ inFlight' = inFlight \ {t}
           /\ UNCHANGED <<cur, phase, todo>>
  <2>1. /\ pc'[t] = "minted" /\ \A u \in Threads \ {t} : pc'[u] = pc[u]
        /\ mem' = WithMinted(d)
    BY <1>4 DEF Put, ClaimInv, TypeOK, ThreadTypeOK
  <2>2. UNCHANGED <<broadcasts, mempool, blocks, tip, req, late>> /\ req[t] = "none"
    BY <1>1 DEF Elsewhere, outsideVars, signerVars, chainVars, ClaimInv, RequestInv
  <2>3. Apart(t)
    BY <1>4, <2>1, <2>2 DEF Apart, chainVars
  <2>4. Stores(t, WithMinted(d))
    BY <1>1, <1>2, <1>4, <2>1 DEF Stores, Waiting
  <2>5. Locks(t)
    BY <1>4, <2>1 DEF Locks, Locked
  <2>6. WithMinted(d).mint[d].status # "none"
    BY <1>1, <1>2 DEF Keeps, ClaimInv, WriteInv
  <2>7. Claims(t)
    BY <1>4, <2>1, <2>2, <2>6 DEF Claims
  <2> QED BY <2>3, <2>4, <2>5, <2>7
<1> QED BY <1>3, <1>4 DEF Recover

(* The signer answers, or is given up.                                     *)
LEMMA AnswerStep ==
    ASSUME ClaimInv, NEW t \in Threads, pc[t] = "send", NEW m \in Contents,
           Keeps(mem, m), Truthful(m, tip, broadcasts),
           NEW l \in {"minted", "failed"}, Save(t, m, l),
           req' = [req EXCEPT ![t] = "none"], UNCHANGED <<broadcasts, chainVars>>,
           \A d \in Deposits : late'[d] = late[d] \/ disk.mint[d].status # "none"
    PROVE  Apart(t) /\ Stores(t, m) /\ Locks(t) /\ Claims(t)
<1>1. ThreadTypeOK /\ OutsideTypeOK /\ t \in inFlight
  BY DEF ClaimInv, TypeOK, LockInv, Locked
<1>2. req'[t] = "none" /\ \A u \in Threads \ {t} : req'[u] = req[u]
  BY <1>1 DEF OutsideTypeOK
<1>3. cur[t] \in Deposits /\ mem.mint[cur[t]].status # "none"
  BY DEF ClaimInv, WriteInv, UnderClaim, Locked
<1>4. CASE Put(t, m) /\ Step(t, l)
  <2>1. /\ pc'[t] = l /\ \A u \in Threads \ {t} : pc'[u] = pc[u]
        /\ UNCHANGED <<cur, inFlight, phase, todo>> /\ mem' = m
    BY <1>1, <1>4 DEF Step, Put, ThreadTypeOK
  <2>2. Apart(t) /\ Locks(t)
    BY <1>1, <1>2, <2>1 DEF Apart, Locks, Locked
  <2>3. Stores(t, m)
    BY <1>4, <2>1 DEF Stores, Waiting
  <2>4. Claims(t)
    BY <1>2, <1>3, <2>1 DEF Claims, Keeps
  <2> QED BY <2>2, <2>3, <2>4
<1>5. CASE PutRejected(m) /\ Throw({t})
  <2>1. /\ pc'[t] \in {"idle", "halted"} /\ t \notin inFlight'
        /\ \A u \in Threads \ {t} :
              /\ pc'[u] = pc[u] /\ cur'[u] = cur[u]
              /\ u \in inFlight' <=> u \in inFlight
        /\ phase' = "boot" => phase = "boot" /\ todo' \subseteq todo
    BY <1>1, <1>5 DEF Throw, ThreadTypeOK
  <2>2. Apart(t)
    BY <1>2, <2>1 DEF Apart
  <2>3. Stores(t, m)
    BY <1>5 DEF Stores, Waiting
  <2>4. Locks(t) /\ Claims(t)
    BY <1>2, <2>1 DEF Locks, Claims, Locked, UnderClaim
  <2> QED BY <2>2, <2>3, <2>4
<1> QED BY <1>4, <1>5 DEF Save

(* The request goes out under a claim that its own write has made durable. *)
LEMMA SendStep ==
    ASSUME ClaimInv, NEW t \in Threads, NEW d \in Deposits, SendRequest(t, d)
    PROVE  Apart(t) /\ Stores(t, mem) /\ Locks(t) /\ Claims(t)
<1>1. StoreTypeOK /\ ThreadTypeOK /\ OutsideTypeOK
  BY DEF ClaimInv, TypeOK
<1>2. /\ pc[t] = "attempt" /\ Settle(t) /\ UNCHANGED <<late, broadcasts, chainVars>>
      /\ pc'[t] = "send" /\ \A u \in Threads \ {t} : pc'[u] = pc[u]
      /\ req'[t] = "open" /\ \A u \in Threads \ {t} : req'[u] = req[u]
      /\ UNCHANGED <<cur, inFlight, phase, todo>>
  BY <1>1 DEF SendRequest, At, Step, ThreadTypeOK, OutsideTypeOK
<1>3. /\ cur[t] \in Deposits /\ mem.mint[cur[t]].status # "none" /\ t \in inFlight
  BY <1>2 DEF ClaimInv, WriteInv, LockInv, UnderClaim, Locked
<1>4. disk'.mint[cur[t]].status # "none"
  <2>1. /\ 1 \in DOMAIN saveChain /\ saveChain[1].by = t /\ disk' = saveChain[1].state
    <3>1. mem \in Contents /\ Written(t) /\ disk' = Head(saveChain).state
      BY <1>1, <1>2 DEF StoreTypeOK, Settle
    <3> QED BY <1>1, <3>1, Queue
  <2> QED BY <1>2, <2>1 DEF ClaimInv, WriteInv, UnderClaim, Locked
<1>5. Apart(t) /\ Locks(t)
  BY <1>2, <1>3 DEF Apart, Locks, Locked
<1>6. Stores(t, mem)
  BY <1>2, Edits DEF Stores
<1>7. mem' = mem
  BY <1>2 DEF Settle
<1>8. Claims(t)
  BY <1>2, <1>3, <1>4, <1>7 DEF Claims
<1> QED BY <1>5, <1>6, <1>8

LEMMA MintClaims ==
    ASSUME ClaimInv, NEW t \in Threads, NEW d \in Deposits, MintNext(t, d)
    PROVE  ClaimInv' /\ Keeps(mem, mem') /\ Keeps(disk, disk')
<1>1. TypeOK'
  BY MintTypes DEF ClaimInv
<1>2. StoreTypeOK /\ ThreadTypeOK /\ OutsideTypeOK
  BY DEF ClaimInv, TypeOK
<1>3. ASSUME NEW m \in Contents, Apart(t), Stores(t, m), Locks(t), Claims(t)
      PROVE  ClaimInv' /\ Keeps(mem, mem') /\ Keeps(disk, disk')
  BY <1>1, <1>3, ChainStep
<1>4. /\ mem \in Contents /\ Keeps(mem, mem) /\ Truthful(mem, tip, broadcasts)
  BY Edits
<1>5. ASSUME UNCHANGED <<storeVars, outsideVars>>,
             pc[t] \in {"route", "validate", "claim", "drive"},
             Return(t) \/ \E l \in {"validate", "claim"} : Step(t, l)
      PROVE  ClaimInv' /\ Keeps(mem, mem') /\ Keeps(disk, disk')
  <2>1. Stores(t, mem)
    BY <1>4, <1>5 DEF Stores, Waiting
  <2>2. CASE Return(t)
    BY <1>3, <1>4, <1>5, <2>1, <2>2, LeaveStep DEF Elsewhere
  <2>3. CASE \E l \in {"validate", "claim"} : Step(t, l)
    BY <1>3, <1>4, <1>5, <2>1, <2>3, MoveStep DEF Elsewhere, Locations, Locked, UnderClaim
  <2> QED BY <1>5, <2>2, <2>3
<1>6. ASSUME NEW m \in Contents, m.mint = mem.mint, UNCHANGED outsideVars,
             pc[t] \in {"route", "validate"}, Save(t, m, "held")
      PROVE  ClaimInv' /\ Keeps(mem, mem') /\ Keeps(disk, disk')
  <2>1. Keeps(mem, m) /\ Truthful(m, tip, broadcasts)
    BY <1>6, Edits
  <2> QED BY <1>3, <1>6, <2>1, SaveStep DEF Elsewhere, Waiting, Locked, UnderClaim
<1>7. ASSUME NEW m \in Contents, m.mint = mem.mint, UNCHANGED outsideVars, SettlePut(t, m),
             \/ pc[t] = "claimed" /\ Step(t, "bound")
             \/ pc[t] = "minted" /\ Step(t, "told")
             \/ pc[t] = "told" /\ Step(t, "attested")
      PROVE  ClaimInv' /\ Keeps(mem, mem') /\ Keeps(disk, disk')
  <2>1. Keeps(mem, m) /\ Truthful(m, tip, broadcasts) /\ mem' = m
    BY <1>7, Edits DEF SettlePut
  <2>2. pc'[t] \in Waiting
    BY <1>2, <1>7 DEF Step, Waiting, ThreadTypeOK
  <2>3. Stores(t, m)
    BY <1>7, <2>1, <2>2 DEF Stores
  <2>4. Apart(t) /\ Locks(t) /\ Claims(t)
    BY <1>7, <2>1, MoveStep DEF Elsewhere, Locations, Locked, UnderClaim
  <2> QED BY <1>3, <2>3, <2>4
<1>8. ASSUME UNCHANGED outsideVars,
             \/ pc[t] = "scan" /\ Save(t, mem, "attempt")
             \/ pc[t] = "lookup" /\ Save(t, mem, "failed")
      PROVE  ClaimInv' /\ Keeps(mem, mem') /\ Keeps(disk, disk')
  BY <1>3, <1>4, <1>8, SaveStep DEF Elsewhere, Waiting, Locked, UnderClaim
<1>9. CASE RouteNothing(t, d) \/ RouteValidate(t, d) \/ ValidateOk(t, d) \/ DriveNothing(t, d)
  BY <1>5, <1>9 DEF RouteNothing, RouteValidate, ValidateOk, DriveNothing, At
<1>10. CASE RouteUnderpaid(t, d)
  BY <1>2, <1>6, <1>10, ContentsPut, Edits DEF RouteUnderpaid, At, Held
<1>11. CASE ValidateBad(t, d)
  BY <1>2, <1>5, <1>6, <1>11, ContentsPut, Edits DEF ValidateBad, At, Held
<1>12. CASE Claim(t, d)
  <2> DEFINE m == [mem EXCEPT !.mint[d] = [status |-> "minting", height |-> tip]]
  <2>1. CASE Claimed(d)
    BY <1>5, <1>12, <2>1 DEF Claim, At
  <2>2. CASE ~Claimed(d)
    <3>1. m \in Contents /\ tip \in Nat
      BY <1>2, ContentsPut DEF OutsideTypeOK
    <3>2. \A e \in Deposits : m.mint[e] = IF e = d THEN [status |-> "minting", height |-> tip]
                                          ELSE mem.mint[e]
      BY <1>4 DEF Contents
    <3>3. Keeps(mem, m) /\ Truthful(m, tip, broadcasts)
      BY <1>4, <2>2, <3>1, <3>2 DEF Claimed, Keeps, Truthful
    <3>4. m.mint[d].status # "none"
      BY <3>2
    <3>5. Save(t, m, "claimed") /\ cur[t] = d /\ pc[t] = "claim" /\ UNCHANGED outsideVars
      BY <1>12, <2>2 DEF Claim, At
    <3> HIDE DEF m
    <3>6. Apart(t) /\ Stores(t, m) /\ Locks(t) /\ Claims(t)
      BY <3>1, <3>3, <3>4, <3>5, SaveStep DEF Elsewhere, Waiting, Locked, UnderClaim
    <3> QED BY <1>3, <3>1, <3>6
  <2> QED BY <2>1, <2>2
<1>13. CASE BindIntent(t, d) \/ TellIntent(t, d)
  <2>1. {"minting", "minted"} \subseteq IntentStatus
    BY DEF IntentStatus
  <2> QED BY <1>2, <1>7, <1>13, <2>1, ContentsPut, Edits DEF BindIntent, TellIntent, At
<1>14. CASE AttestMint(t, d)
  <2>1. "receipt-minted" \in EventKinds
    BY DEF EventKinds
  <2> QED BY <1>2, <1>7, <1>14, <2>1, ContentsPut, Edits DEF AttestMint, At
<1>15. CASE DriveStart(t, d)
  <2>1. /\ pc[t] = "drive" /\ pc'[t] = "lookup" /\ cur[t] = d /\ t \in inFlight'
        /\ \A u \in Threads \ {t} : pc'[u] = pc[u] /\ (u \in inFlight' <=> u \in inFlight)
        /\ UNCHANGED <<cur, phase, todo, storeVars, outsideVars>>
        /\ \A u \in inFlight : cur[u] # d
    BY <1>2, <1>15 DEF DriveStart, At, InFlight, ThreadTypeOK
  <2>2. UNCHANGED <<broadcasts, mempool, blocks, tip, req, late, mem>>
    BY <2>1 DEF outsideVars, signerVars, chainVars, storeVars
  <2>3. Apart(t)
    BY <2>1, <2>2 DEF Apart, chainVars
  <2>4. Stores(t, mem)
    BY <1>4, <2>1 DEF Stores, Waiting
  <2>5. Locks(t)
    BY <2>1 DEF Locks, Locked
  <2>6. cur[t] \in Deposits /\ mem.mint[cur[t]].status # "none" /\ req[t] = "none"
    BY <2>1 DEF ClaimInv, WriteInv, RequestInv, UnderClaim
  <2>7. Claims(t)
    BY <2>1, <2>2, <2>6 DEF Claims
  <2> QED BY <1>3, <1>4, <2>3, <2>4, <2>5, <2>7
<1>16. CASE LookupMempool(t, d)
  <2>1. CASE d \in mempool
    <3>1. broadcasts[d] > 0
      BY <2>1 DEF ClaimInv, ChainInv
    <3> QED BY <1>2, <1>3, <1>16, <2>1, <3>1, ContentsPut, RecoverStep DEF LookupMempool, At
  <2>2. CASE d \notin mempool
    <3>1. /\ pc[t] = "lookup" /\ Step(t, "scan") /\ UNCHANGED <<storeVars, outsideVars>>
      BY <1>16, <2>2 DEF LookupMempool, At
    <3>2. Keeps(mem, mem') /\ Stores(t, mem)
      BY <1>4, <3>1 DEF Stores, Waiting, storeVars
    <3>3. Apart(t) /\ Locks(t) /\ Claims(t)
      BY <3>1, <3>2, MoveStep DEF Elsewhere, Locations, Locked, UnderClaim
    <3> QED BY <1>3, <1>4, <3>2, <3>3
  <2> QED BY <2>1, <2>2
<1>17. CASE ScanFound(t, d)
  <2>1. broadcasts[d] > 0
    BY <1>17 DEF ScanFound, Mined, ClaimInv, ChainInv
  <2> QED BY <1>2, <1>3, <1>17, <2>1, ContentsPut, RecoverStep DEF ScanFound, At
<1>18. CASE ScanMissing(t, d) \/ LookupFails(t, d)
  BY <1>8, <1>18 DEF ScanMissing, LookupFails, At
<1>19. CASE SendRequest(t, d)
  BY <1>3, <1>4, <1>19, SendStep
<1>20. CASE SendOk(t, d)
  <2>1. broadcasts[d] > 0
    BY <1>20 DEF SendOk, ClaimInv, RequestInv
  <2>2. /\ WithMinted(d) \in Contents /\ Keeps(mem, WithMinted(d))
        /\ Truthful(WithMinted(d), tip, broadcasts)
    BY <1>2, <2>1, ContentsPut, Edits
  <2>3. /\ pc[t] = "send" /\ Save(t, WithMinted(d), "minted")
        /\ req' = [req EXCEPT ![t] = "none"] /\ UNCHANGED <<late, broadcasts, chainVars>>
    BY <1>20 DEF SendOk, At
  <2> QED BY <1>3, <2>2, <2>3, AnswerStep
<1>21. CASE SendFails(t, d)
  <2>1. /\ pc[t] = "send" /\ cur[t] = d /\ Save(t, mem, "failed")
        /\ req' = [req EXCEPT ![t] = "none"] /\ UNCHANGED <<broadcasts, chainVars>>
        /\ UNCHANGED late \/ late' = [late EXCEPT ![d] = @ + 1]
    BY <1>21 DEF SendFails, At
  <2>2. disk.mint[d].status # "none"
    BY <2>1 DEF ClaimInv, ChainInv
  <2>3. \A e \in Deposits : late'[e] = late[e] \/ disk.mint[e].status # "none"
    BY <1>2, <2>1, <2>2 DEF OutsideTypeOK
  <2> QED BY <1>3, <1>4, <2>1, <2>3, AnswerStep
<1> QED BY <1>9, <1>10, <1>11, <1>12, <1>13, <1>14, <1>15, <1>16, <1>17, <1>18, <1>19, <1>20, <1>21
        DEF MintNext

LEMMA ThreadClaims ==
    ASSUME ClaimInv, NEW t \in Threads, ThreadNext(t)
    PROVE  ClaimInv' /\ Keeps(mem, mem') /\ Keeps(disk, disk')
<1>1. TypeOK'
  BY ThreadNextTypes DEF ClaimInv
<1>2. mem \in Contents /\ Keeps(mem, mem) /\ Truthful(mem, tip, broadcasts)
  BY KeepsOrder DEF ClaimInv, TypeOK, StoreTypeOK, StoreInv
<1>3. ASSUME Apart(t), Stores(t, mem), Locks(t), Claims(t)
      PROVE  ClaimInv' /\ Keeps(mem, mem') /\ Keeps(disk, disk')
  BY <1>1, <1>2, <1>3, ChainStep
<1>4. CASE ValidateUnreachable(t) \/ ClaimUnreachable(t)
  <2>1. /\ pc[t] \in {"validate", "claim"} /\ UNCHANGED <<storeVars, outsideVars>>
        /\ Return(t) \/ Throw({t})
    BY <1>4 DEF ValidateUnreachable, ClaimUnreachable, At
  <2>2. Stores(t, mem)
    BY <1>2, <2>1 DEF Stores, Waiting
  <2> QED BY <1>3, <2>1, <2>2, LeaveStep DEF Elsewhere
<1>5. CASE StartDrive(t) \/ Finish(t)
  <2>1. /\ pc[t] \in {"bound", "held", "failed", "attested", "told"}
        /\ Settle(t) /\ UNCHANGED outsideVars
        /\ Return(t) \/ (pc[t] = "bound" /\ Step(t, "drive"))
    BY <1>5 DEF StartDrive, Finish, At
  <2>2. Stores(t, mem) /\ Keeps(mem, mem')
    BY <1>2, <2>1 DEF Stores, Settle
  <2>3. Apart(t) /\ Locks(t) /\ Claims(t)
    BY <2>1, <2>2, LeaveStep, MoveStep DEF Elsewhere, Locations, Locked, UnderClaim
  <2> QED BY <1>3, <2>2, <2>3
<1>6. CASE \E d \in Deposits : MintNext(t, d)
  BY <1>6, MintClaims
<1> QED BY <1>4, <1>5, <1>6 DEF ThreadNext

-----------------------------------------------------------------------------
(* The sweeps and the expiry: only claimed deposits are driven.            *)
LEMMA SweepClaims ==
    ASSUME ClaimInv, TickNext \/ \E i \in Intents : PollExpire(i)
    PROVE  ClaimInv' /\ Keeps(mem, mem') /\ Keeps(disk, disk')
<1>1. TypeOK'
  BY SweepTypes DEF ClaimInv
<1>2. /\ mem \in Contents /\ Keeps(mem, mem) /\ Truthful(mem, tip, broadcasts)
      /\ StoreTypeOK /\ ThreadTypeOK /\ "tick" \in Threads /\ "poll" \in Threads
  BY KeepsOrder DEF ClaimInv, TypeOK, StoreTypeOK, StoreInv, Threads
<1>3. ASSUME pc["tick"] \in {"idle", "next"},
             pc'["tick"] \in {"idle", "next", "route", "drive"}, pc'["poll"] = pc["poll"],
             cur'["poll"] = cur["poll"],
             UNCHANGED <<storeVars, inFlight, signerVars, broadcasts, chainVars>>,
             phase' = "boot" => phase = "boot" /\ todo' \subseteq todo,
             pc'["tick"] = "drive" =>
               cur'["tick"] \in Deposits /\ mem.mint[cur'["tick"]].status # "none"
      PROVE  ClaimInv' /\ Keeps(mem, mem') /\ Keeps(disk, disk')
  <2>1. Apart("tick")
    BY <1>3 DEF Apart, Threads, signerVars
  <2>2. Stores("tick", mem)
    BY <1>2, <1>3 DEF Stores, Waiting
  <2>3. Locks("tick")
    BY <1>3 DEF Locks, Locked, ClaimInv, LockInv
  <2>4. req["tick"] = "none" /\ UNCHANGED <<mem, req, late>>
    BY <1>2, <1>3 DEF ClaimInv, RequestInv, signerVars, storeVars
  <2>5. Claims("tick")
    BY <1>3, <2>4 DEF Claims, UnderClaim, Locked
  <2> QED BY <1>1, <1>2, <2>1, <2>2, <2>3, <2>5, ChainStep
<1>4. CASE TickStart
  BY <1>2, <1>3, <1>4 DEF TickStart, At, ThreadTypeOK
<1>5. ASSUME NEW d \in Deposits, TickDeposit(d)
      PROVE  ClaimInv' /\ Keeps(mem, mem') /\ Keeps(disk, disk')
  <2>1. /\ pc["tick"] = "next" /\ pc'["tick"] \in {"next", "route"}
        /\ pc'["poll"] = pc["poll"] /\ cur'["poll"] = cur["poll"]
        /\ phase' = phase /\ todo' \subseteq todo
        /\ UNCHANGED <<storeVars, inFlight, outsideVars>>
    BY <1>2, <1>5 DEF TickDeposit, At, ThreadTypeOK
  <2> QED BY <1>3, <2>1 DEF outsideVars
<1>6. ASSUME NEW d \in Deposits, TickMint(d)
      PROVE  ClaimInv' /\ Keeps(mem, mem') /\ Keeps(disk, disk')
  <2>1. /\ pc["tick"] = "next" /\ pc'["tick"] \in {"next", "drive"}
        /\ pc'["poll"] = pc["poll"] /\ cur'["poll"] = cur["poll"]
        /\ phase' = phase /\ todo' \subseteq todo
        /\ UNCHANGED <<storeVars, inFlight, outsideVars>>
    BY <1>2, <1>6 DEF TickMint, At, ThreadTypeOK
  <2>2. pc'["tick"] = "drive" => cur'["tick"] = d /\ mem.mint[d].status # "none"
    BY <1>2, <1>6 DEF TickMint, At, ThreadTypeOK, ClaimInv, WriteInv
  <2> QED BY <1>3, <2>1, <2>2 DEF outsideVars
<1>7. CASE TickAdvance
  <2>1. /\ pc["tick"] = "next" /\ pc'["tick"] \in {"next", "idle"}
        /\ pc'["poll"] = pc["poll"] /\ UNCHANGED <<cur, storeVars, inFlight, outsideVars>>
        /\ phase' = "mints"
    BY <1>2, <1>7 DEF TickAdvance, At, ThreadTypeOK
  <2> QED BY <1>3, <2>1 DEF outsideVars
<1>8. ASSUME NEW i \in Intents, PollExpire(i)
      PROVE  ClaimInv' /\ Keeps(mem, mem') /\ Keeps(disk, disk')
  <2> DEFINE m == WithIntent(i, "expired")
  <2>1. m \in Contents /\ m.mint = mem.mint
    BY <1>2 DEF WithIntent, IntentStatus, Contents
  <2>2. Keeps(mem, m) /\ Truthful(m, tip, broadcasts)
    BY <1>2, <2>1 DEF Keeps, Truthful
  <2>3. /\ pc["poll"] = "idle" /\ pc'["poll"] \in {"idle", "held"} /\ pc'["tick"] = pc["tick"]
        /\ UNCHANGED <<cur, inFlight, phase, todo, outsideVars>>
        /\ (Put("poll", m) /\ pc'["poll"] = "held") \/ PutRejected(m)
    BY <1>2, <1>8 DEF PollExpire, At, Step, threadVars, ThreadTypeOK
  <2> HIDE DEF m
  <2>4. UNCHANGED <<broadcasts, mempool, blocks, tip, req, late>> /\ req["poll"] = "none"
    BY <1>2, <2>3 DEF outsideVars, signerVars, chainVars, ClaimInv, RequestInv
  <2>5. Apart("poll")
    BY <2>3, <2>4 DEF Apart, Threads, chainVars
  <2>6. Stores("poll", m)
    BY <2>2, <2>3 DEF Stores, Waiting
  <2>7. Locks("poll")
    BY <2>3 DEF Locks, Locked, ClaimInv, LockInv
  <2>8. Claims("poll")
    BY <2>3, <2>4 DEF Claims, UnderClaim, Locked
  <2> QED BY <1>1, <1>2, <2>1, <2>5, <2>6, <2>7, <2>8, ChainStep
<1> QED BY <1>4, <1>5, <1>6, <1>7, <1>8 DEF TickNext

-----------------------------------------------------------------------------
(* The signer and the chain: the store and the chains of calls stand still.*)
LEMMA WorldStep ==
    ASSUME ClaimInv, TypeOK', UNCHANGED <<storeVars, threadVars>>, tip <= tip',
           \A d \in Deposits : broadcasts[d] <= broadcasts'[d],
           ChainInv', RequestInv'
    PROVE  ClaimInv' /\ Keeps(mem, mem') /\ Keeps(disk, disk')
<1>1. /\ UNCHANGED <<mem, disk, saveChain, pc, cur, inFlight, phase, todo>>
      /\ Keeps(mem, mem') /\ Keeps(disk, disk')
  BY KeepsOrder DEF storeVars, threadVars
<1>2. StoreInv'
  <2>1. \A m \in Contents :
          Truthful(m, tip, broadcasts) => Truthful(m, tip', broadcasts')
    <3>1. /\ tip \in Nat /\ tip' \in Nat
          /\ broadcasts \in [Deposits -> Nat] /\ broadcasts' \in [Deposits -> Nat]
      BY DEF ClaimInv, TypeOK, OutsideTypeOK
    <3> QED BY <3>1, TruthGrows
  <2>2. /\ mem \in Contents /\ disk \in Contents
        /\ \A i \in DOMAIN saveChain : saveChain[i].state \in Contents
    <3>1. "poll" \in Threads /\ mem \in Contents /\ disk \in Contents /\ StoreTypeOK
      BY DEF ClaimInv, TypeOK, StoreTypeOK, Threads
    <3> QED BY <3>1, Queue
  <2> QED BY <1>1, <2>1, <2>2 DEF ClaimInv, StoreInv
<1>3. WriteInv' /\ LockInv'
  BY <1>1 DEF ClaimInv, WriteInv, LockInv
<1> QED BY <1>1, <1>2, <1>3 DEF ClaimInv

LEMMA SignerClaims ==
    ASSUME ClaimInv, TypeOK',
           \/ \E t \in Threads : SignerRefuses(t) \/ \E d \in Deposits : SignerBroadcasts(t, d)
           \/ \E d \in Deposits : SignerBroadcastsLate(d)
    PROVE  ClaimInv' /\ Keeps(mem, mem') /\ Keeps(disk, disk')
<1>1. ThreadTypeOK /\ OutsideTypeOK
  BY DEF ClaimInv, TypeOK
<1>2. ASSUME NEW t \in Threads, SignerRefuses(t)
      PROVE  ClaimInv' /\ Keeps(mem, mem') /\ Keeps(disk, disk')
  <2>1. /\ req[t] = "open" /\ req'[t] = "refused"
        /\ \A u \in Threads \ {t} : req'[u] = req[u]
        /\ UNCHANGED <<mem, disk, pc, cur, late, broadcasts, mempool, blocks, tip>>
        /\ UNCHANGED <<storeVars, threadVars>>
    BY <1>1, <1>2 DEF SignerRefuses, storeVars, threadVars, chainVars, OutsideTypeOK
  <2>2. RequestInv'
    BY <2>1 DEF ClaimInv, RequestInv
  <2>3. ChainInv'
    BY <2>1 DEF ClaimInv, ChainInv, Mined
  <2>4. tip <= tip' /\ \A d \in Deposits : broadcasts[d] <= broadcasts'[d]
    BY <1>1, <2>1 DEF OutsideTypeOK
  <2> QED BY <2>1, <2>2, <2>3, <2>4, WorldStep
<1>3. ASSUME NEW d \in Deposits,
             disk.mint[d].status # "none", UNCHANGED <<storeVars, threadVars, blocks, tip>>,
             broadcasts' = [broadcasts EXCEPT ![d] = @ + 1], mempool' = mempool \cup {d},
             \A e \in Deposits : late'[e] <= late[e],
             \A u \in Threads :
                req'[u] = req[u] \/ (req[u] = "open" /\ req'[u] = "sent" /\ cur[u] = d)
      PROVE  ClaimInv' /\ Keeps(mem, mem') /\ Keeps(disk, disk')
  <2>1. /\ \A e \in Deposits : broadcasts[e] \in Nat /\ late[e] \in Nat /\ late'[e] \in Nat
        /\ \A e \in Deposits : broadcasts'[e] = IF e = d THEN broadcasts[d] + 1 ELSE broadcasts[e]
    BY <1>1, <1>3 DEF OutsideTypeOK, TypeOK
  <2>2. \A e \in Deposits : broadcasts[e] <= broadcasts'[e]
    BY <2>1
  <2>3. UNCHANGED <<mem, disk, pc, cur, blocks, tip>>
    BY <1>3 DEF storeVars, threadVars
  <2>4. RequestInv'
    <3>1. \A u \in Threads : req[u] = "sent" \/ req[u] = "open" => cur[u] \in Deposits
      BY DEF ClaimInv, RequestInv, WriteInv, UnderClaim, Locked
    <3> QED BY <1>3, <2>1, <2>3, <3>1 DEF ClaimInv, RequestInv
  <2>5. ChainInv'
    <3>1. \A e \in Deposits :
            /\ late'[e] > 0 => disk'.mint[e].status # "none"
            /\ broadcasts'[e] > 0 =>
                 disk'.mint[e].status # "none" /\ (e \in mempool' \/ Mined(e)')
      BY <1>3, <2>1, <2>3 DEF ClaimInv, ChainInv, Mined
    <3>2. \A e \in mempool' : broadcasts'[e] > 0
      BY <1>1, <1>3, <2>1 DEF ClaimInv, ChainInv, OutsideTypeOK
    <3>3. \A b \in blocks' : broadcasts'[b[1]] > 0 /\ b[2] >= disk'.mint[b[1]].height
      BY <1>1, <2>1, <2>3 DEF ClaimInv, ChainInv, OutsideTypeOK
    <3> QED BY <2>3, <3>1, <3>2, <3>3 DEF ClaimInv, ChainInv
  <2>6. tip <= tip'
    BY <1>1, <2>3 DEF OutsideTypeOK
  <2> QED BY <1>3, <2>2, <2>4, <2>5, <2>6, WorldStep
<1>4. ASSUME NEW t \in Threads, NEW d \in Deposits, SignerBroadcasts(t, d)
      PROVE  ClaimInv' /\ Keeps(mem, mem') /\ Keeps(disk, disk')
  <2>1. disk.mint[d].status # "none"
    BY <1>4 DEF SignerBroadcasts, ClaimInv, RequestInv, ChainInv
  <2>2. \A u \in Threads :
          req'[u] = req[u] \/ (req[u] = "open" /\ req'[u] = "sent" /\ cur[u] = d)
    BY <1>1, <1>4 DEF SignerBroadcasts, OutsideTypeOK
  <2>3. \A e \in Deposits : late'[e] <= late[e]
    BY <1>1, <1>4 DEF SignerBroadcasts, OutsideTypeOK
  <2> QED BY <1>3, <1>4, <2>1, <2>2, <2>3 DEF SignerBroadcasts
<1>5. ASSUME NEW d \in Deposits, SignerBroadcastsLate(d)
      PROVE  ClaimInv' /\ Keeps(mem, mem') /\ Keeps(disk, disk')
  <2>1. disk.mint[d].status # "none"
    BY <1>5 DEF SignerBroadcastsLate, ClaimInv, ChainInv
  <2>2. \A e \in Deposits : late'[e] <= late[e]
    BY <1>1, <1>5 DEF SignerBroadcastsLate, OutsideTypeOK
  <2> QED BY <1>3, <1>5, <2>1, <2>2 DEF SignerBroadcastsLate
<1> QED BY <1>2, <1>4, <1>5

LEMMA MineClaims ==
    ASSUME ClaimInv, TypeOK', NEW S \in SUBSET mempool, MineBlock(S)
    PROVE  ClaimInv' /\ Keeps(mem, mem') /\ Keeps(disk, disk')
<1>1. OutsideTypeOK /\ StoreInv /\ ChainInv /\ RequestInv
  BY DEF ClaimInv, TypeOK
<1>2. /\ UNCHANGED <<mem, disk, pc, cur, req, late, broadcasts>>
      /\ UNCHANGED <<storeVars, threadVars>>
      /\ tip' = tip + 1 /\ mempool' = mempool \ S
      /\ blocks' = blocks \cup (S \X {tip + 1})
      /\ tip \in Nat /\ mempool \subseteq Deposits /\ blocks \subseteq Deposits \X Nat
  BY <1>1 DEF MineBlock, storeVars, threadVars, signerVars, OutsideTypeOK
<1>3. RequestInv'
  BY <1>1, <1>2 DEF RequestInv
<1>4. \A d \in Deposits :
        /\ mem.mint[d].height \in Nat /\ mem.mint[d].height <= tip
        /\ disk.mint[d].height \in Nat /\ disk.mint[d].height <= tip
  BY <1>1 DEF StoreInv, Truthful, ClaimInv, TypeOK, StoreTypeOK, Contents, MintRecord
<1>5. ASSUME NEW d \in Deposits, broadcasts[d] > 0
      PROVE  d \in mempool' \/ Mined(d)'
  <2>1. CASE d \in S
    <3>1. <<d, tip + 1>> \in blocks'
      BY <1>2, <2>1
    <3>2. tip + 1 + ScanMargin >= mem.mint[d].height
      BY <1>2, <1>4, ConstantsAssumption
    <3> QED BY <1>2, <3>1, <3>2 DEF Mined
  <2>2. CASE d \notin S
    BY <1>1, <1>2, <1>5, <2>2 DEF ChainInv, Mined
  <2> QED BY <2>1, <2>2
<1>6. \A b \in blocks' : broadcasts'[b[1]] > 0 /\ b[2] >= disk'.mint[b[1]].height
  <2>1. \A b \in S \X {tip + 1} : b[1] \in mempool /\ b[1] \in Deposits /\ b[2] = tip + 1
    BY <1>2
  <2>2. \A b \in S \X {tip + 1} : broadcasts[b[1]] > 0 /\ b[2] >= disk.mint[b[1]].height
    BY <1>1, <1>2, <1>4, <2>1 DEF ChainInv
  <2> QED BY <1>1, <1>2, <2>2 DEF ChainInv
<1>7. ChainInv'
  BY <1>1, <1>2, <1>5, <1>6 DEF ChainInv
<1>8. tip <= tip' /\ \A d \in Deposits : broadcasts[d] <= broadcasts'[d]
  BY <1>1, <1>2 DEF OutsideTypeOK
<1> QED BY <1>2, <1>3, <1>7, <1>8, WorldStep

(* Steps that move nothing but a breaker, and stuttering.                  *)
LEMMA QuietClaims ==
    ASSUME ClaimInv, TypeOK', UNCHANGED <<storeVars, threadVars, signerVars, broadcasts, chainVars>>
    PROVE  ClaimInv' /\ Keeps(mem, mem') /\ Keeps(disk, disk')
<1>1. UNCHANGED <<mem, disk, pc, cur, req, late, broadcasts, mempool, blocks, tip>>
  BY DEF storeVars, threadVars, signerVars, chainVars
<1>2. RequestInv' /\ ChainInv'
  BY <1>1 DEF ClaimInv, RequestInv, ChainInv, Mined
<1>3. tip <= tip' /\ \A d \in Deposits : broadcasts[d] <= broadcasts'[d]
  BY <1>1 DEF ClaimInv, TypeOK, OutsideTypeOK
<1> QED BY <1>2, <1>3, WorldStep

-----------------------------------------------------------------------------
(* Failures: a failed write throws the chains that wait for the store, a   *)
(* new process starts from the disk.                                       *)
LEMMA FaultClaims ==
    ASSUME ClaimInv, TypeOK', StoreFault
    PROVE  ClaimInv' /\ Keeps(mem, mem') /\ Keeps(disk, disk')
<1>1. /\ TypeOK /\ StoreTypeOK /\ ThreadTypeOK /\ StoreInv /\ WriteInv /\ LockInv /\ ChainInv
      /\ RequestInv /\ WriteFails /\ Throw(Awaiting)
      /\ UNCHANGED <<req, late, broadcasts, mempool, blocks, tip>>
  BY DEF ClaimInv, TypeOK, StoreFault, signerVars, chainVars
<1>2. StoreInv' /\ Keeps(mem, mem') /\ Keeps(disk, disk')
  <2>1. "poll" \in Threads /\ mem \in Contents /\ Keeps(mem, mem)
        /\ Truthful(mem, tip, broadcasts)
    BY <1>1, KeepsOrder DEF Threads, StoreTypeOK, StoreInv
  <2> QED BY <1>1, <2>1, StoreKeeps
<1>3. /\ UNCHANGED <<mem, disk>> /\ saveChain' = <<>>
      /\ \A t \in Threads :
            \/ pc'[t] = pc[t] /\ cur'[t] = cur[t] /\ (t \in inFlight' <=> t \in inFlight)
            \/ pc'[t] \in {"idle", "halted"} /\ t \notin inFlight'
      /\ inFlight' \subseteq inFlight
      /\ phase' = "boot" => phase = "boot" /\ todo' \subseteq todo
  BY <1>1 DEF WriteFails, Throw, ThreadTypeOK
<1>4. \A t \in Threads : pc[t] = "send" => pc'[t] = "send" /\ cur'[t] = cur[t]
  <2>1. \A t \in Awaiting : pc[t] \in Waiting
    BY <1>1 DEF Awaiting, WriteInv
  <2>2. \A t \in Threads : pc[t] = "send" => t \notin Awaiting
    BY <2>1 DEF Waiting
  <2> QED BY <1>1, <2>2 DEF Throw
<1>5. {"idle", "halted"} \cap UnderClaim = {} /\ Locked \subseteq UnderClaim /\ "send" \in Locked
  BY DEF UnderClaim, Locked
<1>6. WriteInv'
  <2>1. \A t \in Threads : pc'[t] \in UnderClaim =>
          cur'[t] \in Deposits /\ mem'.mint[cur'[t]].status # "none"
    BY <1>1, <1>3, <1>5 DEF WriteInv
  <2>2. phase' = "boot" => \A d \in todo' : mem'.mint[d].status # "none"
    BY <1>1, <1>3 DEF WriteInv
  <2>3. DOMAIN saveChain' = {}
    BY <1>3
  <2> QED BY <2>1, <2>2, <2>3 DEF WriteInv
<1>7. LockInv'
  <2>1. inFlight \subseteq Threads
    BY <1>1 DEF ThreadTypeOK
  <2> QED BY <1>1, <1>3, <1>5, <2>1 DEF LockInv
<1>8. ChainInv'
  BY <1>1, <1>3, <1>5 DEF ChainInv, Mined
<1>9. RequestInv'
  BY <1>1, <1>4 DEF RequestInv
<1> QED BY <1>2, <1>6, <1>7, <1>8, <1>9 DEF ClaimInv

LEMMA RebootClaims ==
    ASSUME ClaimInv, TypeOK', Reboot
    PROVE  ClaimInv' /\ Keeps(disk, disk')
<1>1. /\ TypeOK /\ StoreInv /\ WriteInv /\ ChainInv /\ RequestInv
      /\ mem' = disk /\ disk' = disk /\ saveChain' = <<>>
      /\ \A t \in Threads : pc'[t] \in {"idle", "next"} /\ req'[t] = "none"
      /\ inFlight' = {} /\ todo' = {d \in Deposits : disk.mint[d].status = "minting"}
      /\ UNCHANGED <<broadcasts, mempool, blocks, tip>>
  BY DEF ClaimInv, Reboot, Reload, chainVars
<1>2. Keeps(disk, disk)
  BY KeepsOrder
<1>3. StoreInv'
  <2>1. DOMAIN saveChain' = {}
    BY <1>1
  <2> QED BY <1>1, <1>2, <2>1 DEF StoreInv
<1>4. WriteInv' /\ LockInv' /\ RequestInv'
  <2>1. DOMAIN saveChain' = {}
    BY <1>1
  <2>2. {"idle", "next"} \cap (UnderClaim \cup Locked) = {}
    BY DEF UnderClaim, Locked
  <2> QED BY <1>1, <2>1, <2>2 DEF WriteInv, LockInv, RequestInv
<1>5. \A d \in Deposits : late'[d] > 0 => disk.mint[d].status # "none"
  <2>1. CASE UNCHANGED late
    BY <1>1, <2>1 DEF ChainInv
  <2>2. CASE \E t \in Threads : req[t] = "open" /\ late' = [late EXCEPT ![cur[t]] = @ + 1]
    <3>1. PICK t \in Threads : req[t] = "open" /\ late' = [late EXCEPT ![cur[t]] = @ + 1]
      BY <2>2
    <3>2. disk.mint[cur[t]].status # "none"
      BY <1>1, <3>1 DEF ChainInv, RequestInv
    <3>3. \A d \in Deposits : d = cur[t] \/ late'[d] = late[d]
      BY <1>1, <3>1 DEF TypeOK, OutsideTypeOK
    <3> QED BY <1>1, <3>2, <3>3 DEF ChainInv
  <2> QED BY <2>1, <2>2 DEF Reboot
<1>6. \A d \in Deposits : broadcasts[d] > 0 =>
        disk.mint[d].status # "none" /\ (d \in mempool \/ Mined(d)')
  <2>1. ASSUME NEW d \in Deposits, broadcasts[d] > 0
        PROVE  disk.mint[d].status # "none" /\ mem.mint[d].height = disk.mint[d].height
    BY <1>1, <2>1 DEF ChainInv, StoreInv, Keeps
  <2> QED BY <1>1, <2>1 DEF ChainInv, Mined
<1>7. ChainInv'
  BY <1>1, <1>5, <1>6 DEF ChainInv
<1> QED BY <1>1, <1>2, <1>3, <1>4, <1>7 DEF ClaimInv

-----------------------------------------------------------------------------
(* The invariant is inductive; what is durable stays durable.              *)
LEMMA StepClaims ==
    ASSUME ClaimInv, [Next]_vars
    PROVE  ClaimInv' /\ Keeps(disk, disk')
<1>1. TypeOK'
  BY StepTypes DEF ClaimInv
<1>2. CASE OutsideNext
  <2>1. CASE TogglePause
    BY <1>1, <2>1, QuietClaims DEF TogglePause
  <2>2. CASE Crash \/ Exit
    BY <1>1, <2>2, RebootClaims DEF Crash, Exit
  <2> QED BY <1>1, <1>2, <2>1, <2>2, SignerClaims, MineClaims, FaultClaims DEF OutsideNext
<1>3. CASE UNCHANGED vars
  BY <1>1, <1>3, QuietClaims DEF vars, outsideVars
<1> QED BY <1>2, <1>3, PollClaims, ThreadClaims, SweepClaims DEF Next

LEMMA InitClaims == Init => ClaimInv
<1> SUFFICES ASSUME Init PROVE ClaimInv
  OBVIOUS
<1>1. TypeOK
  BY InitTypes
<1>2. /\ mem = EmptyContents /\ disk = EmptyContents /\ saveChain = <<>> /\ tip = 0
      /\ DOMAIN saveChain = {}
  BY DEF Init, StoreInit
<1>3. \A d \in Deposits : EmptyContents.mint[d] = [status |-> "none", height |-> 0]
  BY DEF EmptyContents, Unclaimed
<1>4. StoreInv
  BY <1>2, <1>3, KeepsOrder DEF StoreInv, Truthful
<1>5. \A t \in Threads : pc[t] = "idle" /\ req[t] = "none"
  BY DEF Init
<1>6. WriteInv /\ LockInv /\ RequestInv
  BY <1>2, <1>5 DEF Init, WriteInv, LockInv, RequestInv, UnderClaim, Locked
<1>7. ChainInv
  BY <1>5 DEF Init, ChainInv
<1> QED BY <1>1, <1>4, <1>6, <1>7 DEF ClaimInv

(* Every version of the state file keeps the claims of the older ones, and *)
(* nothing is sent but under a durable claim, whatever the chains, the     *)
(* signer, crashes and failing writes do: the inductive invariant.         *)
THEOREM ClaimsHold == Spec => []ClaimInv
BY InitClaims, StepClaims, PTL DEF Spec

(* The claim runs BEFORE the signer call (store.ts:302-307), for every     *)
(* number of deposits, crashes, write faults and late broadcasts.          *)
THEOREM ClaimsOutliveCrashes == Spec => []ClaimOutlivesCrash
<1>1. ClaimInv => ClaimOutlivesCrash
  <2> SUFFICES ASSUME ClaimInv PROVE ClaimOutlivesCrash
    OBVIOUS
  <2>1. ASSUME NEW d \in Deposits
        PROVE  broadcasts[d] > 0 \/ (\E t \in Threads : req[t] # "none" /\ cur[t] = d) =>
                 disk.mint[d].status # "none"
    BY DEF ClaimInv, ChainInv, RequestInv
  <2>2. ASSUME NEW b \in blocks
        PROVE  b[2] + ScanMargin >= disk.mint[b[1]].height
    <3>1. b[1] \in Deposits /\ b[2] \in Nat /\ b[2] >= disk.mint[b[1]].height
      BY DEF ClaimInv, ChainInv, TypeOK, OutsideTypeOK
    <3>2. disk.mint[b[1]].height \in Nat /\ ScanMargin \in Nat
      BY <3>1, ConstantsAssumption DEF ClaimInv, TypeOK, StoreTypeOK, Contents, MintRecord
    <3> QED BY <3>1, <3>2
  <2> QED BY <2>1, <2>2 DEF ClaimOutlivesCrash
<1> QED BY <1>1, ClaimsHold, PTL

-----------------------------------------------------------------------------
(***************************************************************************)
(* What the state file says of the outside is so: a receipt stands on a    *)
(* recorded, confirmed and allowed deposit, and no intent is ahead of its  *)
(* mint records.  The chains decide on what memory holds and act on it one *)
(* or two awaits later; the argument is that memory only grows in the      *)
(* meantime (confidences rise, claims and mint records stay), so that what *)
(* was looked at is still so when it is put, and every queued version says *)
(* no more than the versions before it allow.                              *)
(***************************************************************************)

(* Version b records confidences at least as high as version a's.          *)
Surer(a, b) == \A d \in Deposits : a.dep[d].conf <= b.dep[d].conf

(* A step of chain t alone, which puts nothing but m.                      *)
Puts(t, m) ==
    /\ Tells(m) /\ Surer(mem, m)
    /\ \/ Put(t, m) \/ PutRejected(m) \/ Settle(t) \/ SettlePut(t, m)
       \/ UNCHANGED storeVars
    /\ \A u \in Threads \ {t} : pc'[u] = pc[u] /\ cur'[u] = cur[u]

(* The versions after a step are the versions before it and what was put.  *)
LEMMA VersionsKeepTelling ==
    ASSUME StoreTypeOK, VersionsTell, NEW t \in Threads, NEW m \in Contents, Tells(m),
           \/ Put(t, m) \/ PutRejected(m) \/ Settle(t) \/ SettlePut(t, m) \/ WriteFails
           \/ Reload \/ UNCHANGED storeVars
    PROVE  VersionsTell'
<1> DEFINE n == Len(saveChain)
<1>1. /\ n \in Nat /\ DOMAIN saveChain = 1..n
      /\ Tells(mem) /\ Tells(disk) /\ \A i \in 1..n : Tells(saveChain[i].state)
  BY Queue DEF VersionsTell
<1>2. Write(t, m).state = m
  BY DEF Write
<1>3. ASSUME Tells(mem'), Tells(disk'), \A i \in DOMAIN saveChain' : Tells(saveChain'[i].state)
      PROVE  VersionsTell'
  BY <1>3 DEF VersionsTell, Tells
<1>4. CASE Put(t, m)
  <2>1. /\ DOMAIN saveChain' = 1..(n + 1) /\ saveChain'[n + 1] = Write(t, m)
        /\ \A i \in 1..n : saveChain'[i] = saveChain[i]
        /\ mem' = m /\ disk' = disk
    BY <1>4, Queue DEF Put
  <2> HIDE DEF n
  <2>2. \A i \in 1..(n + 1) : i \in 1..n \/ i = n + 1
    BY <1>1
  <2> QED BY <1>1, <1>2, <1>3, <2>1, <2>2
<1>5. CASE Settle(t)
  <2>1. /\ DOMAIN saveChain' = 1..(n - 1) /\ n > 0
        /\ \A i \in 1..(n - 1) : saveChain'[i] = saveChain[i + 1]
        /\ mem' = mem /\ disk' = saveChain[1].state
    BY <1>5, Queue DEF Settle
  <2> HIDE DEF n
  <2>2. 1 \in 1..n /\ \A i \in 1..(n - 1) : i + 1 \in 1..n
    BY <1>1, <2>1
  <2> QED BY <1>1, <1>3, <2>1, <2>2
<1>6. CASE SettlePut(t, m)
  <2>1. /\ DOMAIN saveChain' = 1..n /\ n > 0
        /\ \A i \in 1..(n - 1) : saveChain'[i] = saveChain[i + 1]
        /\ saveChain'[n] = Write(t, m)
        /\ mem' = m /\ disk' = saveChain[1].state
    BY <1>6, Queue DEF SettlePut
  <2> HIDE DEF n
  <2>2. /\ 1 \in 1..n /\ \A i \in 1..(n - 1) : i + 1 \in 1..n
        /\ \A i \in 1..n : i \in 1..(n - 1) \/ i = n
    BY <1>1, <2>1
  <2> QED BY <1>1, <1>2, <1>3, <2>1, <2>2
<1>7. CASE PutRejected(m)
  BY <1>1, <1>3, <1>7 DEF PutRejected
<1>8. CASE WriteFails \/ Reload
  <2>1. /\ saveChain' = <<>> /\ mem' \in {mem, disk} /\ disk' = disk
        /\ DOMAIN saveChain' = {}
    BY <1>8 DEF WriteFails, Reload
  <2> QED BY <1>1, <1>3, <2>1
<1>9. CASE UNCHANGED storeVars
  BY <1>1, <1>3, <1>9 DEF storeVars
<1> QED BY <1>4, <1>5, <1>6, <1>7, <1>8, <1>9

LEMMA SurerOrder ==
    \A a \in Contents : Surer(a, a)
BY DEF Surer, Contents, DepositRecord, Unseen, Finalized

(* A step of one chain: the other chain's checks still hold.               *)
LEMMA TruthStep ==
    ASSUME ClaimInv, TruthInv, NEW t \in Threads, NEW m \in Contents,
           Puts(t, m), Keeps(mem, mem'), Checked(t)', TypeOK'
    PROVE  TruthInv'
<1>1. StoreTypeOK /\ ThreadTypeOK /\ VersionsTell
  BY DEF ClaimInv, TypeOK, TruthInv
<1>2. VersionsTell'
  BY <1>1, VersionsKeepTelling DEF Puts
<1>3. Surer(mem, mem')
  <2>1. mem' \in {mem, m}
    BY DEF Puts, Put, PutRejected, Settle, SettlePut, storeVars
  <2> QED BY <1>1, <2>1, SurerOrder DEF Puts, StoreTypeOK
<1>4. \A d \in Deposits : mem.dep[d].conf \in Nat /\ mem'.dep[d].conf \in Nat
  <2>1. mem \in Contents /\ mem' \in Contents
    BY <1>1 DEF TypeOK, StoreTypeOK
  <2>2. ASSUME NEW d \in Deposits
        PROVE  mem.dep[d] \in DepositRecord /\ mem'.dep[d] \in DepositRecord
    BY <2>1, <2>2 DEF Contents
  <2>3. \A r \in DepositRecord : r.conf \in Nat
    BY DEF DepositRecord, Unseen, Finalized
  <2> QED BY <2>2, <2>3
<1>5. ASSUME NEW u \in Threads, u # t
      PROVE  Checked(u)'
  <2>1. pc'[u] = pc[u] /\ cur'[u] = cur[u]
    BY <1>5 DEF Puts
  <2>2. Checked(u)
    BY DEF TruthInv
  <2>3. pc[u] \in {"validate", "claim"} => mem'.dep[cur[u]].conf >= Confirmed
    BY <1>3, <1>4, <2>2 DEF Checked, Surer, Confirmed
  <2>4. pc[u] = "minted" => mem'.mint[cur[u]].status = "minted"
    <3>1. pc[u] = "minted" => cur[u] \in Deposits
      BY DEF ClaimInv, WriteInv, UnderClaim
    <3> QED BY <2>2, <3>1 DEF Checked, Keeps
  <2> QED BY <2>1, <2>2, <2>3, <2>4 DEF Checked, Bound, Underpaid
<1> QED BY <1>2, <1>5 DEF TruthInv

-----------------------------------------------------------------------------
(* What is put over memory tells no more than is so when confidences rise, *)
(* claims and mint records stay, a new claim is of a deposit that may have *)
(* one, and a new status of an intent has its mint record.                 *)
LEMMA TellsOn ==
    ASSUME mem \in Contents, Tells(mem), NEW m \in Contents, Surer(mem, m),
           \A d \in Deposits :
              /\ mem.mint[d].status # "none" => m.mint[d].status # "none"
              /\ mem.mint[d].status = "minted" => m.mint[d].status = "minted"
              /\ m.mint[d].status # "none" =>
                   mem.mint[d].status # "none" \/ (m.dep[d].conf >= Confirmed /\ d \in Eligible),
           \A i \in Intents :
              \/ m.intent[i] = mem.intent[i]
              \/ m.intent[i] \notin {"minting", "minted"}
              \/ \E d \in Deposits :
                    IntentOf[d] = i /\ m.mint[d].status = "minted"
              \/ m.intent[i] = "minting" /\ \E d \in Deposits :
                    IntentOf[d] = i /\ m.mint[d].status # "none"
    PROVE  Tells(m)
<1>1. \A d \in Deposits : mem.dep[d].conf \in Nat /\ m.dep[d].conf \in Nat
  BY DEF Contents, DepositRecord, Unseen, Finalized
<1>2. ASSUME NEW d \in Deposits, m.mint[d].status # "none"
      PROVE  m.dep[d].conf >= Confirmed /\ d \in Eligible
  BY <1>1, <1>2 DEF Tells, Surer, Confirmed
<1>3. ASSUME NEW i \in Intents, m.intent[i] = "minted"
      PROVE  \E d \in Deposits : IntentOf[d] = i /\ m.mint[d].status = "minted"
  BY <1>3 DEF Tells
<1>4. ASSUME NEW i \in Intents, m.intent[i] = "minting"
      PROVE  \E d \in Deposits : IntentOf[d] = i /\ m.mint[d].status # "none"
  <2>1. CASE m.intent[i] = mem.intent[i]
    BY <1>4, <2>1 DEF Tells
  <2>2. CASE m.intent[i] # mem.intent[i]
    BY <1>4, <2>2
  <2> QED BY <2>1, <2>2
<1> QED BY <1>2, <1>3, <1>4 DEF Tells

(* The puts of the pipeline.                                               *)
LEMMA TellingPuts ==
    ASSUME ClaimInv, TruthInv, NEW d \in Deposits
    PROVE  /\ mem \in Contents /\ Tells(mem) /\ Surer(mem, mem)
           /\ \A c \in Unseen..Finalized : c > mem.dep[d].conf =>
                /\ Tells([mem EXCEPT !.dep[d].conf = c])
                /\ Surer(mem, [mem EXCEPT !.dep[d].conf = c])
           /\ \A why \in Held : Tells(WithHeld(d, why)) /\ Surer(mem, WithHeld(d, why))
           /\ \A k \in EventKinds : Tells(Attested(k, d)) /\ Surer(mem, Attested(k, d))
           /\ \A h \in Nat : ~Claimed(d) /\ mem.dep[d].conf >= Confirmed /\ d \in Eligible =>
                /\ Tells([mem EXCEPT !.mint[d] = [status |-> "minting", height |-> h]])
                /\ Surer(mem, [mem EXCEPT !.mint[d] = [status |-> "minting", height |-> h]])
           /\ Claimed(d) =>
                /\ Tells(WithMinted(d)) /\ Surer(mem, WithMinted(d))
                /\ WithMinted(d).mint[d].status = "minted"
           /\ \A i \in Intents, s \in IntentStatus :
                /\ s = "minting" =>
                     \E e \in Deposits : IntentOf[e] = i /\ mem.mint[e].status # "none"
                /\ s = "minted" =>
                     \E e \in Deposits : IntentOf[e] = i /\ mem.mint[e].status = "minted"
                => Tells(WithIntent(i, s)) /\ Surer(mem, WithIntent(i, s))
<1>1. mem \in Contents /\ Tells(mem) /\ Surer(mem, mem) /\ StoreTypeOK
  BY SurerOrder DEF ClaimInv, TypeOK, StoreTypeOK, TruthInv, VersionsTell
<1>2. \A e \in Deposits :
        /\ mem.dep[e] \in DepositRecord /\ mem.mint[e] \in MintRecord
        /\ mem.dep[e].conf \in Nat
  BY <1>1 DEF Contents, DepositRecord, Unseen, Finalized
<1>3. ASSUME NEW m \in Contents, m.mint = mem.mint, m.intent = mem.intent,
             \A e \in Deposits : m.dep[e].conf >= mem.dep[e].conf
      PROVE  Tells(m) /\ Surer(mem, m)
  <2>1. Surer(mem, m)
    BY <1>2, <1>3 DEF Surer, Contents, DepositRecord, Unseen, Finalized
  <2> QED BY <1>1, <1>3, <2>1, TellsOn
<1>4. ASSUME NEW c \in Unseen..Finalized, c > mem.dep[d].conf
      PROVE  /\ Tells([mem EXCEPT !.dep[d].conf = c])
             /\ Surer(mem, [mem EXCEPT !.dep[d].conf = c])
  <2> DEFINE m == [mem EXCEPT !.dep[d].conf = c]
  <2>1. m \in Contents
    BY <1>1, ContentsPut
  <2>2. m.mint = mem.mint /\ m.intent = mem.intent
    BY <1>1 DEF Contents
  <2>3. \A e \in Deposits : m.dep[e].conf = IF e = d THEN c ELSE mem.dep[e].conf
    BY <1>1, <1>2 DEF Contents, DepositRecord
  <2>4. \A e \in Deposits : m.dep[e].conf >= mem.dep[e].conf
    BY <1>2, <1>4, <2>3
  <2> QED BY <1>3, <2>1, <2>2, <2>4
<1>5. ASSUME NEW why \in Held
      PROVE  Tells(WithHeld(d, why)) /\ Surer(mem, WithHeld(d, why))
  <2>1. WithHeld(d, why) \in Contents
    BY <1>1, ContentsPut
  <2>2. WithHeld(d, why).mint = mem.mint /\ WithHeld(d, why).intent = mem.intent
    BY <1>1 DEF Contents, WithHeld
  <2>3. \A e \in Deposits : WithHeld(d, why).dep[e].conf = mem.dep[e].conf
    BY <1>1, <1>2 DEF Contents, DepositRecord, WithHeld
  <2> QED BY <1>2, <1>3, <2>1, <2>2, <2>3
<1>6. ASSUME NEW k \in EventKinds
      PROVE  Tells(Attested(k, d)) /\ Surer(mem, Attested(k, d))
  <2>1. Attested(k, d) \in Contents
    BY <1>1, ContentsPut
  <2>2. /\ Attested(k, d).mint = mem.mint /\ Attested(k, d).intent = mem.intent
        /\ Attested(k, d).dep = mem.dep
    BY <1>1 DEF Contents, Attested
  <2> QED BY <1>2, <1>3, <2>1, <2>2
<1>7. ASSUME NEW h \in Nat, ~Claimed(d), mem.dep[d].conf >= Confirmed, d \in Eligible
      PROVE  /\ Tells([mem EXCEPT !.mint[d] = [status |-> "minting", height |-> h]])
             /\ Surer(mem, [mem EXCEPT !.mint[d] = [status |-> "minting", height |-> h]])
  <2> DEFINE m == [mem EXCEPT !.mint[d] = [status |-> "minting", height |-> h]]
  <2>1. m \in Contents
    BY <1>1, ContentsPut
  <2>2. /\ m.dep = mem.dep /\ m.intent = mem.intent
        /\ \A e \in Deposits :
             m.mint[e] = IF e = d THEN [status |-> "minting", height |-> h] ELSE mem.mint[e]
    BY <1>1 DEF Contents
  <2> HIDE DEF m
  <2>3. Surer(mem, m)
    BY <1>1, <2>2 DEF Surer
  <2>4. mem.mint[d].status = "none"
    BY <1>7 DEF Claimed
  <2>5. Tells(m)
    BY <1>1, <1>7, <2>1, <2>2, <2>3, <2>4, TellsOn
  <2> QED BY <2>3, <2>5 DEF m
<1>8. ASSUME Claimed(d)
      PROVE  /\ Tells(WithMinted(d)) /\ Surer(mem, WithMinted(d))
             /\ WithMinted(d).mint[d].status = "minted"
  <2> DEFINE m == WithMinted(d)
  <2>1. m \in Contents
    BY <1>1, ContentsPut
  <2>2. m.dep = mem.dep /\ m.intent = mem.intent
    BY <1>1 DEF Contents, WithMinted
  <2>3. \A e \in Deposits :
          m.mint[e].status = IF e = d THEN "minted" ELSE mem.mint[e].status
    BY <1>1, <1>2 DEF Contents, MintRecord, WithMinted
  <2> HIDE DEF m
  <2>4. Surer(mem, m)
    BY <1>1, <2>2 DEF Surer
  <2>5. Tells(m)
    BY <1>1, <1>8, <2>1, <2>2, <2>3, <2>4, TellsOn DEF Claimed
  <2> QED BY <2>3, <2>4, <2>5 DEF m
<1>9. ASSUME NEW i \in Intents, NEW s \in IntentStatus,
             s = "minting" =>
               \E e \in Deposits : IntentOf[e] = i /\ mem.mint[e].status # "none",
             s = "minted" =>
               \E e \in Deposits : IntentOf[e] = i /\ mem.mint[e].status = "minted"
      PROVE  Tells(WithIntent(i, s)) /\ Surer(mem, WithIntent(i, s))
  <2> DEFINE m == WithIntent(i, s)
  <2>1. m \in Contents
    BY <1>1, ContentsPut
  <2>2. /\ m.dep = mem.dep /\ m.mint = mem.mint
        /\ \A j \in Intents : m.intent[j] = IF j = i THEN s ELSE mem.intent[j]
    BY <1>1 DEF Contents, WithIntent
  <2> HIDE DEF m
  <2>3. Surer(mem, m)
    BY <1>1, <2>2 DEF Surer
  <2>4. Tells(m)
    BY <1>1, <1>9, <2>1, <2>2, <2>3, TellsOn
  <2> QED BY <2>3, <2>4 DEF m
<1> QED BY <1>1, <1>4, <1>5, <1>6, <1>7, <1>8, <1>9

-----------------------------------------------------------------------------
(* Steps to a location where nothing is remembered.                        *)
LEMMA FreeStep ==
    ASSUME ClaimInv, TruthInv, TypeOK', Keeps(mem, mem'), NEW t \in Threads,
           NEW m \in Contents, Tells(m), Surer(mem, m),
           \/ Put(t, m) \/ PutRejected(m) \/ Settle(t) \/ SettlePut(t, m)
           \/ UNCHANGED storeVars,
           \/ Return(t) \/ Throw({t})
           \/ \E l \in Locations \ {"validate", "claim", "minted"} : Step(t, l)
    PROVE  TruthInv'
<1>1. ThreadTypeOK
  BY DEF ClaimInv, TypeOK
<1>2. /\ pc'[t] \notin {"validate", "claim", "minted"}
      /\ \A u \in Threads \ {t} : pc'[u] = pc[u] /\ cur'[u] = cur[u]
  BY <1>1 DEF Return, Throw, Step, ThreadTypeOK
<1>3. Puts(t, m)
  BY <1>2 DEF Puts
<1>4. Checked(t)'
  BY <1>2 DEF Checked
<1> QED BY <1>3, <1>4, TruthStep

LEMMA PollTruth ==
    ASSUME ClaimInv, TruthInv, NEW d \in Deposits, PollNext(d)
    PROVE  TruthInv'
<1>1. TypeOK' /\ Keeps(mem, mem') /\ StoreTypeOK /\ ThreadTypeOK /\ "poll" \in Threads
  BY PollClaims, PollTypes DEF ClaimInv, TypeOK, Threads
<1>2. ASSUME NEW m \in Contents, Tells(m), Surer(mem, m), SettlePut("poll", m),
             NEW l \in {"revived", "transited", "certified"}, Step("poll", l)
      PROVE  TruthInv'
  BY <1>1, <1>2, FreeStep DEF Locations
<1>3. CASE \E c \in Mempool..MaxConfidence : PollDetect(d, c)
  <2>1. PICK c \in Mempool..MaxConfidence : PollDetect(d, c)
    BY <1>3
  <2> DEFINE m == [mem EXCEPT !.dep[d].conf = c]
  <2>2. c \in Unseen..Finalized /\ c > mem.dep[d].conf
    BY <2>1, ConstantsAssumption DEF PollDetect, Unseen, Mempool, Finalized
  <2>3. m \in Contents /\ Tells(m) /\ Surer(mem, m)
    BY <1>1, <2>2, ContentsPut, TellingPuts
  <2>4. /\ Put("poll", m) \/ PutRejected(m)
        /\ pc'["poll"] \in {"idle", "detected"} /\ pc'["tick"] = pc["tick"]
        /\ cur'["tick"] = cur["tick"]
    BY <1>1, <2>1 DEF PollDetect, At, threadVars, ThreadTypeOK, Threads
  <2> HIDE DEF m
  <2>5. Puts("poll", m) /\ Checked("poll")'
    BY <2>3, <2>4 DEF Puts, Checked, Threads
  <2> QED BY <1>1, <2>3, <2>5, TruthStep
<1>4. CASE PollRevive(d)
  <2>1. /\ IntentOf[d] \in Intents /\ "awaiting-deposit" \in IntentStatus
        /\ SettlePut("poll", WithIntent(IntentOf[d], "awaiting-deposit"))
        /\ Step("poll", "revived")
    BY <1>4, ConstantsAssumption DEF PollRevive, Bound, IntentStatus
  <2> QED BY <1>1, <1>2, <2>1, ContentsPut, TellingPuts
<1>5. CASE PollTransit(d)
  <2>1. /\ IntentOf[d] \in Intents /\ Transition(d) \in {"deposit-seen", "confirmed"}
        /\ SettlePut("poll", WithIntent(IntentOf[d], Transition(d)))
        /\ \E l \in {"transited", "certified"} : Step("poll", l)
    BY <1>5, ConstantsAssumption DEF PollTransit, Bound, Transition
  <2>2. Transition(d) \in IntentStatus
    BY <2>1 DEF IntentStatus
  <2>3. /\ WithIntent(IntentOf[d], Transition(d)) \in Contents
        /\ Tells(WithIntent(IntentOf[d], Transition(d)))
        /\ Surer(mem, WithIntent(IntentOf[d], Transition(d)))
    BY <1>1, <2>1, <2>2, ContentsPut, TellingPuts
  <2> QED BY <1>2, <2>1, <2>3
<1>6. CASE PollCertify(d)
  <2>1. /\ "deposit-confirmed" \in EventKinds
        /\ SettlePut("poll", Attested("deposit-confirmed", d)) /\ Step("poll", "certified")
    BY <1>6 DEF PollCertify, EventKinds
  <2> QED BY <1>1, <1>2, <2>1, ContentsPut, TellingPuts
<1>7. CASE PollRoute(d)
  <2>1. Settle("poll") /\ (Return("poll") \/ Step("poll", "route"))
    BY <1>7 DEF PollRoute
  <2>2. "route" \in Locations
    BY DEF Locations
  <2> QED BY <1>1, <2>1, <2>2, TellingPuts, FreeStep
<1> QED BY <1>3, <1>4, <1>5, <1>6, <1>7 DEF PollNext

LEMMA MintTruth ==
    ASSUME ClaimInv, TruthInv, NEW t \in Threads, NEW d \in Deposits, MintNext(t, d)
    PROVE  TruthInv'
<1>1. /\ TypeOK' /\ Keeps(mem, mem') /\ StoreTypeOK /\ ThreadTypeOK /\ OutsideTypeOK
      /\ mem \in Contents /\ Tells(mem) /\ Surer(mem, mem) /\ Checked(t)
  BY MintClaims, MintTypes, TellingPuts DEF ClaimInv, TypeOK, TruthInv
<1>2. \A l : Step(t, l) => /\ pc'[t] = l /\ cur' = cur
                           /\ \A u \in Threads \ {t} : pc'[u] = pc[u]
  BY <1>1 DEF Step, ThreadTypeOK
<1>3. {"held", "claimed", "bound", "lookup", "scan", "attempt", "send", "failed", "told",
       "attested"} \subseteq Locations \ {"validate", "claim", "minted"}
  BY DEF Locations
<1>4. ASSUME NEW m \in Contents, Tells(m), Surer(mem, m),
             \/ \E l \in Locations \ {"validate", "claim", "minted"} : Save(t, m, l)
             \/ SettlePut(t, m) /\ \E l \in {"bound", "told", "attested"} : Step(t, l)
             \/ Settle(t) /\ Step(t, "send")
             \/ UNCHANGED storeVars /\ (Return(t) \/ Step(t, "scan"))
      PROVE  TruthInv'
  BY <1>1, <1>3, <1>4, FreeStep DEF Save
<1>5. ASSUME UNCHANGED storeVars, cur[t] = d, Mintable(d), ~Underpaid(d),
             \/ Step(t, "validate")
             \/ Step(t, "claim") /\ IntentOf[d] \notin BadRecipients
      PROVE  TruthInv'
  <2>1. Puts(t, mem)
    BY <1>1, <1>2, <1>5 DEF Puts
  <2>2. mem' = mem /\ cur'[t] = d /\ pc'[t] \in {"validate", "claim"}
    BY <1>2, <1>5 DEF storeVars
  <2>3. pc'[t] = "claim" => IntentOf[d] \notin BadRecipients
    BY <1>2, <1>5
  <2>4. Checked(t)'
    BY <1>5, <2>2, <2>3 DEF Checked, Mintable, Bound, Underpaid
  <2> QED BY <1>1, <2>1, <2>4, TruthStep
<1>6. ASSUME cur[t] = d, Claimed(d),
             \/ PutRejected(WithMinted(d)) /\ Throw({t})
             \/ Put(t, WithMinted(d)) /\ pc' = [pc EXCEPT ![t] = "minted"] /\ UNCHANGED cur
      PROVE  TruthInv'
  <2>1. /\ WithMinted(d) \in Contents /\ Tells(WithMinted(d)) /\ Surer(mem, WithMinted(d))
        /\ WithMinted(d).mint[d].status = "minted"
    BY <1>1, <1>6, ContentsPut, TellingPuts
  <2>2. CASE PutRejected(WithMinted(d)) /\ Throw({t})
    BY <1>1, <2>1, <2>2, FreeStep
  <2>3. CASE Put(t, WithMinted(d)) /\ pc' = [pc EXCEPT ![t] = "minted"] /\ UNCHANGED cur
    <3>1. /\ pc'[t] = "minted" /\ cur'[t] = d /\ mem' = WithMinted(d)
          /\ \A u \in Threads \ {t} : pc'[u] = pc[u]
      BY <1>1, <1>6, <2>3 DEF Put, ThreadTypeOK
    <3>2. Puts(t, WithMinted(d))
      BY <2>1, <2>3, <3>1 DEF Puts
    <3>3. Checked(t)'
      BY <2>1, <3>1 DEF Checked
    <3> QED BY <1>1, <2>1, <3>2, <3>3, TruthStep
  <2> QED BY <1>6, <2>2, <2>3
<1>7. pc[t] \in UnderClaim => Claimed(cur[t])
  BY DEF ClaimInv, WriteInv, Claimed
<1>8. CASE RouteNothing(t, d) \/ DriveNothing(t, d) \/ LookupFails(t, d) \/ ScanMissing(t, d)
           \/ SendRequest(t, d) \/ SendFails(t, d)
  BY <1>1, <1>3, <1>4, <1>8 DEF RouteNothing, DriveNothing, LookupFails, ScanMissing, SendRequest,
                                 SendFails
<1>9. CASE RouteUnderpaid(t, d) \/ ValidateBad(t, d)
  <2>1. {"underpay", "bad-recipient"} \subseteq Held
    BY DEF Held
  <2>2. \A why \in Held : WithHeld(d, why) \in Contents /\ Tells(WithHeld(d, why))
                           /\ Surer(mem, WithHeld(d, why))
    BY <1>1, ContentsPut, TellingPuts
  <2> QED BY <1>1, <1>3, <1>4, <1>9, <2>1, <2>2 DEF RouteUnderpaid, ValidateBad
<1>10. CASE RouteValidate(t, d)
  BY <1>5, <1>10 DEF RouteValidate
<1>11. CASE ValidateOk(t, d)
  <2>1. pc[t] = "validate" /\ cur[t] = d /\ IntentOf[d] \notin BadRecipients
        /\ Step(t, "claim") /\ UNCHANGED storeVars
    BY <1>11 DEF ValidateOk, At
  <2>2. mem' = mem /\ cur'[t] = d /\ pc'[t] = "claim"
    BY <1>2, <2>1 DEF storeVars
  <2>3. Puts(t, mem)
    BY <1>1, <1>2, <2>1 DEF Puts
  <2>4. Checked(t)'
    BY <1>1, <2>1, <2>2 DEF Checked, Bound, Underpaid
  <2> QED BY <1>1, <2>3, <2>4, TruthStep
<1>12. CASE Claim(t, d)
  <2> DEFINE m == [mem EXCEPT !.mint[d] = [status |-> "minting", height |-> tip]]
  <2>1. CASE Claimed(d)
    BY <1>1, <1>4, <1>12, <2>1 DEF Claim
  <2>2. CASE ~Claimed(d)
    <3>1. mem.dep[d].conf >= Confirmed /\ d \in Eligible
      <4>1. pc[t] = "claim" /\ cur[t] = d
        BY <1>12 DEF Claim, At
      <4>2. mem.dep[d].conf >= Confirmed /\ Bound(d) /\ ~Underpaid(d)
            /\ IntentOf[d] \notin BadRecipients
        BY <1>1, <4>1 DEF Checked
      <4>3. Sats[d] >= MinDepositSats
        BY <4>2, ConstantsAssumption DEF Underpaid
      <4> QED BY <4>2, <4>3 DEF Eligible
    <3>2. tip \in Nat
      BY <1>1 DEF OutsideTypeOK
    <3>3. m \in Contents /\ Tells(m) /\ Surer(mem, m)
      BY <1>1, <2>2, <3>1, <3>2, ContentsPut, TellingPuts
    <3>4. Save(t, m, "claimed")
      BY <1>12, <2>2 DEF Claim
    <3> HIDE DEF m
    <3> QED BY <1>3, <1>4, <3>3, <3>4
  <2> QED BY <2>1, <2>2
<1>13. CASE BindIntent(t, d) \/ TellIntent(t, d)
  <2>1. cur[t] = d /\ pc[t] \in {"claimed", "minted"}
    BY <1>13 DEF BindIntent, TellIntent, At
  <2>2. Claimed(d)
    BY <1>7, <2>1 DEF UnderClaim
  <2>3. IntentOf[d] \in Intents
    BY <1>1, <2>2, ConstantsAssumption DEF Claimed, Tells, Eligible, Bound
  <2>4. {"minting", "minted"} \subseteq IntentStatus
    BY DEF IntentStatus
  <2>5. ASSUME NEW s \in {"minting", "minted"}, s = "minted" => mem.mint[d].status = "minted"
        PROVE  /\ WithIntent(IntentOf[d], s) \in Contents /\ Tells(WithIntent(IntentOf[d], s))
               /\ Surer(mem, WithIntent(IntentOf[d], s))
    BY <1>1, <2>2, <2>3, <2>4, <2>5, ContentsPut, TellingPuts DEF Claimed
  <2>6. pc[t] = "minted" => mem.mint[d].status = "minted"
    BY <1>1, <2>1 DEF Checked
  <2> QED BY <1>4, <1>13, <2>5, <2>6 DEF BindIntent, TellIntent, At
<1>14. CASE AttestMint(t, d)
  <2>1. "receipt-minted" \in EventKinds
    BY DEF EventKinds
  <2>2. /\ Attested("receipt-minted", d) \in Contents /\ Tells(Attested("receipt-minted", d))
        /\ Surer(mem, Attested("receipt-minted", d))
    BY <1>1, <2>1, ContentsPut, TellingPuts
  <2> QED BY <1>4, <1>14, <2>2 DEF AttestMint
<1>15. CASE DriveStart(t, d)
  <2>1. /\ pc'[t] = "lookup" /\ UNCHANGED <<cur, storeVars>>
        /\ \A u \in Threads \ {t} : pc'[u] = pc[u]
    BY <1>1, <1>15 DEF DriveStart, ThreadTypeOK
  <2>2. Puts(t, mem) /\ Checked(t)'
    BY <1>1, <2>1 DEF Puts, Checked
  <2> QED BY <1>1, <2>2, TruthStep
<1>16. CASE LookupMempool(t, d)
  <2>1. pc[t] = "lookup" /\ cur[t] = d
    BY <1>16 DEF LookupMempool, At
  <2>2. CASE d \in mempool
    BY <1>6, <1>7, <1>16, <2>1, <2>2 DEF LookupMempool, Recover, UnderClaim, Locked
  <2>3. CASE d \notin mempool
    BY <1>1, <1>4, <1>16, <2>3 DEF LookupMempool
  <2> QED BY <2>2, <2>3
<1>17. CASE ScanFound(t, d)
  BY <1>6, <1>7, <1>17 DEF ScanFound, At, Recover, UnderClaim, Locked
<1>18. CASE SendOk(t, d)
  <2>1. pc[t] = "send" /\ cur[t] = d /\ Save(t, WithMinted(d), "minted")
    BY <1>18 DEF SendOk, At
  <2> QED BY <1>6, <1>7, <2>1 DEF Save, Step, UnderClaim, Locked
<1> QED BY <1>8, <1>9, <1>10, <1>11, <1>12, <1>13, <1>14, <1>15, <1>16, <1>17, <1>18 DEF MintNext

LEMMA ThreadTruth ==
    ASSUME ClaimInv, TruthInv, NEW t \in Threads, ThreadNext(t)
    PROVE  TruthInv'
<1>1. /\ TypeOK' /\ Keeps(mem, mem') /\ mem \in Contents /\ Tells(mem) /\ Surer(mem, mem)
  BY ThreadClaims, ThreadNextTypes, SurerOrder
  DEF ClaimInv, TypeOK, StoreTypeOK, TruthInv, VersionsTell
<1>2. CASE ValidateUnreachable(t) \/ ClaimUnreachable(t) \/ StartDrive(t) \/ Finish(t)
  <2>1. /\ UNCHANGED storeVars \/ Settle(t)
        /\ Return(t) \/ Throw({t}) \/ Step(t, "drive")
    BY <1>2 DEF ValidateUnreachable, ClaimUnreachable, StartDrive, Finish
  <2>2. "drive" \in Locations
    BY DEF Locations
  <2> QED BY <1>1, <2>1, <2>2, FreeStep
<1> QED BY <1>2, MintTruth DEF ThreadNext

LEMMA SweepTruth ==
    ASSUME ClaimInv, TruthInv, TickNext \/ \E i \in Intents : PollExpire(i)
    PROVE  TruthInv'
<1>1. /\ TypeOK' /\ Keeps(mem, mem') /\ mem \in Contents /\ Tells(mem) /\ Surer(mem, mem)
      /\ ThreadTypeOK /\ StoreTypeOK /\ Threads = {"poll", "tick"}
  BY SweepClaims, SweepTypes, SurerOrder
  DEF ClaimInv, TypeOK, StoreTypeOK, TruthInv, VersionsTell, Threads
<1>2. CASE TickNext
  <2> DEFINE Tidy == /\ pc'["tick"] \in {"idle", "next", "route", "drive"}
                     /\ pc'["poll"] = pc["poll"] /\ cur'["poll"] = cur["poll"]
                     /\ UNCHANGED storeVars
  <2>1. ASSUME TickStart \/ TickAdvance
        PROVE  Tidy
    BY <1>1, <2>1 DEF TickStart, TickAdvance, At, ThreadTypeOK
  <2>2. ASSUME NEW d \in Deposits, TickDeposit(d) \/ TickMint(d)
        PROVE  Tidy
    BY <1>1, <2>2 DEF TickDeposit, TickMint, At, ThreadTypeOK
  <2>3. Tidy
    BY <1>2, <2>1, <2>2 DEF TickNext
  <2>4. Puts("tick", mem) /\ Checked("tick")'
    BY <1>1, <2>3 DEF Puts, Checked
  <2> QED BY <1>1, <2>4, TruthStep
<1>3. ASSUME NEW i \in Intents, PollExpire(i)
      PROVE  TruthInv'
  <2>1. "expired" \in IntentStatus
    BY DEF IntentStatus
  <2>2. /\ WithIntent(i, "expired") \in Contents /\ Tells(WithIntent(i, "expired"))
        /\ Surer(mem, WithIntent(i, "expired"))
    <3>1. WithIntent(i, "expired") \in Contents
      BY <1>1, <2>1 DEF WithIntent, Contents
    <3>2. /\ WithIntent(i, "expired").dep = mem.dep /\ WithIntent(i, "expired").mint = mem.mint
          /\ \A j \in Intents :
               WithIntent(i, "expired").intent[j] = IF j = i THEN "expired" ELSE mem.intent[j]
      BY <1>1 DEF Contents, WithIntent
    <3>3. Surer(mem, WithIntent(i, "expired"))
      BY <1>1, <3>2 DEF Surer
    <3> QED BY <1>1, <3>1, <3>2, <3>3, TellsOn
  <2>3. /\ Put("poll", WithIntent(i, "expired")) \/ PutRejected(WithIntent(i, "expired"))
        /\ pc'["poll"] \in {"idle", "held"} /\ pc'["tick"] = pc["tick"] /\ UNCHANGED cur
    BY <1>1, <1>3 DEF PollExpire, At, Step, threadVars, ThreadTypeOK
  <2>4. Puts("poll", WithIntent(i, "expired")) /\ Checked("poll")'
    BY <1>1, <2>2, <2>3 DEF Puts, Checked
  <2> QED BY <1>1, <2>2, <2>4, TruthStep
<1> QED BY <1>2, <1>3

(* The signer, the chain and the operator touch no version; a failed write *)
(* and a restart drop versions, and the chains that waited for them.       *)
LEMMA OutsideTruth ==
    ASSUME ClaimInv, TruthInv, OutsideNext \/ UNCHANGED vars
    PROVE  TruthInv'
<1>1. /\ StoreTypeOK /\ ThreadTypeOK /\ VersionsTell /\ "poll" \in Threads
      /\ mem \in Contents /\ Tells(mem)
  BY DEF ClaimInv, TypeOK, StoreTypeOK, TruthInv, VersionsTell, Threads
<1>2. ASSUME UNCHANGED storeVars \/ WriteFails,
             \A t \in Threads :
                \/ pc'[t] = pc[t] /\ cur'[t] = cur[t]
                \/ pc'[t] \in {"idle", "halted"}
      PROVE  TruthInv'
  <2>1. VersionsTell'
    BY <1>1, <1>2, VersionsKeepTelling
  <2>2. mem' = mem
    BY <1>2 DEF storeVars, WriteFails
  <2>3. \A t \in Threads : Checked(t)'
    BY <1>2, <2>2 DEF TruthInv, Checked, Bound, Underpaid
  <2> QED BY <2>1, <2>3 DEF TruthInv
<1>3. CASE UNCHANGED <<storeVars, threadVars>>
  BY <1>2, <1>3 DEF threadVars
<1>4. CASE StoreFault
  BY <1>1, <1>2, <1>4 DEF StoreFault, Throw
<1>5. CASE Crash \/ Exit
  <2>1. Reload /\ \A t \in Threads : pc'[t] \in {"idle", "next"}
    BY <1>5 DEF Crash, Exit, Reboot
  <2>2. VersionsTell'
    BY <1>1, <2>1, VersionsKeepTelling
  <2>3. \A t \in Threads : Checked(t)'
    BY <2>1 DEF Checked
  <2> QED BY <2>2, <2>3 DEF TruthInv
<1>6. ASSUME OutsideNext
      PROVE  UNCHANGED <<storeVars, threadVars>> \/ StoreFault \/ Crash \/ Exit
  BY <1>6 DEF OutsideNext, SignerRefuses, SignerBroadcasts, SignerBroadcastsLate, MineBlock,
              TogglePause
<1> QED BY <1>3, <1>4, <1>5, <1>6 DEF vars

-----------------------------------------------------------------------------
LEMMA StepTruth ==
    ASSUME ClaimInv, TruthInv, [Next]_vars
    PROVE  TruthInv'
BY PollTruth, ThreadTruth, SweepTruth, OutsideTruth DEF Next

LEMMA InitTruth == Init => TruthInv
<1> SUFFICES ASSUME Init PROVE TruthInv
  OBVIOUS
<1>1. /\ mem = EmptyContents /\ disk = EmptyContents /\ DOMAIN saveChain = {}
      /\ \A t \in Threads : pc[t] = "idle"
  BY DEF Init, StoreInit
<1>2. Tells(EmptyContents)
  BY DEF Tells, EmptyContents, Unclaimed
<1> QED BY <1>1, <1>2 DEF TruthInv, VersionsTell, Checked

(* The invariant of the mint pipeline is inductive (gateway.ts:470-610):   *)
(* claims outlive what is queued behind them, and no version of the file   *)
(* tells more than is so.                                                  *)
THEOREM MintInvHolds == Spec => []MintInv
<1>1. Init => MintInv
  BY InitClaims, InitTruth DEF MintInv
<1>2. MintInv /\ [Next]_vars => MintInv'
  BY StepClaims, StepTruth DEF MintInv
<1> QED BY <1>1, <1>2, PTL DEF Spec

(* A receipt exists only for a deposit the file records as confirmed, bound*)
(* to an intent with a valid recipient, at or above the minimum            *)
(* (gateway.ts:470-509), though both chains decide on memory that is ahead *)
(* of the file: for every number of deposits, crashes, write faults and    *)
(* late broadcasts.                                                        *)
THEOREM ReceiptsAreBacked == Spec => []ReceiptBacked
<1>1. MintInv => ReceiptBacked
  BY DEF MintInv, ClaimInv, ChainInv, TruthInv, VersionsTell, Tells, ReceiptBacked
<1> QED BY <1>1, MintInvHolds, PTL

(* A written intent never tells more than the written ledger               *)
(* (gateway.ts:537-543, 597-610): 'minted' has a mint record, 'minting' a  *)
(* claim, in whichever version a crash leaves.                             *)
THEOREM IntentsAreBehind == Spec => []IntentNeverAhead
<1>1. MintInv => IntentNeverAhead
  BY DEF MintInv, TruthInv, VersionsTell, Tells, IntentNeverAhead
<1> QED BY <1>1, MintInvHolds, PTL

-----------------------------------------------------------------------------
(***************************************************************************)
(* One outpoint, one receipt: when no request outlives the client that sent*)
(* it (LateBroadcast = FALSE), the pipeline implements the ledger.  The    *)
(* argument is the order lookup - scan - attempt - request, which one chain*)
(* at a time takes per outpoint: what a chain did not find on chain, nobody*)
(* sends before the chain's own request is answered.                       *)
(***************************************************************************)

(* Chains go through that order one location at a time, and the signer     *)
(* sends what a chain waits for.                                           *)
Advances(t) ==
    /\ pc'[t] = "scan" =>
        /\ cur'[t] = cur[t]
        /\ pc[t] = "scan" \/ (pc[t] = "lookup" /\ cur[t] \notin mempool)
    /\ pc'[t] = "attempt" =>
        /\ cur'[t] = cur[t]
        /\ pc[t] = "attempt" \/ (pc[t] = "scan" /\ ~Mined(cur[t]))
    /\ req'[t] = "open" =>
        /\ cur'[t] = cur[t]
        /\ req[t] = "open" \/ pc[t] = "attempt"

Answers(t) ==
    /\ req[t] = "open"
    /\ req' = [req EXCEPT ![t] = "sent"]
    /\ broadcasts' = [broadcasts EXCEPT ![cur[t]] = @ + 1]
    /\ UNCHANGED <<mem, disk, pc, cur, blocks>>

Orderly ==
    /\ \A t \in Threads : Advances(t)
    /\ blocks \subseteq blocks'
    /\ UNCHANGED late
    /\ Keeps(mem, mem') \/ \A t \in Threads : pc'[t] \notin Locked
    /\ UNCHANGED broadcasts \/ \E t \in Threads : Answers(t)

LEMMA OnceStep ==
    ASSUME ClaimInv, ClaimInv', OnceInv, Orderly
    PROVE  OnceInv'
<1>1. /\ \A t \in Threads : pc[t] \in Locked =>
            /\ t \in inFlight /\ cur[t] \in Deposits
            /\ mem.mint[cur[t]].status # "none"
      /\ \A t \in Threads : req[t] # "none" => pc[t] = "send"
      /\ \A t \in Threads : req'[t] # "none" => pc'[t] = "send"
      /\ \A t, u \in inFlight : cur[t] = cur[u] => t = u
      /\ OutsideTypeOK
  BY DEF ClaimInv, LockInv, WriteInv, RequestInv, UnderClaim, TypeOK
<1>2. Locked = {"lookup", "scan", "attempt", "send"}
  BY DEF Locked
<1>3. CASE UNCHANGED broadcasts
  <2>1. \A d \in Deposits : late'[d] = 0 /\ broadcasts'[d] <= 1
    BY <1>3 DEF OnceInv, Orderly
  <2>2. ASSUME NEW t \in Threads, pc'[t] = "scan"
        PROVE  broadcasts'[cur'[t]] = 0 \/ Mined(cur[t])'
    <3>1. /\ cur'[t] = cur[t] /\ pc[t] \in Locked /\ cur[t] \in Deposits
          /\ mem'.mint[cur[t]].height = mem.mint[cur[t]].height
      BY <1>1, <1>2, <2>2 DEF Orderly, Advances, Keeps
    <3>2. broadcasts[cur[t]] = 0 \/ Mined(cur[t])
      <4>1. CASE pc[t] = "scan"
        BY <4>1 DEF OnceInv
      <4>2. CASE pc[t] = "lookup" /\ cur[t] \notin mempool
        BY <1>1, <3>1, <4>2 DEF ClaimInv, ChainInv, OutsideTypeOK
      <4> QED BY <2>2, <4>1, <4>2 DEF Orderly, Advances
    <3>3. Mined(cur[t]) => Mined(cur[t])'
      BY <3>1 DEF Orderly, Mined
    <3> QED BY <1>3, <3>1, <3>2, <3>3
  <2>3. ASSUME NEW t \in Threads, pc'[t] = "attempt" \/ req'[t] = "open"
        PROVE  broadcasts'[cur'[t]] = 0
    BY <1>3, <2>3 DEF Orderly, Advances, OnceInv
  <2> QED BY <2>1, <2>2, <2>3 DEF OnceInv
<1>4. ASSUME NEW u \in Threads, Answers(u)
      PROVE  OnceInv'
  <2>1. /\ pc[u] = "send" /\ cur[u] \in Deposits /\ broadcasts[cur[u]] = 0
        /\ UNCHANGED <<mem, pc, cur>> /\ blocks \subseteq blocks'
        /\ \A t \in Threads : t # u => req'[t] = req[t]
        /\ req'[u] = "sent"
        /\ \A d \in Deposits : broadcasts'[d] = IF d = cur[u] THEN 1 ELSE broadcasts[d]
    BY <1>1, <1>2, <1>4 DEF Answers, OnceInv, Orderly, OutsideTypeOK
  <2>2. \A d \in Deposits : late'[d] = 0 /\ broadcasts'[d] <= 1
    BY <2>1 DEF OnceInv, Orderly
  <2>3. ASSUME NEW t \in Threads, pc[t] \in Locked, t # u
        PROVE  cur[t] \in Deposits /\ broadcasts'[cur[t]] = broadcasts[cur[t]]
    BY <1>1, <1>2, <2>1, <2>3
  <2>4. ASSUME NEW t \in Threads, pc'[t] = "scan"
        PROVE  broadcasts'[cur'[t]] = 0 \/ Mined(cur[t])'
    BY <1>2, <2>1, <2>3, <2>4 DEF OnceInv, Mined
  <2>5. ASSUME NEW t \in Threads, pc'[t] = "attempt" \/ req'[t] = "open"
        PROVE  broadcasts'[cur'[t]] = 0
    <3>1. t # u /\ pc[t] \in Locked
      BY <1>1, <1>2, <2>1, <2>5
    <3> QED BY <2>1, <2>3, <2>5, <3>1 DEF OnceInv
  <2> QED BY <2>2, <2>4, <2>5 DEF OnceInv
<1> QED BY <1>3, <1>4 DEF Orderly

-----------------------------------------------------------------------------
(* Every step is orderly.                                                  *)

(* A step of chain t to a location outside that order.                     *)
LEMMA AsideStep ==
    ASSUME ClaimInv, NEW t \in Threads, pc[t] # "send", pc'[t] \notin {"scan", "attempt"},
           \A u \in Threads \ {t} : pc'[u] = pc[u] /\ cur'[u] = cur[u],
           UNCHANGED <<req, late, broadcasts, blocks>>, Keeps(mem, mem')
    PROVE  Orderly
<1>1. req[t] = "none"
  BY DEF ClaimInv, RequestInv
<1>2. \A u \in Threads : Advances(u)
  BY <1>1 DEF Advances
<1> QED BY <1>2 DEF Orderly

LEMMA LeaveOrder ==
    ASSUME ClaimInv, NEW t \in Threads, UNCHANGED outsideVars, pc[t] # "send", Keeps(mem, mem'),
           \/ Return(t) \/ Throw({t})
           \/ \E l \in Locations \ {"scan", "attempt"} : Step(t, l)
           \/ \E l \in Locations \ {"scan", "attempt"}, m \in {mem, mem'} : Save(t, m, l)
    PROVE  Orderly
<1>1. ThreadTypeOK /\ UNCHANGED <<req, late, broadcasts, blocks>>
  BY DEF ClaimInv, TypeOK, outsideVars, signerVars, chainVars
<1>2. \/ Return(t) \/ Throw({t})
      \/ \E l \in Locations \ {"scan", "attempt"} : Step(t, l)
  BY DEF Save
<1>3. /\ pc'[t] \notin {"scan", "attempt"}
      /\ \A u \in Threads \ {t} : pc'[u] = pc[u] /\ cur'[u] = cur[u]
  BY <1>1, <1>2 DEF Return, Throw, Step, ThreadTypeOK
<1> QED BY <1>1, <1>3, AsideStep

LEMMA PollOrder ==
    ASSUME ClaimInv, NEW d \in Deposits, PollNext(d)
    PROVE  Orderly
<1>1. Keeps(mem, mem') /\ ThreadTypeOK /\ "poll" \in Threads
  BY PollClaims DEF ClaimInv, TypeOK, Threads
<1>2. CASE \E c \in Mempool..MaxConfidence : PollDetect(d, c)
  <2>1. /\ pc["poll"] = "idle" /\ pc'["poll"] \in {"idle", "detected"}
        /\ pc'["tick"] = pc["tick"] /\ cur'["tick"] = cur["tick"]
        /\ UNCHANGED <<req, late, broadcasts, blocks>>
    BY <1>1, <1>2 DEF PollDetect, At, threadVars, outsideVars, signerVars, chainVars,
                      ThreadTypeOK, Threads
  <2> QED BY <1>1, <2>1, AsideStep DEF Threads
<1>3. CASE PollRevive(d) \/ PollTransit(d) \/ PollCertify(d)
  <2>1. /\ UNCHANGED outsideVars /\ pc["poll"] # "send"
        /\ \E l \in {"revived", "transited", "certified"} : Step("poll", l)
    BY <1>3 DEF PollRevive, PollTransit, PollCertify, At
  <2> QED BY <1>1, <2>1, LeaveOrder DEF Locations
<1>4. CASE PollRoute(d)
  <2>1. /\ UNCHANGED outsideVars /\ pc["poll"] # "send"
        /\ Return("poll") \/ Step("poll", "route")
    BY <1>4 DEF PollRoute, At
  <2> QED BY <1>1, <2>1, LeaveOrder DEF Locations
<1> QED BY <1>2, <1>3, <1>4 DEF PollNext

LEMMA MintOrder ==
    ASSUME LateBroadcast = FALSE, ClaimInv, NEW t \in Threads, NEW d \in Deposits, MintNext(t, d)
    PROVE  Orderly
<1>1. Keeps(mem, mem') /\ ThreadTypeOK /\ OutsideTypeOK
  BY MintClaims DEF ClaimInv, TypeOK
<1>2. {"idle", "held", "validate", "claim", "claimed", "bound", "failed", "told", "attested",
       "minted"} \subseteq Locations \ {"scan", "attempt"}
  BY DEF Locations
<1>3. \A m, l : Save(t, m, l) => m = mem'
  BY DEF Save, Put, PutRejected
<1>4. CASE \/ RouteNothing(t, d) \/ RouteUnderpaid(t, d) \/ RouteValidate(t, d)
           \/ ValidateOk(t, d) \/ ValidateBad(t, d) \/ Claim(t, d) \/ BindIntent(t, d)
           \/ DriveNothing(t, d) \/ LookupFails(t, d) \/ TellIntent(t, d) \/ AttestMint(t, d)
  <2>1. /\ UNCHANGED outsideVars /\ pc[t] # "send"
        /\ \/ Return(t)
           \/ \E l \in {"validate", "claim", "bound", "told", "attested"} : Step(t, l)
           \/ \E l \in {"held", "claimed", "failed"}, m \in {mem'} : Save(t, m, l)
    BY <1>3, <1>4 DEF RouteNothing, RouteUnderpaid, RouteValidate, ValidateOk, ValidateBad, Claim,
                      BindIntent, DriveNothing, LookupFails, TellIntent, AttestMint, At
  <2> QED BY <1>1, <1>2, <2>1, LeaveOrder
<1>5. CASE DriveStart(t, d)
  <2>1. /\ pc[t] = "drive" /\ pc'[t] = "lookup" /\ UNCHANGED <<cur, outsideVars>>
        /\ \A u \in Threads \ {t} : pc'[u] = pc[u]
    BY <1>1, <1>5 DEF DriveStart, At, ThreadTypeOK
  <2> QED BY <1>1, <2>1, AsideStep DEF outsideVars, signerVars, chainVars
<1>6. ASSUME Recover(t, d), UNCHANGED outsideVars, pc[t] \in {"lookup", "scan"}
      PROVE  Orderly
  <2>1. CASE Throw({t})
    BY <1>1, <1>6, <2>1, LeaveOrder
  <2>2. CASE pc' = [pc EXCEPT ![t] = "minted"] /\ UNCHANGED cur
    <3>1. pc'[t] = "minted" /\ \A u \in Threads \ {t} : pc'[u] = pc[u]
      BY <1>1, <2>2 DEF ThreadTypeOK
    <3> QED BY <1>1, <1>6, <2>2, <3>1, AsideStep DEF outsideVars, signerVars, chainVars
  <2> QED BY <1>6, <2>1, <2>2 DEF Recover
<1>7. ASSUME UNCHANGED outsideVars, UNCHANGED cur,
             \A u \in Threads \ {t} : pc'[u] = pc[u],
             \/ pc'[t] = "scan" /\ pc[t] = "lookup" /\ cur[t] \notin mempool
             \/ pc'[t] = "attempt" /\ pc[t] = "scan" /\ ~Mined(cur[t])
      PROVE  Orderly
  <2>1. UNCHANGED <<req, late, broadcasts, blocks>> /\ req[t] = "none"
    BY <1>7 DEF outsideVars, signerVars, chainVars, ClaimInv, RequestInv
  <2>2. \A u \in Threads : Advances(u)
    BY <1>7, <2>1 DEF Advances
  <2> QED BY <1>1, <2>1, <2>2 DEF Orderly
<1>8. CASE LookupMempool(t, d)
  <2>1. CASE d \in mempool
    BY <1>6, <1>8, <2>1 DEF LookupMempool, At
  <2>2. CASE d \notin mempool
    BY <1>1, <1>7, <1>8, <2>2 DEF LookupMempool, At, Step, ThreadTypeOK
  <2> QED BY <2>1, <2>2
<1>9. CASE ScanFound(t, d)
  BY <1>6, <1>9 DEF ScanFound, At
<1>10. CASE ScanMissing(t, d)
  <2>1. CASE Throw({t})
    BY <1>1, <1>10, <2>1, LeaveOrder DEF ScanMissing, At
  <2>2. CASE Step(t, "attempt")
    BY <1>1, <1>7, <1>10, <2>2 DEF ScanMissing, At, Step, ThreadTypeOK
  <2> QED BY <1>10, <2>1, <2>2 DEF ScanMissing, Save
<1>11. CASE SendRequest(t, d)
  <2>1. /\ pc[t] = "attempt" /\ pc'[t] = "send" /\ \A u \in Threads \ {t} : pc'[u] = pc[u]
        /\ \A u \in Threads \ {t} : req'[u] = req[u]
        /\ UNCHANGED <<cur, late, broadcasts, blocks>>
    BY <1>1, <1>11 DEF SendRequest, At, Step, chainVars, ThreadTypeOK, OutsideTypeOK
  <2>2. \A u \in Threads : Advances(u)
    BY <2>1 DEF Advances
  <2> QED BY <1>1, <2>1, <2>2 DEF Orderly
<1>12. CASE SendOk(t, d) \/ SendFails(t, d)
  <2>1. /\ UNCHANGED <<late, broadcasts, blocks>>
        /\ req'[t] = "none" /\ \A u \in Threads \ {t} : req'[u] = req[u]
        /\ Throw({t}) \/ \E l \in {"minted", "failed"} : Step(t, l)
    BY <1>1, <1>12 DEF SendOk, SendFails, Save, chainVars, OutsideTypeOK
  <2>2. /\ pc'[t] \notin {"scan", "attempt"}
        /\ \A u \in Threads \ {t} : pc'[u] = pc[u] /\ cur'[u] = cur[u]
    BY <1>1, <2>1 DEF Throw, Step, ThreadTypeOK
  <2>3. \A u \in Threads : Advances(u)
    BY <2>1, <2>2 DEF Advances
  <2> QED BY <1>1, <2>1, <2>3 DEF Orderly
<1> QED BY <1>4, <1>5, <1>8, <1>9, <1>10, <1>11, <1>12 DEF MintNext

LEMMA ThreadOrder ==
    ASSUME LateBroadcast = FALSE, ClaimInv, NEW t \in Threads, ThreadNext(t)
    PROVE  Orderly
<1>1. CASE ValidateUnreachable(t) \/ ClaimUnreachable(t) \/ StartDrive(t) \/ Finish(t)
  <2>1. /\ UNCHANGED outsideVars /\ pc[t] # "send"
        /\ Return(t) \/ Throw({t}) \/ Step(t, "drive")
    BY <1>1 DEF ValidateUnreachable, ClaimUnreachable, StartDrive, Finish, At
  <2> QED BY <2>1, ThreadClaims, LeaveOrder DEF Locations
<1> QED BY <1>1, MintOrder DEF ThreadNext

LEMMA SweepOrder ==
    ASSUME ClaimInv, TickNext \/ \E i \in Intents : PollExpire(i)
    PROVE  Orderly
<1>1. Keeps(mem, mem') /\ ThreadTypeOK /\ Threads = {"poll", "tick"}
  BY SweepClaims DEF ClaimInv, TypeOK, Threads
<1>2. CASE TickNext
  <2> DEFINE Tidy ==
        /\ pc["tick"] \in {"idle", "next"} /\ pc'["tick"] \in {"idle", "next", "route", "drive"}
        /\ pc'["poll"] = pc["poll"] /\ cur'["poll"] = cur["poll"]
        /\ UNCHANGED <<req, late, broadcasts, blocks>>
  <2>1. ASSUME TickStart \/ TickAdvance
        PROVE  Tidy
    BY <1>1, <2>1 DEF TickStart, TickAdvance, At, ThreadTypeOK, outsideVars, signerVars, chainVars
  <2>2. ASSUME NEW d \in Deposits, TickDeposit(d) \/ TickMint(d)
        PROVE  Tidy
    BY <1>1, <2>2 DEF TickDeposit, TickMint, At, ThreadTypeOK, outsideVars, signerVars, chainVars
  <2>3. Tidy
    BY <1>2, <2>1, <2>2 DEF TickNext
  <2> QED BY <1>1, <2>3, AsideStep
<1>3. ASSUME NEW i \in Intents, PollExpire(i)
      PROVE  Orderly
  <2>1. /\ pc["poll"] = "idle" /\ pc'["poll"] \in {"idle", "held"} /\ pc'["tick"] = pc["tick"]
        /\ UNCHANGED <<cur, req, late, broadcasts, blocks>>
    BY <1>1, <1>3 DEF PollExpire, At, Step, threadVars, outsideVars, signerVars, chainVars,
                      ThreadTypeOK
  <2> QED BY <1>1, <2>1, AsideStep
<1> QED BY <1>2, <1>3

LEMMA OutsideOrder ==
    ASSUME LateBroadcast = FALSE, ClaimInv, OnceInv, OutsideNext \/ UNCHANGED vars
    PROVE  Orderly
<1>1. Keeps(mem, mem) /\ ThreadTypeOK /\ OutsideTypeOK
  BY KeepsOrder DEF ClaimInv, TypeOK
<1>2. ASSUME UNCHANGED <<mem, pc, cur, req, late, broadcasts>>, blocks \subseteq blocks'
      PROVE  Orderly
  BY <1>1, <1>2 DEF Orderly, Advances
<1>3. ASSUME NEW t \in Threads, SignerRefuses(t)
      PROVE  Orderly
  <2>1. /\ UNCHANGED <<mem, pc, cur, late, broadcasts, blocks>>
        /\ req'[t] = "refused" /\ \A u \in Threads \ {t} : req'[u] = req[u]
    BY <1>1, <1>3 DEF SignerRefuses, storeVars, threadVars, chainVars, OutsideTypeOK
  <2> QED BY <1>1, <2>1 DEF Orderly, Advances
<1>4. ASSUME NEW t \in Threads, NEW d \in Deposits, SignerBroadcasts(t, d)
      PROVE  Orderly
  <2>1. /\ UNCHANGED <<mem, disk, pc, cur, late, blocks>> /\ Answers(t)
        /\ req'[t] = "sent" /\ \A u \in Threads \ {t} : req'[u] = req[u]
    BY <1>1, <1>4 DEF SignerBroadcasts, Answers, storeVars, threadVars, OutsideTypeOK
  <2> QED BY <1>1, <2>1 DEF Orderly, Advances
<1>5. \A d \in Deposits : ~SignerBroadcastsLate(d)
  BY DEF SignerBroadcastsLate, OnceInv
<1>6. CASE \E S \in SUBSET mempool : MineBlock(S)
  BY <1>2, <1>6 DEF MineBlock, storeVars, threadVars, signerVars
<1>7. CASE TogglePause \/ UNCHANGED vars
  BY <1>2, <1>7 DEF TogglePause, vars, outsideVars, storeVars, threadVars, signerVars, chainVars
<1>8. CASE StoreFault
  <2>1. /\ UNCHANGED <<mem, req, late, broadcasts, blocks>>
        /\ \A t \in Threads :
              \/ pc'[t] = pc[t] /\ cur'[t] = cur[t]
              \/ pc'[t] \in {"idle", "halted"} /\ t \in Awaiting
    BY <1>1, <1>8 DEF StoreFault, WriteFails, Throw, signerVars, chainVars
  <2>2. \A t \in Awaiting : pc[t] # "send"
    BY DEF Awaiting, ClaimInv, WriteInv, Waiting
  <2>3. \A t \in Threads : req[t] = "open" => pc[t] = "send"
    BY DEF ClaimInv, RequestInv
  <2>4. \A t \in Threads : Advances(t)
    BY <2>1, <2>2, <2>3 DEF Advances
  <2> QED BY <1>1, <2>1, <2>4 DEF Orderly
<1>9. CASE Crash \/ Exit
  <2>1. /\ \A t \in Threads : pc'[t] \in {"idle", "next"} /\ req'[t] = "none"
        /\ UNCHANGED <<late, broadcasts, blocks>>
    BY <1>9 DEF Crash, Exit, Reboot, chainVars
  <2> QED BY <2>1 DEF Orderly, Advances, Locked
<1> QED BY <1>3, <1>4, <1>5, <1>6, <1>7, <1>8, <1>9 DEF OutsideNext

-----------------------------------------------------------------------------
LEMMA StepOnce ==
    ASSUME LateBroadcast = FALSE, ClaimInv, OnceInv, [Next]_vars
    PROVE  OnceInv'
<1>1. ClaimInv'
  BY StepClaims
<1>2. Orderly
  BY PollOrder, ThreadOrder, SweepOrder, OutsideOrder DEF Next
<1> QED BY <1>1, <1>2, OnceStep

LEMMA InitOnce == Init => OnceInv
BY DEF Init, OnceInv

(* One deposit outpoint mints exactly once, ever (gateway.ts:468): at most *)
(* one receipt is broadcast per outpoint, for every number of deposits,    *)
(* crashes and write faults, when the signer settles a request before the  *)
(* gateway that gave it up asks again.                                     *)
THEOREM OneReceipt ==
    ASSUME LateBroadcast = FALSE
    PROVE  Spec => []AtMostOneReceipt
<1>1. Init => ClaimInv /\ OnceInv
  BY InitClaims, InitOnce
<1>2. ClaimInv /\ OnceInv /\ [Next]_vars => (ClaimInv /\ OnceInv)'
  BY StepClaims, StepOnce
<1>3. OnceInv => AtMostOneReceipt
  BY DEF OnceInv, AtMostOneReceipt
<1> QED BY <1>1, <1>2, <1>3, PTL DEF Spec

-----------------------------------------------------------------------------
(* A step writes the state file or broadcasts, never both.                 *)
LEMMA StepMaps ==
    ASSUME LateBroadcast = FALSE, ClaimInv, OnceInv, [Next]_vars
    PROVE  [Ledger!Next]_(Ledger!ledgerVars)
<1> DEFINE claimed == {d \in Deposits : disk.mint[d].status # "none"}
           recorded == {d \in Deposits : disk.mint[d].status = "minted"}
<1>1. ClaimInv' /\ Keeps(disk, disk') /\ OnceInv'
  BY StepClaims, StepOnce
<1>2. Orderly
  BY PollOrder, ThreadOrder, SweepOrder, OutsideOrder DEF Next
<1>3. claimed \subseteq claimed' /\ recorded \subseteq recorded'
  BY <1>1 DEF Keeps
<1>4. \A d \in recorded' : d \in claimed' /\ broadcasts'[d] = 1
  <2>1. \A d \in recorded' : broadcasts'[d] > 0 /\ broadcasts'[d] <= 1 /\ broadcasts'[d] \in Nat
    BY <1>1 DEF ClaimInv, StoreInv, Truthful, OnceInv, TypeOK, OutsideTypeOK
  <2> QED BY <2>1
<1>5. CASE UNCHANGED broadcasts
  <2> DEFINE New == claimed' \ claimed
             Landed == recorded' \ recorded
  <2>1. New \subseteq Deposits /\ Landed \subseteq Deposits
    OBVIOUS
  <2>2. claimed' = claimed \cup New /\ recorded' = recorded \cup Landed
    BY <1>3
  <2>3. Landed \subseteq {d \in claimed \cup New : broadcasts[d] = 1}
    BY <1>4, <1>5, <2>2
  <2> HIDE DEF New, Landed
  <2>4. PICK C \in SUBSET Deposits, R \in SUBSET Deposits : C = New /\ R = Landed
    BY <2>1
  <2>5. Ledger!Persist(C, R)
    BY <1>5, <2>2, <2>3, <2>4 DEF Ledger!Persist
  <2> QED BY <2>5 DEF Ledger!Next, Ledger!Persist
<1>6. ASSUME NEW t \in Threads, Answers(t)
      PROVE  Ledger!Next
  <2>1. /\ cur[t] \in Deposits /\ disk.mint[cur[t]].status # "none"
        /\ broadcasts[cur[t]] = 0
    BY <1>6 DEF Answers, ClaimInv, RequestInv, ChainInv, WriteInv, UnderClaim, Locked, OnceInv
  <2>2. broadcasts' = [broadcasts EXCEPT ![cur[t]] = 1] /\ UNCHANGED disk
    BY <1>6, <2>1 DEF Answers
  <2>3. Ledger!Issue(cur[t])
    BY <2>1, <2>2 DEF Ledger!Issue
  <2> QED BY <2>1, <2>3 DEF Ledger!Next
<1> QED BY <1>2, <1>5, <1>6 DEF Orderly

(* The pipeline implements the ledger of claims and receipts               *)
(* (store.ts:58-69): crashes, retries, failed writes and the two drivers   *)
(* are invisible in what is claimed, issued and recorded.                  *)
THEOREM ImplementsLedger ==
    ASSUME LateBroadcast = FALSE
    PROVE  Spec => LedgerSpec
<1>1. Init => Ledger!Init
  <2>1. Init => disk = EmptyContents
    BY DEF Init, StoreInit
  <2> QED BY <2>1 DEF Init, Ledger!Init, EmptyContents, Unclaimed
<1>2. Init => ClaimInv /\ OnceInv
  BY InitClaims, InitOnce
<1>3. ClaimInv /\ OnceInv /\ [Next]_vars => (ClaimInv /\ OnceInv)'
  BY StepClaims, StepOnce
<1>4. ClaimInv /\ OnceInv /\ [Next]_vars => [Ledger!Next]_(Ledger!ledgerVars)
  BY StepMaps
<1> QED BY <1>1, <1>2, <1>3, <1>4, PTL DEF Spec, LedgerSpec, Ledger!Spec

====
