---- MODULE ChainWatchersSafety ----
(***************************************************************************)
(* What the watchers never do, whatever the deposits, the signatures, the  *)
(* polls and the limit: step over a deposit or a signature that nobody has *)
(* noted, or queue a deposit twice.                                        *)
(*                                                                         *)
(* Polls overlap and end in any order, so that either cursor can go back.  *)
(* What has to be shown is that a poll, wherever it stands, has everything *)
(* behind it noted: by itself, or by the polls that moved the cursor it    *)
(* began from.                                                             *)
(***************************************************************************)
EXTENDS ChainWatchers, SequenceTheorems, FiniteSetTheorems, WellFoundedInduction, TLAPS

-----------------------------------------------------------------------------
(* The invariant                                                           *)

(* The queue holds what processedSourceTxs knows, each source once.        *)
QueueInv ==
    /\ queue \in Seq(Deposits)
    /\ processed = ToSet(queue)
    /\ IsInjective(queue)

ChainTypes ==
    /\ newest \in Nat
    /\ lastSignature \in 0 .. newest
    /\ older.signature \in 0 .. newest
    /\ tip \in Nat
    /\ block \in [Deposits -> 0 .. tip]
    /\ lastBlockHeight \in 0 .. tip

PollStates == {Idle} \cup [of : {"signatures", "blocks"}, next : Nat, to : Nat, last : Nat]

Noted(h) == \A d \in Deposits : block[d] \in 1 .. h => Arrived(d)

SeenTo(s) == \A n \in 1 .. s : Seen(n)

(* A poll of either kind: what it will take for the last it has seen is    *)
(* not beyond what it reads, and everything before its next is noted.      *)
SigPollOK(p) ==
    poll[p].of = "signatures" =>
        /\ poll[p].last <= poll[p].to
        /\ poll[p].to <= newest
        /\ SeenTo(poll[p].next - 1)

BlockPollOK(p) ==
    poll[p].of = "blocks" =>
        /\ poll[p].last = poll[p].to
        /\ poll[p].to <= tip
        /\ poll[p].next <= poll[p].to + 1
        /\ Noted(poll[p].next - 1)

PollInv ==
    /\ poll \in [Polls -> PollStates]
    /\ \A p \in Polls : SigPollOK(p) /\ BlockPollOK(p)

WatchInv ==
    /\ QueueInv
    /\ ChainTypes
    /\ PollInv
    /\ SeenTo(lastSignature)
    /\ Noted(lastBlockHeight)

-----------------------------------------------------------------------------
(* The queue                                                               *)

(* A finite set listed: every element of the list is one of the set's, and *)
(* none comes twice.                                                       *)
LEMMA SetIsListed ==
    ASSUME NEW S, IsFiniteSet(S)
    PROVE  /\ Cardinality(S) \in Nat
           /\ SetToSeq(S) \in [1 .. Cardinality(S) -> S]
           /\ \A i, j \in 1 .. Cardinality(S) : SetToSeq(S)[i] = SetToSeq(S)[j] => i = j
           /\ \A x \in S : \E i \in 1 .. Cardinality(S) : SetToSeq(S)[i] = x
<1> DEFINE n == Cardinality(S)
<1>1. n \in Nat /\ ExistsBijection(1 .. n, S)
  BY FS_CardinalityType
<1>2. \E f \in [1 .. n -> S] : IsInjective(f)
  BY <1>1 DEF ExistsBijection, Bijection, Injection
<1>3. SetToSeq(S) \in [1 .. n -> S] /\ IsInjective(SetToSeq(S))
  BY <1>2 DEF SetToSeq
<1>4. SetToSeq(S) \in Injection(1 .. n, S)
  BY <1>3 DEF Injection
<1>5. Cardinality(1 .. n) = n
  BY <1>1, FS_Interval
<1>6. SetToSeq(S) \in Surjection(1 .. n, S)
  BY <1>4, <1>5, FS_Injection
<1>7. DOMAIN SetToSeq(S) = 1 .. n
  BY <1>3
<1>8. \A x \in S : \E i \in 1 .. n : SetToSeq(S)[i] = x
  BY <1>6 DEF Surjection
<1> QED
  BY <1>1, <1>3, <1>7, <1>8 DEF IsInjective

(* enqueue appends what processedSourceTxs does not know, each once.       *)
LEMMA EnqueueAppends ==
    ASSUME QueueInv, NEW S \in SUBSET Deposits, Enqueue(S)
    PROVE  QueueInv' /\ ToSet(queue') = ToSet(queue) \cup S
<1> DEFINE N == S \ processed
           new == SetToSeq(N)
           n == Cardinality(N)
           m == Len(queue)
<1>1. IsFiniteSet(N)
  BY FS_Subset, QueueAssumption
<1>2. /\ n \in Nat /\ new \in [1 .. n -> N]
      /\ \A i, j \in 1 .. n : new[i] = new[j] => i = j
      /\ \A x \in N : \E i \in 1 .. n : new[i] = x
  BY <1>1, SetIsListed
<1>3. queue' = queue \o new /\ processed' = processed \cup S
  BY DEF Enqueue
<1>4. queue \in Seq(Deposits) /\ m \in Nat /\ DOMAIN queue = 1 .. m
  BY LenProperties DEF QueueInv
<1>5. new \in Seq(Deposits) /\ Len(new) = n
  <2> HIDE DEF new, n
  <2>1. new \in [1 .. n -> Deposits]
    BY <1>2
  <2>2. new \in Seq(Deposits)
    BY <1>2, <2>1
  <2> QED
    BY <1>2, <2>1, <2>2
<1> HIDE DEF new, n
<1>6. /\ queue' \in Seq(Deposits)
      /\ Len(queue') = m + n
      /\ \A i \in 1 .. m + n : queue'[i] = IF i <= m THEN queue[i] ELSE new[i - m]
  BY <1>3, <1>4, <1>5, ConcatProperties
<1>7. DOMAIN queue' = 1 .. m + n
  BY <1>6, LenProperties
<1>8. \A i \in 1 .. m : i \in DOMAIN queue' /\ queue'[i] = queue[i]
  BY <1>2, <1>4, <1>6, <1>7
<1>9. \A i \in 1 .. n : m + i \in DOMAIN queue' /\ queue'[m + i] = new[i]
  <2>1. ASSUME NEW i \in 1 .. n
        PROVE  m + i \in 1 .. m + n /\ ~(m + i <= m) /\ (m + i) - m = i
    BY <1>2, <1>4
  <2> QED
    BY <1>6, <1>7, <2>1
<1>10. \A i \in DOMAIN queue' : \/ i \in 1 .. m
                                \/ \E j \in 1 .. n : i = m + j
  <2>1. ASSUME NEW i \in DOMAIN queue', i \notin 1 .. m
        PROVE  i - m \in 1 .. n /\ i = m + (i - m)
    BY <1>2, <1>4, <1>7, <2>1
  <2> QED
    BY <2>1
<1>11. ToSet(queue') = ToSet(queue) \cup N
  <2>1. \A x : x \in ToSet(queue) <=> \E i \in 1 .. m : queue[i] = x
    BY <1>4 DEF ToSet
  <2>2. \A x : x \in ToSet(queue') <=> \E i \in DOMAIN queue' : queue'[i] = x
    BY DEF ToSet
  <2>3. \A x : x \in N <=> \E i \in 1 .. n : new[i] = x
    BY <1>2
  <2> QED
    BY <1>8, <1>9, <1>10, <2>1, <2>2, <2>3
<1>12. ToSet(queue') = ToSet(queue) \cup S
  BY <1>11 DEF QueueInv
<1>13. IsInjective(queue')
  <2>1. \A i, j \in 1 .. m : queue[i] = queue[j] => i = j
    BY <1>4 DEF QueueInv, IsInjective
  <2>2. \A i \in 1 .. m, j \in 1 .. n : queue[i] # new[j]
    <3>1. \A i \in 1 .. m : queue[i] \in processed
      BY <1>4 DEF QueueInv, ToSet
    <3>2. \A j \in 1 .. n : new[j] \notin processed
      BY <1>2
    <3> QED
      BY <3>1, <3>2
  <2> SUFFICES ASSUME NEW i \in DOMAIN queue', NEW j \in DOMAIN queue', queue'[i] = queue'[j]
               PROVE  i = j
    BY DEF IsInjective
  <2>3. CASE i \in 1 .. m /\ j \in 1 .. m
    BY <1>8, <2>1, <2>3
  <2>4. CASE i \in 1 .. m /\ j \notin 1 .. m
    BY <1>8, <1>9, <1>10, <2>2, <2>4
  <2>5. CASE i \notin 1 .. m /\ j \in 1 .. m
    BY <1>8, <1>9, <1>10, <2>2, <2>5
  <2>6. CASE i \notin 1 .. m /\ j \notin 1 .. m
    <3>1. PICK a \in 1 .. n, b \in 1 .. n : i = m + a /\ j = m + b
      BY <1>10, <2>6
    <3>2. new[a] = new[b]
      BY <1>9, <3>1
    <3>3. a = b
      BY <1>2, <3>2
    <3> QED
      BY <3>1, <3>3
  <2> QED
    BY <2>3, <2>4, <2>5, <2>6
<1> QED
  BY <1>3, <1>6, <1>12, <1>13 DEF QueueInv

-----------------------------------------------------------------------------
(* The polls                                                               *)

(* A poll changes, and what the others rest on does not shrink.            *)
LEMMA PollsKeep ==
    ASSUME PollInv, NEW p \in Polls,
           poll' \in [Polls -> PollStates],
           \A q \in Polls : q # p => poll'[q] = poll[q],
           SigPollOK(p)', BlockPollOK(p)',
           newest' = newest, tip' = tip, block' = block,
           \A d \in Deposits : Arrived(d) => Arrived(d)',
           \A n \in Nat : Seen(n) => Seen(n)'
    PROVE  PollInv'
<1>1. ASSUME NEW q \in Polls, q # p PROVE SigPollOK(q)' /\ BlockPollOK(q)'
  <2>1. SigPollOK(q) /\ BlockPollOK(q) /\ poll'[q] = poll[q] /\ poll[q] \in PollStates
    BY <1>1 DEF PollInv
  <2>2. ASSUME poll[q].of = "signatures", NEW n \in 1 .. poll[q].next - 1, Seen(n)
        PROVE  Seen(n)'
    BY <2>1, <2>2 DEF PollStates, Idle
  <2>3. SigPollOK(q)'
    BY <2>1, <2>2 DEF SigPollOK, SeenTo
  <2>4. BlockPollOK(q)'
    BY <2>1 DEF BlockPollOK, Noted
  <2> QED
    BY <2>3, <2>4
<1> QED
  BY <1>1 DEF PollInv

(* The three ways a poll changes.                                          *)
LEMMA PollBegins ==
    ASSUME PollInv, NEW p \in Polls, NEW what \in {"signatures", "blocks"},
           NEW lo \in Nat, NEW hi \in Nat, NEW last \in Nat, Begins(p, what, lo, hi, last)
    PROVE  /\ poll' \in [Polls -> PollStates]
           /\ \A q \in Polls : q # p => poll'[q] = poll[q]
           /\ poll'[p] = [of |-> what, next |-> lo, to |-> hi, last |-> last]
BY DEF PollInv, PollStates, Begins

LEMMA PollAdvances ==
    ASSUME PollInv, NEW p \in Polls, NEW what \in {"signatures", "blocks"},
           Reads(p, what), Advances(p)
    PROVE  /\ poll' \in [Polls -> PollStates]
           /\ \A q \in Polls : q # p => poll'[q] = poll[q]
           /\ poll[p] \in PollStates \ {Idle} /\ poll[p].of = what
           /\ poll'[p].of = what /\ poll'[p].to = poll[p].to /\ poll'[p].last = poll[p].last
           /\ poll'[p].next = poll[p].next + 1 /\ poll[p].next <= poll[p].to
           /\ poll[p].next \in Nat /\ poll[p].to \in Nat
<1>1. poll \in [Polls -> PollStates] /\ poll[p] \in PollStates
  BY DEF PollInv
<1>2. poll[p] # Idle
  BY DEF Reads, Idle
<1> QED
  BY <1>1, <1>2 DEF PollStates, Reads, Advances

LEMMA PollEnds ==
    ASSUME PollInv, NEW p \in Polls, Ends(p)
    PROVE  /\ poll' \in [Polls -> PollStates]
           /\ \A q \in Polls : q # p => poll'[q] = poll[q]
           /\ SigPollOK(p)' /\ BlockPollOK(p)'
BY DEF PollInv, PollStates, Ends, Idle, SigPollOK, BlockPollOK

-----------------------------------------------------------------------------
(* The chains' own steps, and the restart.                                 *)

NotesKeep ==
    /\ \A d \in Deposits : Arrived(d) => Arrived(d)'
    /\ \A n \in Nat : Seen(n) => Seen(n)'

LEMMA NotesRest == UNCHANGED <<queue, historyVars>> => NotesKeep
BY DEF NotesKeep, historyVars, Arrived, Seen

LEMMA QueueRests == QueueInv /\ UNCHANGED <<queue, processed>> => QueueInv'
BY DEF QueueInv

LEMMA SignKeeps ==
    ASSUME WatchInv, Sign
    PROVE  WatchInv'
<1>1. /\ newest \in Nat /\ newest' = newest + 1
      /\ UNCHANGED <<queueVars, lastSignature, soqucoinVars, poll, historyVars>>
  BY DEF WatchInv, ChainTypes, Sign
<1>2. QueueInv' /\ ChainTypes'
  BY <1>1, QueueRests DEF WatchInv, ChainTypes, queueVars, soqucoinVars, historyVars
<1>3. \A n : Seen(n)' <=> Seen(n)
  BY <1>1 DEF Seen, historyVars
<1>4. \A d : Arrived(d)' <=> Arrived(d)
  BY <1>1 DEF Arrived, queueVars, historyVars
<1>5. SeenTo(lastSignature)' /\ Noted(lastBlockHeight)'
  BY <1>1, <1>3, <1>4 DEF WatchInv, SeenTo, Noted, soqucoinVars
<1>6. PollInv'
  <2> SUFFICES ASSUME NEW p \in Polls PROVE SigPollOK(p)' /\ BlockPollOK(p)'
    BY <1>1 DEF WatchInv, PollInv
  <2>1. SigPollOK(p) /\ BlockPollOK(p) /\ poll[p] \in PollStates
    BY DEF WatchInv, PollInv
  <2>2. SigPollOK(p)'
    <3>1. poll[p].of = "signatures" => poll[p].to \in Nat
      BY <2>1 DEF PollStates, Idle
    <3> QED
      BY <1>1, <1>3, <2>1, <3>1 DEF SigPollOK, SeenTo
  <2>3. BlockPollOK(p)'
    BY <1>1, <1>4, <2>1 DEF BlockPollOK, Noted, soqucoinVars
  <2> QED
    BY <2>2, <2>3
<1> QED
  BY <1>2, <1>5, <1>6 DEF WatchInv

(* A new block is above all that is polled.                                *)
LEMMA MineKeeps ==
    ASSUME WatchInv, Mine
    PROVE  WatchInv'
<1>1. /\ tip' = tip + 1
      /\ UNCHANGED <<queueVars, solanaVars, lastBlockHeight, poll, historyVars>>
  BY DEF Mine
<1>2. /\ tip \in Nat /\ block \in [Deposits -> 0 .. tip] /\ lastBlockHeight \in 0 .. tip
  BY DEF WatchInv, ChainTypes
<1>3. /\ block' \in [Deposits -> 0 .. tip + 1]
      /\ \A d \in Deposits : block'[d] = block[d] \/ block'[d] = tip + 1
  BY <1>2 DEF Mine
<1>4. QueueInv' /\ ChainTypes'
  BY <1>1, <1>2, <1>3, QueueRests DEF WatchInv, ChainTypes, queueVars, solanaVars, historyVars
<1>5. \A n : Seen(n)' <=> Seen(n)
  BY <1>1 DEF Seen, historyVars
<1>6. \A d : Arrived(d)' <=> Arrived(d)
  BY <1>1 DEF Arrived, queueVars, historyVars
<1>7. ASSUME NEW h \in Int, h <= tip, Noted(h) PROVE Noted(h)'
  BY <1>2, <1>3, <1>6, <1>7 DEF Noted
<1>8. SeenTo(lastSignature)' /\ Noted(lastBlockHeight)'
  BY <1>1, <1>2, <1>5, <1>7 DEF WatchInv, SeenTo, Noted, solanaVars
<1>9. PollInv'
  <2> SUFFICES ASSUME NEW p \in Polls PROVE SigPollOK(p)' /\ BlockPollOK(p)'
    BY <1>1 DEF WatchInv, PollInv
  <2>1. SigPollOK(p) /\ BlockPollOK(p) /\ poll[p] \in PollStates
    BY DEF WatchInv, PollInv
  <2>2. SigPollOK(p)'
    BY <1>1, <1>5, <2>1 DEF SigPollOK, SeenTo, solanaVars
  <2>3. BlockPollOK(p)'
    <3> SUFFICES ASSUME poll[p].of = "blocks" PROVE BlockPollOK(p)'
      BY <1>1 DEF BlockPollOK
    <3>1. poll[p].next \in Nat /\ poll[p].to \in Nat
      BY <2>1 DEF PollStates, Idle
    <3>2. /\ poll[p].last = poll[p].to /\ poll[p].to <= tip
          /\ poll[p].next <= poll[p].to + 1 /\ Noted(poll[p].next - 1)
      BY <2>1 DEF BlockPollOK
    <3>3. Noted(poll[p].next - 1)'
      BY <1>1, <1>2, <1>7, <3>1, <3>2 DEF Noted
    <3> QED
      BY <1>1, <1>2, <3>1, <3>2, <3>3 DEF BlockPollOK
  <2> QED
    BY <2>2, <2>3
<1> QED
  BY <1>4, <1>8, <1>9 DEF WatchInv

(* What is older than the process needs no noting.                         *)
LEMMA RestartKeeps ==
    ASSUME WatchInv, Restart
    PROVE  WatchInv'
<1>1. /\ queue' = <<>> /\ processed' = {}
      /\ poll' = [p \in Polls |-> Idle]
      /\ lastSignature' \in {newest, 0} /\ lastBlockHeight' \in {tip, 0}
      /\ older' = [signature |-> newest, deposits |-> {d \in Deposits : block[d] # 0}]
      /\ newest' = newest /\ tip' = tip /\ block' = block
  BY DEF Restart, QueueForgets
<1>2. QueueInv'
  BY <1>1 DEF QueueInv, ToSet, IsInjective
<1>3. ChainTypes'
  BY <1>1 DEF WatchInv, ChainTypes
<1>4. PollInv'
  BY <1>1 DEF PollInv, PollStates, Idle, SigPollOK, BlockPollOK
<1>5. SeenTo(lastSignature)'
  BY <1>1 DEF WatchInv, ChainTypes, SeenTo, Seen
<1>6. Noted(lastBlockHeight)'
  BY <1>1 DEF WatchInv, ChainTypes, Noted, Arrived
<1> QED
  BY <1>2, <1>3, <1>4, <1>5, <1>6 DEF WatchInv

-----------------------------------------------------------------------------
(* The polls' steps.                                                       *)

(* A poll changes, and perhaps the notes; no chain does, and no cursor.    *)
LEMMA PollStepped ==
    ASSUME WatchInv, NEW p \in Polls,
           poll' \in [Polls -> PollStates],
           \A q \in Polls : q # p => poll'[q] = poll[q],
           SigPollOK(p)', BlockPollOK(p)',
           UNCHANGED <<solanaVars, soqucoinVars, older>>, QueueInv', NotesKeep
    PROVE  WatchInv'
<1>1. PollInv'
  BY PollsKeep DEF WatchInv, NotesKeep, solanaVars, soqucoinVars
<1>2. ChainTypes'
  BY DEF WatchInv, ChainTypes, solanaVars, soqucoinVars
<1>3. SeenTo(lastSignature)' /\ Noted(lastBlockHeight)'
  BY DEF WatchInv, ChainTypes, SeenTo, Noted, NotesKeep, solanaVars, soqucoinVars
<1> QED
  BY <1>1, <1>2, <1>3 DEF WatchInv

LEMMA SigPollBeginsKeeps ==
    ASSUME WatchInv, NEW p \in Polls, SigPollBegins(p)
    PROVE  WatchInv'
<1>1. /\ newest \in Nat /\ lastSignature \in 0 .. newest /\ newest > lastSignature
      /\ Begins(p, "signatures", Oldest, newest, Oldest) /\ lost' = lost \cup Cut
      /\ UNCHANGED <<queueVars, solanaVars, soqucoinVars, read, missed, older>>
  BY DEF WatchInv, ChainTypes, SigPollBegins
<1>2. Oldest - 1 <= lastSignature \/ Oldest = newest - Limit + 1
  BY <1>1, WatchersAssumption DEF Oldest
<1>3. Oldest \in 1 .. newest
  BY <1>1, WatchersAssumption DEF Oldest
<1>4. /\ poll' \in [Polls -> PollStates]
      /\ \A q \in Polls : q # p => poll'[q] = poll[q]
      /\ poll'[p] = [of |-> "signatures", next |-> Oldest, to |-> newest, last |-> Oldest]
  BY <1>1, <1>3, PollBegins DEF WatchInv
<1>5. NotesKeep
  BY <1>1 DEF NotesKeep, Arrived, Seen, queueVars
<1>6. ASSUME NEW n \in 1 .. Oldest - 1 PROVE Seen(n)'
  <2>1. CASE n <= lastSignature
    BY <1>1, <1>3, <1>5, <2>1 DEF WatchInv, SeenTo, NotesKeep
  <2>2. CASE ~(n <= lastSignature)
    <3>1. n \in lastSignature + 1 .. newest - Limit
      BY <1>1, <1>2, <1>3, <2>2, WatchersAssumption
    <3> QED
      BY <1>1, <3>1 DEF Cut, Seen
  <2> QED
    BY <2>1, <2>2
<1>7. SigPollOK(p)'
  BY <1>1, <1>3, <1>4, <1>6 DEF SigPollOK, SeenTo, solanaVars
<1>8. BlockPollOK(p)' /\ QueueInv'
  BY <1>1, <1>4, QueueRests DEF BlockPollOK, WatchInv, queueVars
<1> QED
  BY <1>1, <1>4, <1>5, <1>7, <1>8, PollStepped

(* Read, or lost: the signature a poll stands at is seen.                  *)
LEMMA SigStepKeeps ==
    ASSUME WatchInv, NEW p \in Polls, Reads(p, "signatures"), Advances(p),
           NEW s, s = poll[p].next, Seen(s)', NotesKeep,
           UNCHANGED <<queue, processed, solanaVars, soqucoinVars, older>>
    PROVE  WatchInv'
<1>1. /\ poll' \in [Polls -> PollStates]
      /\ \A q \in Polls : q # p => poll'[q] = poll[q]
      /\ poll[p].of = "signatures" /\ poll'[p].of = "signatures"
      /\ poll'[p].to = poll[p].to /\ poll'[p].last = poll[p].last
      /\ poll'[p].next = poll[p].next + 1 /\ poll[p].next \in Nat
  BY PollAdvances DEF WatchInv
<1>2. SigPollOK(p)
  BY DEF WatchInv, PollInv
<1>3. ASSUME NEW n \in 1 .. poll[p].next PROVE Seen(n)'
  <2>1. CASE n = poll[p].next
    BY <2>1
  <2>2. CASE n # poll[p].next
    <3>1. n \in 1 .. poll[p].next - 1 /\ n \in Nat
      BY <1>1, <2>2
    <3>2. Seen(n)
      BY <1>1, <1>2, <3>1 DEF SigPollOK, SeenTo
    <3> QED
      BY <3>1, <3>2 DEF NotesKeep
  <2> QED
    BY <2>1, <2>2
<1>4. SigPollOK(p)'
  <2>1. poll'[p].next - 1 = poll[p].next
    BY <1>1
  <2> QED
    BY <1>1, <1>2, <1>3, <2>1 DEF SigPollOK, SeenTo, solanaVars
<1>5. BlockPollOK(p)' /\ QueueInv'
  BY <1>1, QueueRests DEF BlockPollOK, WatchInv
<1> QED
  BY <1>1, <1>4, <1>5, PollStepped

LEMMA SigIsReadKeeps ==
    ASSUME WatchInv, NEW p \in Polls, SigIsRead(p)
    PROVE  WatchInv'
<1>1. /\ Reads(p, "signatures") /\ Advances(p) /\ read' = read \cup {poll[p].next}
      /\ UNCHANGED <<queueVars, solanaVars, soqucoinVars, lost, missed, older>>
  BY DEF SigIsRead
<1>2. PICK s : s = poll[p].next
  OBVIOUS
<1>3. Seen(s)' /\ NotesKeep
  BY <1>1, <1>2 DEF Seen, NotesKeep, Arrived, queueVars
<1> QED
  BY <1>1, <1>2, <1>3, SigStepKeeps DEF queueVars

LEMMA FetchFailsKeeps ==
    ASSUME WatchInv, NEW p \in Polls, FetchFails(p)
    PROVE  WatchInv'
<1>1. /\ Reads(p, "signatures") /\ Advances(p) /\ lost' = lost \cup {poll[p].next}
      /\ UNCHANGED <<queue, processed, solanaVars, soqucoinVars, read, missed, older>>
  BY DEF FetchFails
<1>2. PICK s : s = poll[p].next
  OBVIOUS
<1>3. Seen(s)' /\ NotesKeep
  BY <1>1, <1>2 DEF Seen, NotesKeep, Arrived
<1> QED
  BY <1>1, <1>2, <1>3, SigStepKeeps

LEMMA SigPollEndsKeeps ==
    ASSUME WatchInv, NEW p \in Polls, SigPollEnds(p)
    PROVE  WatchInv'
<1>1. /\ poll[p].of = "signatures" /\ poll[p].next > poll[p].to
      /\ lastSignature' = poll[p].last /\ Ends(p)
      /\ UNCHANGED <<queueVars, newest, soqucoinVars, historyVars>>
  BY DEF SigPollEnds, Through
<1>2. /\ poll' \in [Polls -> PollStates]
      /\ \A q \in Polls : q # p => poll'[q] = poll[q]
      /\ SigPollOK(p)' /\ BlockPollOK(p)'
  BY <1>1, PollEnds DEF WatchInv
<1>3. NotesKeep
  BY <1>1, NotesRest DEF queueVars
<1>4. PollInv' /\ QueueInv'
  BY <1>1, <1>2, <1>3, PollsKeep, QueueRests DEF WatchInv, NotesKeep, queueVars, soqucoinVars
<1>5. poll[p] \in PollStates /\ SigPollOK(p)
  BY DEF WatchInv, PollInv
<1>6. /\ poll[p].next \in Nat /\ poll[p].to \in Nat /\ poll[p].last \in Nat
  BY <1>1, <1>5 DEF PollStates, Idle
<1>7. /\ poll[p].last <= poll[p].to /\ poll[p].to <= newest /\ SeenTo(poll[p].next - 1)
  BY <1>1, <1>5 DEF SigPollOK
<1>8. ChainTypes'
  BY <1>1, <1>6, <1>7 DEF WatchInv, ChainTypes, soqucoinVars, historyVars
<1>9. SeenTo(lastSignature)'
  <2>1. \A n \in 1 .. poll[p].last : n \in Nat /\ n \in 1 .. poll[p].next - 1
    BY <1>1, <1>6, <1>7
  <2> QED
    BY <1>1, <1>3, <1>7, <2>1 DEF SeenTo, NotesKeep
<1>10. Noted(lastBlockHeight)'
  BY <1>1, <1>3 DEF WatchInv, Noted, NotesKeep, soqucoinVars
<1> QED
  BY <1>4, <1>8, <1>9, <1>10 DEF WatchInv

LEMMA BlockPollBeginsKeeps ==
    ASSUME WatchInv, NEW p \in Polls, BlockPollBegins(p)
    PROVE  WatchInv'
<1>1. /\ tip \in Nat /\ lastBlockHeight \in 0 .. tip /\ tip > lastBlockHeight
      /\ Noted(lastBlockHeight)
      /\ Begins(p, "blocks", lastBlockHeight + 1, tip, tip)
      /\ UNCHANGED <<queueVars, solanaVars, soqucoinVars, historyVars>>
  BY DEF WatchInv, ChainTypes, BlockPollBegins
<1>2. /\ poll' \in [Polls -> PollStates]
      /\ \A q \in Polls : q # p => poll'[q] = poll[q]
      /\ poll'[p] = [of |-> "blocks", next |-> lastBlockHeight + 1, to |-> tip, last |-> tip]
  BY <1>1, PollBegins DEF WatchInv
<1>3. NotesKeep
  BY <1>1, NotesRest DEF queueVars
<1>4. BlockPollOK(p)'
  <2>1. Noted(lastBlockHeight)' /\ (lastBlockHeight + 1) - 1 = lastBlockHeight
    BY <1>1, <1>3 DEF Noted, NotesKeep, soqucoinVars
  <2> QED
    BY <1>1, <1>2, <2>1 DEF BlockPollOK, Noted, soqucoinVars
<1>5. SigPollOK(p)' /\ QueueInv'
  BY <1>1, <1>2, QueueRests DEF SigPollOK, WatchInv, queueVars
<1> QED
  BY <1>1, <1>2, <1>3, <1>4, <1>5, PollStepped DEF historyVars

(* Queued, or missed: the deposits of the block a poll stands at arrive.   *)
LEMMA BlockStepKeeps ==
    ASSUME WatchInv, NEW p \in Polls, Reads(p, "blocks"), Advances(p),
           \A d \in InBlock(poll[p].next) : Arrived(d)', NotesKeep, QueueInv',
           UNCHANGED <<solanaVars, soqucoinVars, older>>
    PROVE  WatchInv'
<1>1. /\ poll' \in [Polls -> PollStates]
      /\ \A q \in Polls : q # p => poll'[q] = poll[q]
      /\ poll[p].of = "blocks" /\ poll'[p].of = "blocks"
      /\ poll'[p].to = poll[p].to /\ poll'[p].last = poll[p].last
      /\ poll'[p].next = poll[p].next + 1 /\ poll[p].next <= poll[p].to
      /\ poll[p].next \in Nat /\ poll[p].to \in Nat
  BY PollAdvances DEF WatchInv
<1>2. BlockPollOK(p) /\ tip \in Nat /\ block \in [Deposits -> 0 .. tip] /\ block' = block /\ tip' = tip
  BY DEF WatchInv, PollInv, ChainTypes, soqucoinVars
<1>3. ASSUME NEW d \in Deposits, block[d] \in 1 .. poll[p].next PROVE Arrived(d)'
  <2>1. CASE block[d] = poll[p].next
    BY <2>1 DEF InBlock
  <2>2. CASE block[d] # poll[p].next
    <3>1. block[d] \in 1 .. poll[p].next - 1
      BY <1>1, <1>2, <1>3, <2>2
    <3> QED
      BY <1>1, <1>2, <3>1 DEF BlockPollOK, Noted, NotesKeep
  <2> QED
    BY <2>1, <2>2
<1>4. BlockPollOK(p)'
  <2>1. poll'[p].next - 1 = poll[p].next
    BY <1>1
  <2> QED
    BY <1>1, <1>2, <1>3, <2>1 DEF BlockPollOK, Noted
<1>5. SigPollOK(p)'
  BY <1>1 DEF SigPollOK
<1> QED
  BY <1>1, <1>4, <1>5, PollStepped

LEMMA BlockIsScannedKeeps ==
    ASSUME WatchInv, NEW p \in Polls, BlockIsScanned(p)
    PROVE  WatchInv'
<1>1. /\ Reads(p, "blocks") /\ Advances(p) /\ Enqueue(InBlock(poll[p].next))
      /\ UNCHANGED <<faults, solanaVars, soqucoinVars, historyVars>>
  BY DEF BlockIsScanned
<1>2. QueueInv' /\ ToSet(queue') = ToSet(queue) \cup InBlock(poll[p].next)
  <2>1. InBlock(poll[p].next) \in SUBSET Deposits
    BY DEF InBlock
  <2> QED
    BY <1>1, <2>1, EnqueueAppends DEF WatchInv
<1>3. (\A d \in InBlock(poll[p].next) : Arrived(d)') /\ NotesKeep
  BY <1>1, <1>2 DEF Arrived, NotesKeep, Seen, historyVars
<1> QED
  BY <1>1, <1>2, <1>3, BlockStepKeeps DEF historyVars

LEMMA ScanFailsKeeps ==
    ASSUME WatchInv, NEW p \in Polls, ScanFails(p)
    PROVE  WatchInv'
<1>1. /\ Reads(p, "blocks") /\ Advances(p) /\ missed' = missed \cup InBlock(poll[p].next)
      /\ UNCHANGED <<queue, processed, solanaVars, soqucoinVars, read, lost, older>>
  BY DEF ScanFails
<1>2. (\A d \in InBlock(poll[p].next) : Arrived(d)') /\ NotesKeep
  BY <1>1 DEF Arrived, NotesKeep, Seen
<1>3. QueueInv'
  BY <1>1, QueueRests DEF WatchInv
<1> QED
  BY <1>1, <1>2, <1>3, BlockStepKeeps

LEMMA BlockPollEndsKeeps ==
    ASSUME WatchInv, NEW p \in Polls, BlockPollEnds(p)
    PROVE  WatchInv'
<1>1. /\ poll[p].of = "blocks" /\ poll[p].next > poll[p].to
      /\ lastBlockHeight' = poll[p].last /\ Ends(p)
      /\ UNCHANGED <<queueVars, solanaVars, tip, block, historyVars>>
  BY DEF BlockPollEnds, Through
<1>2. /\ poll' \in [Polls -> PollStates]
      /\ \A q \in Polls : q # p => poll'[q] = poll[q]
      /\ SigPollOK(p)' /\ BlockPollOK(p)'
  BY <1>1, PollEnds DEF WatchInv
<1>3. NotesKeep
  BY <1>1, NotesRest DEF queueVars
<1>4. PollInv' /\ QueueInv'
  BY <1>1, <1>2, <1>3, PollsKeep, QueueRests DEF WatchInv, NotesKeep, queueVars, solanaVars
<1>5. poll[p] \in PollStates /\ BlockPollOK(p)
  BY DEF WatchInv, PollInv
<1>6. poll[p].next \in Nat /\ poll[p].to \in Nat
  BY <1>1, <1>5 DEF PollStates, Idle
<1>7. /\ poll[p].last = poll[p].to /\ poll[p].to <= tip /\ poll[p].next = poll[p].to + 1
      /\ Noted(poll[p].next - 1)
  BY <1>1, <1>5, <1>6 DEF BlockPollOK
<1>8. ChainTypes'
  BY <1>1, <1>6, <1>7 DEF WatchInv, ChainTypes, solanaVars, historyVars
<1>9. Noted(lastBlockHeight)'
  <2>1. poll[p].next - 1 = poll[p].last
    BY <1>6, <1>7
  <2> QED
    BY <1>1, <1>3, <1>7, <2>1 DEF Noted, NotesKeep
<1>10. SeenTo(lastSignature)'
  BY <1>1, <1>3 DEF WatchInv, ChainTypes, SeenTo, NotesKeep, solanaVars
<1> QED
  BY <1>4, <1>8, <1>9, <1>10 DEF WatchInv

-----------------------------------------------------------------------------
LEMMA WatchStarts == Init => WatchInv
<1> SUFFICES ASSUME Init PROVE WatchInv
  OBVIOUS
<1>1. QueueInv
  BY DEF Init, QueueInit, QueueInv, ToSet, IsInjective
<1>2. ChainTypes
  BY DEF Init, ChainTypes
<1>3. PollInv
  BY DEF Init, PollInv, PollStates, Idle, SigPollOK, BlockPollOK
<1>4. SeenTo(lastSignature) /\ Noted(lastBlockHeight)
  BY DEF Init, SeenTo, Noted
<1> QED
  BY <1>1, <1>2, <1>3, <1>4 DEF WatchInv

LEMMA WatchStep == WatchInv /\ [Next]_vars => WatchInv'
<1> SUFFICES ASSUME WatchInv, [Next]_vars PROVE WatchInv'
  OBVIOUS
<1>1. CASE Sign \/ Mine \/ Restart
  BY <1>1, SignKeeps, MineKeeps, RestartKeeps
<1>2. ASSUME NEW p \in Polls, SigPollBegins(p) \/ BlockPollBegins(p) \/ PollStep(p)
      PROVE  WatchInv'
  BY <1>2, SigPollBeginsKeeps, BlockPollBeginsKeeps, SigIsReadKeeps, FetchFailsKeeps,
     SigPollEndsKeeps, BlockIsScannedKeeps, ScanFailsKeeps, BlockPollEndsKeeps DEF PollStep
<1>3. CASE UNCHANGED vars
  BY <1>3 DEF vars, queueVars, solanaVars, soqucoinVars, historyVars, WatchInv, QueueInv,
              ChainTypes, PollInv, SigPollOK, BlockPollOK, SeenTo, Noted, Seen, Arrived
<1> QED
  BY <1>1, <1>2, <1>3 DEF Next

(* Wherever the overlapping polls of a watcher stand, everything behind    *)
(* them is noted, and the queue holds a source once (queue.ts:66,          *)
(* solana.ts:81, soqucoin.ts:73).                                          *)
THEOREM WatchInvHolds == Spec => []WatchInv
<1>1. Init => WatchInv
  BY WatchStarts
<1>2. WatchInv /\ [Next]_vars => WatchInv'
  BY WatchStep
<1> QED
  BY <1>1, <1>2, PTL DEF Spec

(* A vault deposit at or below the watcher's height is queued, once,       *)
(* unless its block could not be read or is older than the process: though *)
(* overlapping polls set the height back, none sets it past what it read   *)
(* (soqucoin.ts:84).                                                       *)
THEOREM PassedAreQueued == Spec => []PassedIsQueued
<1>1. WatchInv => PassedIsQueued
  BY DEF WatchInv, QueueInv, Noted, PassedIsQueued
<1> QED
  BY <1>1, WatchInvHolds, PTL

(* Every signature at or below the last one was read by the process,       *)
(* unless the limit cut it, its request failed, or it is older: though     *)
(* each poll sets the last signature to the oldest of its batch            *)
(* (solana.ts:100).                                                        *)
THEOREM PassedAreRead == Spec => []PassedIsRead
<1>1. WatchInv => PassedIsRead
  BY DEF WatchInv, SeenTo, PassedIsRead
<1> QED
  BY <1>1, WatchInvHolds, PTL
====
