---- MODULE BurnReleaseOnce ----
(***************************************************************************)
(* No burn is paid twice without a doubt, and the router's records tell    *)
(* what was paid, for any burns, polls, pages, webhooks and policies, and  *)
(* any number of crashes and failures.                                     *)
(*                                                                         *)
(* A release holds at most one right to pay: a request the lanes have not  *)
(* served, or a direct send that is due.  A right given up without being   *)
(* known to be void is a doubt.                                            *)
(***************************************************************************)
EXTENDS BurnRelease, SequenceTheorems, FunctionTheorems, FiniteSetTheorems, TLAPS

Connections == [burn : Burns, live : BOOLEAN]
Servings == [burn : Burns, live : BOOLEAN, paid : BOOLEAN]

(* Requests for b in a queue, and whether the server will still pay b.     *)
Places(w, b) == {i \in 1 .. Len(w) : w[i].burn = b}
Count(w, b) == Cardinality(Places(w, b))
Unpaid(b) == IF serving # NoRequest /\ serving.burn = b /\ ~serving.paid THEN 1 ELSE 0
SendDue(b) == IF leg[b] = "direct" THEN 1 ELSE 0

(* A burn that was seen may be paid; an error of the lanes voids its       *)
(* request until the direct send takes its place, and a record that is     *)
(* pending says that it was not paid.                                      *)
IsPending(b) == releases[b] # NoRecord /\ releases[b].method = "pending"
Allowance(b) ==
    IF b \in seen /\ ~(leg[b] = "paul" /\ call[b] = "error") /\ ~IsPending(b) THEN 1 ELSE 0

Types ==
    /\ call \in [Burns -> {"idle", "asked", "ok", "error"}]
    /\ waiting \in Seq(Connections)
    /\ serving # NoRequest => serving \in Servings
    /\ paul \in [Burns -> Nat]
    /\ direct \in [Burns -> Nat]
    /\ doubts \in [Burns -> Nat]
    /\ leg \in [Burns -> {"none", "paul", "direct"}]

LegsSeen == \A b \in Burns : leg[b] # "none" => b \in seen

(* Who waits is heard: its request is in the queue, or served.             *)
Queued(w, b) == \E i \in 1 .. Len(w) : w[i].burn = b /\ w[i].live
Heard ==
    \A b \in Burns : call[b] = "asked" =>
        Queued(waiting, b) \/ (serving # NoRequest /\ serving.burn = b /\ serving.live)

Rights(b) == Count(waiting, b) + Unpaid(b) + SendDue(b)

WithinDoubts == \A b \in Burns : Paid(b) + Rights(b) <= doubts[b] + Allowance(b)

ReleaseInv == Types /\ LegsSeen /\ Heard /\ WithinDoubts

(* What was seen has either its record or a handler that is not back yet;  *)
(* adapter and webhook hand over final burns only.                         *)
Records == [method : {"pending", "paul", "direct"}, level : {3}]

RecordInv ==
    /\ releases \in [Burns -> Records \cup {NoRecord}]
    /\ strategies \in [Burns -> SUBSET Levels]
    /\ seen \subseteq Burns
    /\ IsFiniteSet(seen)
    /\ \A b \in Burns :
         /\ b \in seen <=> releases[b] # NoRecord \/ ~Handled(b)
         /\ releases[b] = NoRecord \/ Handled(b)
         /\ leg[b] = "none" \/ strategies[b] = {}

(* An ok of the lanes, and a record that names a method, tell of a payment.*)
TellsInv ==
    /\ serving # NoRequest /\ serving.paid => paul[serving.burn] > 0
    /\ \A b \in Burns :
         /\ call[b] = "ok" => paul[b] > 0
         /\ releases[b] # NoRecord =>
              /\ releases[b].method = "paul" => paul[b] > 0
              /\ releases[b].method = "direct" => direct[b] > 0

(* What a poll hands over are burns.                                       *)
HandsBurns ==
    /\ DOMAIN polls = Polls
    /\ \A p \in Polls : polls[p].at = "handing" =>
         /\ polls[p] = [at |-> "handing", on |-> polls[p].on, todo |-> polls[p].todo]
         /\ polls[p].todo \subseteq Burns

releaseVars == <<paulVars, seen, releases, leg, strategies, direct, doubts>>

-----------------------------------------------------------------------------
(* Counting requests in a queue.                                           *)

LEMMA CountIsNat ==
    ASSUME NEW w \in Seq(Connections), NEW b
    PROVE  /\ IsFiniteSet(Places(w, b))
           /\ Count(w, b) \in Nat
<1>1. IsFiniteSet(1 .. Len(w))
  BY FS_Interval
<1>2. Places(w, b) \in SUBSET (1 .. Len(w))
  BY DEF Places
<1>3. IsFiniteSet(Places(w, b))
  BY <1>1, <1>2, FS_Subset
<1>4. QED
  BY <1>3, FS_CardinalityType DEF Count

LEMMA CountOfNone ==
    ASSUME NEW b
    PROVE  Count(<<>>, b) = 0
<1>1. Places(<<>>, b) = {}
  BY DEF Places
<1>2. QED
  BY <1>1, FS_EmptySet DEF Count

(* Who is queued is counted.                                               *)
LEMMA QueuedIsCounted ==
    ASSUME NEW w \in Seq(Connections), NEW b, Queued(w, b)
    PROVE  Count(w, b) >= 1
<1>1. Places(w, b) # {}
  BY DEF Queued, Places
<1>2. Count(w, b) # 0
  BY <1>1, CountIsNat, FS_EmptySet DEF Count
<1>3. QED
  BY <1>2, CountIsNat

LEMMA CountOfAppend ==
    ASSUME NEW w \in Seq(Connections), NEW r \in Connections, NEW b
    PROVE  Count(Append(w, r), b) <= Count(w, b) + (IF r.burn = b THEN 1 ELSE 0)
<1> DEFINE v == Append(w, r)
<1>1. /\ v \in Seq(Connections)
      /\ Len(v) = Len(w) + 1
      /\ \A i \in 1 .. Len(w) : v[i] = w[i]
      /\ v[Len(w) + 1] = r
      /\ Len(w) \in Nat
  BY AppendProperties
<1> HIDE DEF v
<1>2. CASE r.burn = b
  <2>1. Places(v, b) = Places(w, b) \cup {Len(w) + 1}
    BY <1>1, <1>2 DEF Places
  <2>2. Len(w) + 1 \notin Places(w, b)
    BY <1>1 DEF Places
  <2>3. Cardinality(Places(v, b)) = Cardinality(Places(w, b)) + 1
    BY <2>1, <2>2, CountIsNat, FS_AddElement
  <2>4. QED
    BY <1>2, <2>3, CountIsNat DEF v, Count
<1>3. CASE r.burn # b
  <2>1. Places(v, b) = Places(w, b)
    BY <1>1, <1>3 DEF Places
  <2>2. QED
    BY <1>3, <2>1, CountIsNat DEF v, Count
<1>4. QED
  BY <1>2, <1>3

(* The head leaves, the others move up.                                    *)
LEMMA CountOfTail ==
    ASSUME NEW w \in Seq(Connections), w # <<>>, NEW b
    PROVE  Count(Tail(w), b) + (IF Head(w).burn = b THEN 1 ELSE 0) = Count(w, b)
<1> DEFINE v == Tail(w)
           rest == Places(w, b) \ {1}
           next == [i \in Places(v, b) |-> i + 1]
<1>1. /\ v \in Seq(Connections)
      /\ Len(v) = Len(w) - 1
      /\ \A i \in 1 .. Len(v) : v[i] = w[i + 1]
      /\ Head(w) = w[1]
      /\ Len(w) \in Nat \ {0}
  BY HeadTailProperties, EmptySeq
<1> HIDE DEF v
<1>2. next \in [Places(v, b) -> rest]
  <2>1. \A i \in Places(v, b) : i + 1 \in rest
    BY <1>1 DEF Places
  <2>2. QED
    BY <2>1
<1>3. \A i, j \in Places(v, b) : next[i] = next[j] => i = j
  BY <1>1 DEF Places
<1>4. \A k \in rest : \E i \in Places(v, b) : next[i] = k
  <2>1. \A k \in rest : k - 1 \in Places(v, b) /\ next[k - 1] = k
    BY <1>1 DEF Places
  <2>2. QED
    BY <2>1
<1>5. next \in Bijection(Places(v, b), rest)
  <2> HIDE DEF next, rest
  <2>1. QED
    BY <1>2, <1>3, <1>4, Fun_IsBij
<1>6. ExistsBijection(Places(v, b), rest)
  BY <1>5, Fun_ExistsBij
<1>7. IsFiniteSet(Places(v, b))
  BY <1>1, CountIsNat
<1>8. Cardinality(rest) = Cardinality(Places(v, b))
  <2> HIDE DEF rest
  <2>1. QED
    BY <1>6, <1>7, FS_Bijection
<1>9. Cardinality(rest) = IF 1 \in Places(w, b) THEN Cardinality(Places(w, b)) - 1
                          ELSE Cardinality(Places(w, b))
  BY CountIsNat, FS_RemoveElement
<1>10. 1 \in Places(w, b) <=> Head(w).burn = b
  BY <1>1 DEF Places
<1>11. Count(w, b) \in Nat
  BY CountIsNat
<1>12. QED
  BY <1>8, <1>9, <1>10, <1>11 DEF Count, v

(* Hanging up moves nobody.                                                *)
LEMMA CountIsKept ==
    ASSUME NEW w \in Seq(Connections), NEW v \in Seq(Connections), Len(v) = Len(w),
           \A i \in 1 .. Len(w) : v[i].burn = w[i].burn, NEW b
    PROVE  Count(v, b) = Count(w, b)
BY DEF Count, Places

-----------------------------------------------------------------------------
(* What leaves the lanes and the legs alone.                               *)

LEMMA RightsAreNat ==
    ASSUME Types, NEW b \in Burns
    PROVE  /\ Count(waiting, b) \in Nat
           /\ Unpaid(b) \in 0 .. 1
           /\ SendDue(b) \in 0 .. 1
           /\ Allowance(b) \in 0 .. 1
           /\ paul[b] \in Nat /\ direct[b] \in Nat /\ doubts[b] \in Nat
BY CountIsNat DEF Types, Unpaid, SendDue, Allowance

LEMMA SeenGrows ==
    ASSUME ReleaseInv, seen \subseteq seen', UNCHANGED <<paulVars, leg, direct, doubts>>,
           \A b \in Burns : IsPending(b)' => IsPending(b) \/ b \notin seen
    PROVE  ReleaseInv'
<1>1. Types' /\ LegsSeen' /\ Heard'
  BY DEF ReleaseInv, Types, LegsSeen, Heard, Queued, paulVars
<1>2. ASSUME NEW b \in Burns
      PROVE  Paid(b)' + Rights(b)' <= doubts'[b] + Allowance(b)'
  <2>1. /\ Paid(b)' = Paid(b)
        /\ Rights(b)' = Rights(b)
        /\ doubts'[b] = doubts[b]
    BY DEF Paid, Rights, Count, Places, Unpaid, SendDue, paulVars
  <2>2. Allowance(b) <= Allowance(b)'
    BY DEF Allowance, paulVars
  <2>3. Paid(b) \in Nat /\ Rights(b) \in Nat /\ doubts[b] \in Nat
        /\ Allowance(b) \in Nat /\ Allowance(b)' \in Nat
    BY RightsAreNat DEF ReleaseInv, Paid, Rights, Allowance
  <2>4. Paid(b) + Rights(b) <= doubts[b] + Allowance(b)
    BY DEF ReleaseInv, WithinDoubts
  <2>5. QED
    BY <2>1, <2>2, <2>3, <2>4
<1>3. QED
  BY <1>1, <1>2 DEF ReleaseInv, WithinDoubts

(* A new burn asks the lanes: the one right to pay it.                     *)
LEMMA BegunByLanes ==
    ASSUME ReleaseInv, NEW b \in Burns, Ask(b), b \notin seen, seen' = seen \cup {b},
           leg[b] = "none", leg' = [leg EXCEPT ![b] = "paul"], releases[b] = NoRecord,
           UNCHANGED <<direct, doubts, releases>>
    PROVE  ReleaseInv'
<1> USE DEF ReleaseInv
<1>1. Request(b) \in Connections
  BY DEF Request, Connections
<1>2. CASE call' = [call EXCEPT ![b] = "asked"] /\ waiting' = Append(waiting, Request(b))
  <2>1. /\ waiting' \in Seq(Connections)
        /\ Len(waiting') = Len(waiting) + 1
        /\ \A i \in 1 .. Len(waiting) : waiting'[i] = waiting[i]
        /\ waiting'[Len(waiting) + 1] = Request(b)
        /\ Len(waiting) \in Nat
    BY <1>1, <1>2, AppendProperties DEF Types
  <2>2. UNCHANGED <<serving, paul>>
    BY DEF Ask
  <2>3. Types'
    BY <1>2, <2>1, <2>2 DEF Types
  <2>4. LegsSeen'
    BY DEF LegsSeen, Types
  <2>5. Heard'
    <3>1. ASSUME NEW c \in Burns, call'[c] = "asked"
          PROVE  Queued(waiting', c) \/ (serving' # NoRequest /\ serving'.burn = c /\ serving'.live)
      <4>1. CASE c = b
        BY <2>1, <4>1 DEF Queued, Request
      <4>2. CASE c # b
        <5>1. call[c] = "asked"
          BY <1>2, <3>1, <4>2 DEF Types
        <5>2. QED
          BY <2>1, <2>2, <5>1 DEF Heard, Queued
      <4>3. QED
        BY <4>1, <4>2
    <3>2. QED
      BY <3>1 DEF Heard
  <2>6. ASSUME NEW c \in Burns
        PROVE  Paid(c)' + Rights(c)' <= doubts'[c] + Allowance(c)'
    <3>1. Count(waiting', c) <= Count(waiting, c) + (IF b = c THEN 1 ELSE 0)
      <4>1. Count(Append(waiting, Request(b)), c)
              <= Count(waiting, c) + (IF Request(b).burn = c THEN 1 ELSE 0)
        BY <1>1, CountOfAppend DEF Types
      <4>2. QED
        BY <1>2, <4>1 DEF Request
    <3>2. /\ paul'[c] = paul[c] /\ direct'[c] = direct[c] /\ doubts'[c] = doubts[c]
          /\ Unpaid(c)' = Unpaid(c)
      BY <2>2 DEF Unpaid
    <3>3. SendDue(c)' <= SendDue(c)
      BY DEF SendDue, Types
    <3>4. Allowance(c)' = IF c = b THEN 1 ELSE Allowance(c)
      BY <1>2 DEF Allowance, IsPending, Types
    <3>5. c = b => Allowance(c) = 0
      BY DEF Allowance
    <3>6. Paid(c) + Rights(c) <= doubts[c] + Allowance(c)
      BY DEF WithinDoubts
    <3>7. Count(waiting', c) \in Nat
      BY <2>1, CountIsNat
    <3>8. SendDue(c)' \in 0 .. 1
      BY DEF SendDue
    <3>9. QED
      BY <3>1, <3>2, <3>3, <3>4, <3>5, <3>6, <3>7, <3>8, RightsAreNat DEF Paid, Rights
  <2>7. QED
    BY <2>3, <2>4, <2>5, <2>6 DEF WithinDoubts
<1>3. CASE call' = [call EXCEPT ![b] = "error"] /\ UNCHANGED waiting
  <2>1. UNCHANGED <<serving, paul>>
    BY DEF Ask
  <2>2. Types' /\ LegsSeen'
    BY <1>3, <2>1 DEF Types, LegsSeen
  <2>3. Heard'
    BY <1>3, <2>1 DEF Heard, Types
  <2>4. ASSUME NEW c \in Burns
        PROVE  Paid(c)' + Rights(c)' <= doubts'[c] + Allowance(c)'
    <3>1. /\ paul'[c] = paul[c] /\ direct'[c] = direct[c] /\ doubts'[c] = doubts[c]
          /\ Unpaid(c)' = Unpaid(c)
          /\ Count(waiting', c) = Count(waiting, c)
      BY <1>3, <2>1 DEF Unpaid
    <3>2. SendDue(c)' = SendDue(c)
      BY DEF SendDue, Types
    <3>3. Allowance(c)' >= Allowance(c)
      BY <1>3 DEF Allowance, IsPending, Types
    <3>4. Paid(c) + Rights(c) <= doubts[c] + Allowance(c)
      BY DEF WithinDoubts
    <3>5. Allowance(c)' \in 0 .. 1
      BY DEF Allowance
    <3>6. QED
      BY <3>1, <3>2, <3>3, <3>4, <3>5, RightsAreNat DEF Paid, Rights
  <2>5. QED
    BY <2>2, <2>3, <2>4 DEF WithinDoubts
<1>4. QED
  BY <1>2, <1>3 DEF Ask

LEMMA BurnIsHandled ==
    ASSUME ReleaseInv, RecordInv, NEW b \in Burns, NEW l \in Levels, OnBurnDetected(b, l)
    PROVE  ReleaseInv'
<1>1. CASE Repeated(b, l)
  BY <1>1, SeenGrows DEF Repeated, routerVars, IsPending
<1>2. CASE Upgraded(b, l)
  <2>1. PICK r \in Records :
          releases[b] = r /\ releases' = [releases EXCEPT ![b] = [r EXCEPT !.level = l]]
    BY <1>2 DEF Upgraded, RecordInv
  <2>2. \A c \in Burns : IsPending(c)' => IsPending(c)
    <3>1. r # NoRecord
      BY <1>2, <2>1 DEF Upgraded
    <3>2. [r EXCEPT !.level = l].method = r.method
      BY DEF Records
    <3>3. \A c \in Burns : releases'[c] = IF c = b THEN [r EXCEPT !.level = l] ELSE releases[c]
      BY <2>1 DEF RecordInv
    <3>4. QED
      BY <2>1, <3>1, <3>2, <3>3 DEF IsPending
  <2>3. QED
    BY <1>2, <2>2, SeenGrows DEF Upgraded
<1>3. CASE Pended(b, l)
  <2>1. \A c \in Burns : c # b => releases'[c] = releases[c]
    BY <1>3 DEF Pended, RecordInv
  <2>2. QED
    BY <1>3, <2>1, SeenGrows DEF Pended, IsPending
<1>4. CASE Begun(b, l)
  <2>1. CASE HasStrategy
    BY <1>4, <2>1, SeenGrows DEF Begun, Mark, IsPending
  <2>2. CASE ~HasStrategy
    BY <1>4, <2>2, BegunByLanes DEF Begun, Mark, Handled, RecordInv
  <2>3. QED
    BY <2>1, <2>2
<1>5. QED
  BY <1>1, <1>2, <1>3, <1>4 DEF OnBurnDetected

-----------------------------------------------------------------------------
(* The router's steps.                                                     *)

(* A leg ends, or goes on to the direct send, with the right it has.       *)
LEMMA LegMoves ==
    ASSUME ReleaseInv, NEW b \in Burns, NEW to \in {"none", "direct"},
           leg[b] # "none", leg' = [leg EXCEPT ![b] = to],
           call' \in [Burns -> {"idle", "asked", "ok", "error"}],
           \A c \in Burns : c # b => call'[c] = call[c],
           call'[b] = "asked" => call[b] = "asked",
           direct' \in [Burns -> Nat], doubts' \in [Burns -> Nat],
           \A c \in Burns : c # b => direct'[c] = direct[c] /\ doubts'[c] = doubts[c],
           \A c \in Burns : c # b => releases'[c] = releases[c],
           UNCHANGED <<waiting, serving, paul, seen>>,
           direct'[b] + SendDue(b)' + doubts[b] + Allowance(b)
             <= direct[b] + SendDue(b) + doubts'[b] + Allowance(b)'
    PROVE  ReleaseInv'
<1> USE DEF ReleaseInv
<1>1. Types' /\ LegsSeen'
  BY DEF Types, LegsSeen
<1>2. Heard'
  BY DEF Heard
<1>3. ASSUME NEW c \in Burns
      PROVE  Paid(c)' + Rights(c)' <= doubts'[c] + Allowance(c)'
  <2>1. /\ paul'[c] = paul[c]
        /\ Unpaid(c)' = Unpaid(c)
        /\ Count(waiting', c) = Count(waiting, c)
    BY DEF Unpaid
  <2>2. Paid(c) + Rights(c) <= doubts[c] + Allowance(c)
    BY DEF WithinDoubts
  <2>3. SendDue(c)' \in 0 .. 1 /\ direct'[c] \in Nat /\ doubts'[c] \in Nat
    BY <1>1 DEF SendDue, Types
  <2>4. CASE c = b
    <3>1. Allowance(c)' \in 0 .. 1
      BY DEF Allowance
    <3>2. QED
      BY <2>1, <2>2, <2>3, <2>4, <3>1, RightsAreNat DEF Paid, Rights
  <2>5. CASE c # b
    <3>1. SendDue(c)' = SendDue(c) /\ Allowance(c)' = Allowance(c)
      BY <2>5 DEF SendDue, Allowance, IsPending, Types
    <3>2. QED
      BY <2>1, <2>2, <2>5, <3>1, RightsAreNat DEF Paid, Rights
  <2>6. QED
    BY <2>4, <2>5
<1>4. QED
  BY <1>1, <1>2, <1>3 DEF WithinDoubts

LEMMA DirectEnds ==
    ASSUME ReleaseInv, RecordInv, NEW b \in Burns,
           DirectReleased(b) \/ DirectRefused(b) \/ DirectLost(b)
    PROVE  ReleaseInv'
<1>1. /\ leg[b] = "direct"
      /\ leg' = [leg EXCEPT ![b] = "none"]
      /\ UNCHANGED <<waiting, serving, paul, seen, call>>
  BY DEF DirectReleased, DirectRefused, DirectLost, Push, paulVars
<1>2. /\ direct \in [Burns -> Nat] /\ doubts \in [Burns -> Nat]
      /\ direct[b] \in Nat /\ doubts[b] \in Nat
  BY DEF ReleaseInv, Types
<1>3. PICK sent \in {0, 1}, lost \in {0, 1}, m \in {"direct", "pending"} :
        /\ direct' = [direct EXCEPT ![b] = @ + sent]
        /\ doubts' = [doubts EXCEPT ![b] = @ + lost]
        /\ releases' = [releases EXCEPT ![b] = Record(3, m)]
        /\ m = "pending" => sent <= lost
  <2>1. CASE DirectReleased(b)
    <3>1. direct' = [direct EXCEPT ![b] = @ + 1] /\ doubts' = [doubts EXCEPT ![b] = @ + 0]
      BY <1>2, <2>1 DEF DirectReleased
    <3>2. releases' = [releases EXCEPT ![b] = Record(3, "direct")]
      BY <2>1 DEF DirectReleased, Push
    <3>3. QED
      BY <3>1, <3>2
  <2>2. CASE DirectRefused(b)
    <3>1. direct' = [direct EXCEPT ![b] = @ + 0] /\ doubts' = [doubts EXCEPT ![b] = @ + 0]
      BY <1>2, <2>2 DEF DirectRefused
    <3>2. releases' = [releases EXCEPT ![b] = Record(3, "pending")]
      BY <2>2 DEF DirectRefused, Push
    <3>3. QED
      BY <3>1, <3>2
  <2>3. CASE DirectLost(b)
    <3>1. PICK sent \in {0, 1} : direct' = [direct EXCEPT ![b] = @ + sent]
      BY <2>3 DEF DirectLost
    <3>2. doubts' = [doubts EXCEPT ![b] = @ + 1]
          /\ releases' = [releases EXCEPT ![b] = Record(3, "pending")]
      BY <2>3 DEF DirectLost, Push
    <3>3. sent <= 1
      BY <3>1
    <3>4. QED
      BY <3>1, <3>2, <3>3
  <2>4. QED
    BY <2>1, <2>2, <2>3
<1>4. /\ direct' \in [Burns -> Nat]
      /\ doubts' \in [Burns -> Nat]
      /\ \A c \in Burns : c # b => direct'[c] = direct[c] /\ doubts'[c] = doubts[c]
      /\ direct'[b] = direct[b] + sent
      /\ doubts'[b] = doubts[b] + lost
  BY <1>2, <1>3
<1>5. SendDue(b) = 1 /\ SendDue(b)' = 0
  BY <1>1 DEF SendDue, ReleaseInv, Types
<1>6. /\ \A c \in Burns : c # b => releases'[c] = releases[c]
      /\ releases'[b] = Record(3, m)
  BY <1>3 DEF RecordInv
<1>7. Allowance(b) \in 0 .. 1 /\ Allowance(b)' \in 0 .. 1
  BY DEF Allowance
<1>8. m = "direct" => Allowance(b)' = 1
  BY <1>1, <1>6 DEF Allowance, IsPending, Record, ReleaseInv, Types, LegsSeen
<1>9. direct'[b] + SendDue(b)' + doubts[b] + Allowance(b)
        <= direct[b] + SendDue(b) + doubts'[b] + Allowance(b)'
  BY <1>2, <1>3, <1>4, <1>5, <1>7, <1>8
<1>10. QED
  BY <1>1, <1>4, <1>6, <1>9, LegMoves DEF ReleaseInv, Types

LEMMA PaulEnds ==
    ASSUME ReleaseInv, RecordInv, NEW b \in Burns, PaulReleased(b) \/ PaulFailed(b)
    PROVE  ReleaseInv'
<1>1. /\ leg[b] = "paul"
      /\ call' = [call EXCEPT ![b] = "idle"]
      /\ UNCHANGED <<waiting, serving, paul, seen, direct, doubts>>
  BY DEF PaulReleased, PaulFailed, FallBack, Collect
<1>2. /\ call' \in [Burns -> {"idle", "asked", "ok", "error"}]
      /\ \A c \in Burns : c # b => call'[c] = call[c]
      /\ call'[b] = "idle"
      /\ direct' \in [Burns -> Nat] /\ doubts' \in [Burns -> Nat]
  BY <1>1 DEF ReleaseInv, Types
<1>3. CASE PaulReleased(b)
  <2>1. leg' = [leg EXCEPT ![b] = "none"]
    BY <1>3 DEF PaulReleased, Push
  <2>2. SendDue(b)' = 0 /\ SendDue(b) = 0 /\ Allowance(b) \in 0 .. 1
    BY <1>1, <2>1 DEF SendDue, Allowance, ReleaseInv, Types
  <2>3. /\ \A c \in Burns : c # b => releases'[c] = releases[c]
        /\ releases'[b] = Record(3, "paul")
    BY <1>3 DEF PaulReleased, Push, RecordInv
  <2>4. Allowance(b)' = 1
    BY <1>1, <2>1, <2>3 DEF Allowance, IsPending, Record, ReleaseInv, Types, LegsSeen
  <2>5. direct'[b] + SendDue(b)' + doubts[b] + Allowance(b)
          <= direct[b] + SendDue(b) + doubts'[b] + Allowance(b)'
    BY <1>1, <2>2, <2>4, RightsAreNat DEF ReleaseInv
  <2>6. QED
    BY <1>1, <1>2, <2>1, <2>3, <2>5, LegMoves
<1>4. CASE PaulFailed(b)
  <2>1. leg' = [leg EXCEPT ![b] = "direct"]
    BY <1>4 DEF PaulFailed, FallBack
  <2>2. SendDue(b)' = 1 /\ SendDue(b) = 0 /\ Allowance(b) = 0
    BY <1>1, <1>4, <2>1 DEF SendDue, Allowance, PaulFailed, ReleaseInv, Types
  <2>3. UNCHANGED releases
    BY <1>4 DEF PaulFailed, FallBack
  <2>4. Allowance(b)' = 1
    BY <1>1, <1>2, <2>3 DEF Allowance, IsPending, RecordInv, Handled, ReleaseInv, LegsSeen
  <2>5. direct'[b] + SendDue(b)' + doubts[b] + Allowance(b)
          <= direct[b] + SendDue(b) + doubts'[b] + Allowance(b)'
    BY <1>1, <2>2, <2>4, RightsAreNat DEF ReleaseInv
  <2>6. QED
    BY <1>1, <1>2, <2>1, <2>3, <2>5, LegMoves
<1>5. QED
  BY <1>3, <1>4

(* Whose caller stopped waiting is served all the same.                    *)
LEMMA HangUpKeeps ==
    ASSUME Types, Heard, NEW H \in SUBSET Burns, HangUp(H)
    PROVE  /\ waiting' \in Seq(Connections)
           /\ serving' # NoRequest => serving' \in Servings
           /\ call' \in [Burns -> {"idle", "asked", "ok", "error"}]
           /\ \A b \in Burns : call'[b] = IF b \in H THEN "idle" ELSE call[b]
           /\ \A b \in Burns : Count(waiting', b) = Count(waiting, b)
           /\ \A b \in Burns : Unpaid(b)' = Unpaid(b)
           /\ Heard'
<1>1. /\ waiting \in Seq(Connections)
      /\ Len(waiting) \in Nat
      /\ DOMAIN waiting = 1 .. Len(waiting)
      /\ \A i \in 1 .. Len(waiting) : waiting[i] \in Connections
  BY ElementOfSeq, LenProperties DEF Types
<1>2. \A i \in 1 .. Len(waiting) :
        [waiting[i] EXCEPT !.live = @ /\ waiting[i].burn \notin H] \in Connections
  <2>1. SUFFICES ASSUME NEW i \in 1 .. Len(waiting)
                 PROVE  [waiting[i] EXCEPT !.live = @ /\ waiting[i].burn \notin H] \in Connections
    OBVIOUS
  <2>2. PICK heard \in BOOLEAN : heard = (waiting[i].live /\ waiting[i].burn \notin H)
    OBVIOUS
  <2>3. [waiting[i] EXCEPT !.live = heard] \in Connections
    BY <1>1 DEF Connections
  <2>4. QED
    BY <2>2, <2>3
<1>3. waiting' = [i \in 1 .. Len(waiting) |->
                    [waiting[i] EXCEPT !.live = @ /\ waiting[i].burn \notin H]]
  BY <1>1 DEF HangUp
<1>4. waiting' \in Seq(Connections)
  BY <1>1, <1>2, <1>3, SeqDef
<1>5. Len(waiting') = Len(waiting)
  BY <1>1, <1>3, <1>4
<1>6. \A i \in 1 .. Len(waiting) :
        /\ waiting'[i].burn = waiting[i].burn
        /\ waiting[i].burn \notin H => waiting'[i].live = waiting[i].live
  <2>1. SUFFICES ASSUME NEW i \in 1 .. Len(waiting)
                 PROVE  /\ waiting'[i].burn = waiting[i].burn
                        /\ waiting[i].burn \notin H => waiting'[i].live = waiting[i].live
    OBVIOUS
  <2>2. PICK heard \in BOOLEAN : heard = (waiting[i].live /\ waiting[i].burn \notin H)
    OBVIOUS
  <2>3. waiting'[i] = [waiting[i] EXCEPT !.live = heard]
    BY <1>3, <2>2
  <2>4. waiting[i].live \in BOOLEAN
    BY <1>1 DEF Connections
  <2>5. waiting[i].burn \notin H => heard = waiting[i].live
    BY <2>2, <2>4
  <2>6. QED
    BY <1>1, <2>3, <2>5 DEF Connections
<1>7. \A b \in Burns : Count(waiting', b) = Count(waiting, b)
  BY <1>1, <1>4, <1>5, <1>6, CountIsKept
<1>8. /\ call' \in [Burns -> {"idle", "asked", "ok", "error"}]
      /\ \A b \in Burns : call'[b] = IF b \in H THEN "idle" ELSE call[b]
  BY DEF HangUp, Types
<1>9. CASE serving = NoRequest
  <2>1. serving' = NoRequest
    BY <1>9 DEF HangUp
  <2>2. Heard'
    BY <1>5, <1>6, <1>8, <1>9, <2>1 DEF Heard, Queued
  <2>3. QED
    BY <1>4, <1>7, <1>8, <1>9, <2>1, <2>2 DEF Unpaid
<1>10. CASE serving # NoRequest
  <2>1. PICK heard \in BOOLEAN : heard = (serving.live /\ serving.burn \notin H)
    OBVIOUS
  <2>2. serving' = [serving EXCEPT !.live = heard]
    BY <1>10, <2>1 DEF HangUp
  <2>3. serving \in Servings /\ serving' \in Servings
    BY <1>10, <2>2 DEF Types, Servings
  <2>4. serving' # NoRequest
    BY <2>3, PaulAssumption DEF Servings
  <2>5. serving'.burn = serving.burn /\ serving'.paid = serving.paid
    BY <2>2, <2>3 DEF Servings
  <2>6. serving.burn \notin H => serving'.live = serving.live
    BY <2>1, <2>2, <2>3 DEF Servings
  <2>7. Heard'
    <3>1. ASSUME NEW b \in Burns, call'[b] = "asked"
          PROVE  Queued(waiting', b) \/ (serving' # NoRequest /\ serving'.burn = b /\ serving'.live)
      <4>1. b \notin H /\ call[b] = "asked"
        BY <1>8, <3>1
      <4>2. CASE Queued(waiting, b)
        BY <1>5, <1>6, <4>1, <4>2 DEF Queued
      <4>3. CASE serving.burn = b /\ serving.live
        BY <2>4, <2>5, <2>6, <4>1, <4>3
      <4>4. QED
        BY <4>1, <4>2, <4>3 DEF Heard
    <3>2. QED
      BY <3>1 DEF Heard
  <2>8. \A b \in Burns : Unpaid(b)' = Unpaid(b)
    BY <1>10, <2>4, <2>5 DEF Unpaid
  <2>9. QED
    BY <1>4, <1>7, <1>8, <2>3, <2>7, <2>8
<1>11. QED
  BY <1>9, <1>10

(* The abort gives a right up and makes a new one: a doubt.                *)
LEMMA AbortDoubts ==
    ASSUME ReleaseInv, NEW b \in Burns, PaulAborted(b)
    PROVE  ReleaseInv'
<1> USE DEF ReleaseInv
<1>1. /\ call[b] = "asked"
      /\ leg[b] = "paul"
      /\ HangUp({b})
      /\ leg' = [leg EXCEPT ![b] = "direct"]
      /\ doubts' = [doubts EXCEPT ![b] = @ + 1]
      /\ UNCHANGED <<seen, direct, paul, releases>>
  BY DEF PaulAborted, FallBack, HangUp
<1>2. /\ waiting' \in Seq(Connections)
      /\ serving' # NoRequest => serving' \in Servings
      /\ call' \in [Burns -> {"idle", "asked", "ok", "error"}]
      /\ \A c \in Burns : call'[c] = IF c \in {b} THEN "idle" ELSE call[c]
      /\ \A c \in Burns : Count(waiting', c) = Count(waiting, c)
      /\ \A c \in Burns : Unpaid(c)' = Unpaid(c)
      /\ Heard'
  BY <1>1, HangUpKeeps
<1>3. Types' /\ LegsSeen'
  <2>1. doubts' \in [Burns -> Nat] /\ leg' \in [Burns -> {"none", "paul", "direct"}]
    BY <1>1 DEF Types
  <2>2. Types'
    BY <1>1, <1>2, <2>1 DEF Types
  <2>3. LegsSeen'
    BY <1>1 DEF LegsSeen, Types
  <2>4. QED
    BY <2>2, <2>3
<1>4. ASSUME NEW c \in Burns
      PROVE  Paid(c)' + Rights(c)' <= doubts'[c] + Allowance(c)'
  <2>1. /\ paul'[c] = paul[c] /\ direct'[c] = direct[c]
        /\ Paid(c) + Rights(c) <= doubts[c] + Allowance(c)
    BY <1>1 DEF WithinDoubts
  <2>2. /\ SendDue(c)' = IF c = b THEN 1 ELSE SendDue(c)
        /\ doubts'[c] = doubts[c] + (IF c = b THEN 1 ELSE 0)
        /\ SendDue(b) = 0
    BY <1>1 DEF SendDue, Types
  <2>3. Allowance(c)' = Allowance(c)
    BY <1>1, <1>2 DEF Allowance, IsPending, Types
  <2>4. QED
    BY <1>2, <2>1, <2>2, <2>3, RightsAreNat DEF Paid, Rights
<1>5. QED
  BY <1>2, <1>3, <1>4 DEF WithinDoubts

LEMMA RouterKeeps ==
    ASSUME ReleaseInv, RecordInv, NEW b \in Burns, RouterStep(b)
    PROVE  ReleaseInv'
BY PaulEnds, AbortDoubts, DirectEnds DEF RouterStep

(* What a process forgets it had seen is a doubt.                          *)
LEMMA ForgettingDoubts ==
    ASSUME ReleaseInv, RouterForgets, UNCHANGED paul
    PROVE  ReleaseInv'
<1> USE DEF ReleaseInv
<1>1. PICK S \in SUBSET {b \in Burns : leg[b] = "direct"} :
        direct' = [b \in Burns |-> direct[b] + IF b \in S THEN 1 ELSE 0]
  BY DEF RouterForgets
<1>2. /\ HangUp(Burns)
      /\ seen' = {}
      /\ leg' = [b \in Burns |-> "none"]
      /\ doubts' = [b \in Burns |-> doubts[b] + IF b \in seen THEN 1 ELSE 0]
  BY DEF RouterForgets
<1>3. /\ waiting' \in Seq(Connections)
      /\ serving' # NoRequest => serving' \in Servings
      /\ call' \in [Burns -> {"idle", "asked", "ok", "error"}]
      /\ \A c \in Burns : Count(waiting', c) = Count(waiting, c)
      /\ \A c \in Burns : Unpaid(c)' = Unpaid(c)
      /\ Heard'
  BY <1>2, HangUpKeeps
<1>4. Types' /\ LegsSeen'
  BY <1>1, <1>2, <1>3 DEF Types, LegsSeen
<1>5. ASSUME NEW c \in Burns
      PROVE  Paid(c)' + Rights(c)' <= doubts'[c] + Allowance(c)'
  <2>1. /\ paul'[c] = paul[c]
        /\ Paid(c) + Rights(c) <= doubts[c] + Allowance(c)
    BY DEF WithinDoubts
  <2>2. direct'[c] + SendDue(c)' <= direct[c] + SendDue(c)
    <3>1. SendDue(c)' = 0
      BY <1>2 DEF SendDue
    <3>2. direct'[c] <= direct[c] + SendDue(c)
      BY <1>1, RightsAreNat DEF SendDue
    <3>3. QED
      BY <1>4, <3>1, <3>2, RightsAreNat DEF Types
  <2>3. doubts'[c] >= doubts[c] + Allowance(c)
    BY <1>2, RightsAreNat DEF Allowance
  <2>4. Allowance(c)' = 0
    BY <1>2 DEF Allowance
  <2>5. direct'[c] \in Nat /\ doubts'[c] \in Nat /\ SendDue(c)' \in 0 .. 1
    BY <1>4 DEF Types, SendDue
  <2>6. /\ Paid(c)' + Rights(c)' = paul[c] + direct'[c] + (Count(waiting, c) + Unpaid(c) + SendDue(c)')
        /\ Paid(c) + Rights(c) = paul[c] + direct[c] + (Count(waiting, c) + Unpaid(c) + SendDue(c))
    BY <1>3, <2>1 DEF Paid, Rights
  <2>7. QED
    BY <2>1, <2>2, <2>3, <2>4, <2>5, <2>6, RightsAreNat
<1>6. QED
  BY <1>3, <1>4, <1>5 DEF WithinDoubts

-----------------------------------------------------------------------------
(* The lanes' steps.                                                       *)

LEMMA ServeKeeps ==
    ASSUME ReleaseInv, Serve, UNCHANGED <<seen, leg, direct, releases>>,
           doubts' = [b \in Burns |-> doubts[b]]
    PROVE  ReleaseInv'
<1> USE DEF ReleaseInv
<1>1. /\ serving = NoRequest
      /\ waiting # <<>>
      /\ waiting \in Seq(Connections)
      /\ waiting' = Tail(waiting)
      /\ serving' = [burn |-> Head(waiting).burn, live |-> Head(waiting).live, paid |-> FALSE]
      /\ UNCHANGED <<call, paul>>
  BY DEF Serve, Types
<1>2. /\ Head(waiting) \in Connections
      /\ waiting' \in Seq(Connections)
      /\ Len(waiting') = Len(waiting) - 1
      /\ \A i \in 1 .. Len(waiting') : waiting'[i] = waiting[i + 1]
      /\ Head(waiting) = waiting[1]
      /\ Len(waiting) \in Nat
  BY <1>1, HeadTailProperties, LenProperties
<1>3. serving' \in Servings
  BY <1>1, <1>2 DEF Connections, Servings
<1>4. serving' # NoRequest
  BY <1>3, PaulAssumption DEF Servings
<1>5. doubts' = doubts
  BY DEF Types
<1>6. Types' /\ LegsSeen'
  BY <1>1, <1>2, <1>3, <1>5 DEF Types, LegsSeen
<1>7. Heard'
  <2>1. ASSUME NEW b \in Burns, call'[b] = "asked"
        PROVE  Queued(waiting', b) \/ (serving' # NoRequest /\ serving'.burn = b /\ serving'.live)
    <3>1. PICK i \in 1 .. Len(waiting) : waiting[i].burn = b /\ waiting[i].live
      BY <1>1, <2>1 DEF Heard, Queued
    <3>2. CASE i = 1
      BY <1>1, <1>2, <1>4, <3>1, <3>2
    <3>3. CASE i # 1
      <4>1. i - 1 \in 1 .. Len(waiting') /\ waiting'[i - 1] = waiting[i]
        BY <1>2, <3>3
      <4>2. QED
        BY <3>1, <4>1 DEF Queued
    <3>4. QED
      BY <3>2, <3>3
  <2>2. QED
    BY <2>1 DEF Heard
<1>8. ASSUME NEW c \in Burns
      PROVE  Paid(c)' + Rights(c)' <= doubts'[c] + Allowance(c)'
  <2>1. Count(waiting', c) + (IF Head(waiting).burn = c THEN 1 ELSE 0) = Count(waiting, c)
    BY <1>1, CountOfTail
  <2>2. Unpaid(c) = 0 /\ Unpaid(c)' = IF Head(waiting).burn = c THEN 1 ELSE 0
    BY <1>1, <1>4 DEF Unpaid
  <2>3. SendDue(c)' = SendDue(c) /\ Allowance(c)' = Allowance(c)
    BY <1>1 DEF SendDue, Allowance, IsPending
  <2>4. Count(waiting', c) \in Nat
    BY <1>2, CountIsNat
  <2>5. Paid(c) + Rights(c) <= doubts[c] + Allowance(c)
    BY DEF WithinDoubts
  <2>6. QED
    BY <1>1, <1>5, <2>1, <2>2, <2>3, <2>4, <2>5, RightsAreNat DEF Paid, Rights
<1>9. QED
  BY <1>6, <1>7, <1>8 DEF WithinDoubts

LEMMA PayKeeps ==
    ASSUME ReleaseInv, Pay, UNCHANGED <<seen, leg, direct, releases>>,
           doubts' = [b \in Burns |-> doubts[b]]
    PROVE  ReleaseInv'
<1> USE DEF ReleaseInv
<1>1. /\ serving # NoRequest
      /\ serving \in Servings
      /\ ~serving.paid
      /\ serving' = [serving EXCEPT !.paid = TRUE]
      /\ paul' = [paul EXCEPT ![serving.burn] = @ + 1]
      /\ UNCHANGED <<call, waiting>>
  BY DEF Pay, Types
<1>2. serving' \in Servings
  BY <1>1 DEF Servings
<1>3. /\ serving' # NoRequest
      /\ serving'.burn = serving.burn
      /\ serving'.live = serving.live
      /\ serving'.paid
  BY <1>1, <1>2, PaulAssumption DEF Servings
<1>4. doubts' = doubts
  BY DEF Types
<1>5. Types' /\ LegsSeen'
  <2>1. paul' \in [Burns -> Nat]
    BY <1>1 DEF Types, Servings
  <2>2. Types'
    BY <1>1, <1>2, <1>4, <2>1 DEF Types
  <2>3. LegsSeen'
    BY DEF LegsSeen
  <2>4. QED
    BY <2>2, <2>3
<1>6. Heard'
  BY <1>1, <1>3 DEF Heard
<1>7. ASSUME NEW c \in Burns
      PROVE  Paid(c)' + Rights(c)' <= doubts'[c] + Allowance(c)'
  <2>1. paul'[c] = paul[c] + (IF serving.burn = c THEN 1 ELSE 0)
    BY <1>1, RightsAreNat DEF Types
  <2>2. Unpaid(c)' = 0 /\ Unpaid(c) = IF serving.burn = c THEN 1 ELSE 0
    BY <1>1, <1>3 DEF Unpaid
  <2>3. /\ SendDue(c)' = SendDue(c)
        /\ Allowance(c)' = Allowance(c)
        /\ Count(waiting', c) = Count(waiting, c)
    BY <1>1 DEF SendDue, Allowance, IsPending
  <2>4. Paid(c) + Rights(c) <= doubts[c] + Allowance(c)
    BY DEF WithinDoubts
  <2>5. QED
    BY <1>4, <2>1, <2>2, <2>3, <2>4, RightsAreNat DEF Paid, Rights
<1>8. QED
  BY <1>5, <1>6, <1>7 DEF WithinDoubts

(* LaneStep's count of doubts.                                             *)
Doubted(b) ==
    /\ serving # NoRequest /\ serving' = NoRequest
    /\ serving.burn = b /\ serving.live /\ serving.paid
    /\ call'[b] = "error"

LaneDoubts == doubts' = [b \in Burns |-> IF Doubted(b) THEN doubts[b] + 1 ELSE doubts[b]]

(* An error takes the right away with the request; if that was paid        *)
(* before, the error is a doubt.                                           *)
LEMMA AnswerKeeps ==
    ASSUME ReleaseInv, AnswerOk \/ AnswerError, LaneDoubts, UNCHANGED <<seen, leg, direct, releases>>
    PROVE  ReleaseInv'
<1> USE DEF ReleaseInv
<1>1. /\ serving # NoRequest
      /\ serving \in Servings
      /\ serving' = NoRequest
      /\ UNCHANGED <<waiting, paul>>
  BY DEF AnswerOk, AnswerError, Reply, Types
<1>2. PICK outcome \in {"ok", "error"} :
        /\ call' = IF serving.live THEN [call EXCEPT ![serving.burn] = outcome] ELSE call
        /\ outcome = "ok" => serving.paid
  BY DEF AnswerOk, AnswerError, Reply
<1>3. serving.burn \in Burns
  BY <1>1 DEF Servings
<1>4. call' \in [Burns -> {"idle", "asked", "ok", "error"}]
  BY <1>2, <1>3 DEF Types
<1>5. doubts' \in [Burns -> Nat]
  BY DEF LaneDoubts, Types
<1>6. Types' /\ LegsSeen'
  <2>1. Types'
    BY <1>1, <1>4, <1>5 DEF Types
  <2>2. LegsSeen'
    BY DEF LegsSeen
  <2>3. QED
    BY <2>1, <2>2
<1>7. Heard'
  <2>1. ASSUME NEW b \in Burns, call'[b] = "asked"
        PROVE  Queued(waiting', b)
    <3>1. call[b] = "asked" /\ ~(serving.burn = b /\ serving.live)
      BY <1>2, <1>3, <2>1 DEF Types
    <3>2. QED
      BY <1>1, <3>1 DEF Heard
  <2>2. QED
    BY <2>1 DEF Heard
<1>8. ASSUME NEW c \in Burns
      PROVE  Paid(c)' + Rights(c)' <= doubts'[c] + Allowance(c)'
  <2>1. /\ Paid(c)' + Rights(c)' = paul[c] + direct[c] + (Count(waiting, c) + SendDue(c))
        /\ Paid(c) + Rights(c) = paul[c] + direct[c] + (Count(waiting, c) + Unpaid(c) + SendDue(c))
    <3>1. Unpaid(c)' = 0
      BY <1>1 DEF Unpaid
    <3>2. SendDue(c)' = SendDue(c) /\ Count(waiting', c) = Count(waiting, c)
      BY <1>1 DEF SendDue
    <3>3. QED
      BY <1>1, <3>1, <3>2, RightsAreNat DEF Paid, Rights
  <2>2. Paid(c) + Rights(c) <= doubts[c] + Allowance(c)
    BY DEF WithinDoubts
  <2>3. Allowance(c)' \in 0 .. 1 /\ doubts'[c] \in Nat /\ doubts'[c] >= doubts[c]
    BY RightsAreNat DEF Allowance, LaneDoubts
  <2>4. CASE serving.burn = c /\ serving.live /\ outcome = "error"
    <3>1. call'[c] = "error"
      BY <1>2, <1>3, <2>4 DEF Types
    <3>2. CASE serving.paid
      <4>1. doubts'[c] = doubts[c] + 1
        BY <1>1, <2>4, <3>1, <3>2 DEF LaneDoubts, Doubted
      <4>2. QED
        BY <2>1, <2>2, <2>3, <4>1, RightsAreNat
    <3>3. CASE ~serving.paid
      <4>1. Unpaid(c) = 1
        BY <1>1, <2>4, <3>3 DEF Unpaid
      <4>2. QED
        BY <2>1, <2>2, <2>3, <4>1, RightsAreNat
    <3>4. QED
      BY <3>2, <3>3
  <2>5. CASE ~(serving.burn = c /\ serving.live /\ outcome = "error")
    <3>1. call'[c] = "error" => call[c] = "error"
      BY <1>2, <1>3, <2>5 DEF Types
    <3>2. Allowance(c) <= Allowance(c)'
      BY <3>1 DEF Allowance, IsPending
    <3>3. QED
      BY <2>1, <2>2, <2>3, <3>2, RightsAreNat
  <2>6. QED
    BY <2>4, <2>5
<1>9. QED
  BY <1>6, <1>7, <1>8 DEF WithinDoubts

(* The server dies with the requests it was heard for.                     *)
LEMMA VanishKeeps ==
    ASSUME ReleaseInv, Vanish, LaneDoubts, UNCHANGED <<seen, leg, direct, releases>>
    PROVE  ReleaseInv'
<1> USE DEF ReleaseInv
<1>1. /\ call' = [b \in Burns |-> IF call[b] = "asked" THEN "error" ELSE call[b]]
      /\ waiting' = <<>>
      /\ serving' = NoRequest
      /\ UNCHANGED paul
  BY DEF Vanish
<1>2. Types'
  <2>1. doubts' \in [Burns -> Nat]
    BY DEF LaneDoubts, Types
  <2>2. call' \in [Burns -> {"idle", "asked", "ok", "error"}]
    BY <1>1 DEF Types
  <2>3. waiting' \in Seq(Connections)
    BY <1>1, EmptySeq
  <2>4. QED
    BY <1>1, <2>1, <2>2, <2>3 DEF Types
<1>3. LegsSeen' /\ Heard'
  BY <1>1 DEF LegsSeen, Heard, Types
<1>4. ASSUME NEW c \in Burns
      PROVE  Paid(c)' + Rights(c)' <= doubts'[c] + Allowance(c)'
  <2>1. /\ Paid(c)' + Rights(c)' = paul[c] + direct[c] + SendDue(c)
        /\ Paid(c) + Rights(c) = paul[c] + direct[c] + (Count(waiting, c) + Unpaid(c) + SendDue(c))
    <3>1. Unpaid(c)' = 0 /\ Count(waiting', c) = 0
      BY <1>1, CountOfNone DEF Unpaid
    <3>2. SendDue(c)' = SendDue(c)
      BY DEF SendDue
    <3>3. QED
      BY <1>1, <3>1, <3>2, RightsAreNat DEF Paid, Rights
  <2>2. Paid(c) + Rights(c) <= doubts[c] + Allowance(c)
    BY DEF WithinDoubts
  <2>3. Allowance(c)' \in 0 .. 1 /\ doubts'[c] \in Nat /\ doubts'[c] >= doubts[c]
    BY RightsAreNat DEF Allowance, LaneDoubts
  <2>4. CASE call[c] = "asked"
    <3>1. CASE Queued(waiting, c)
      <4>1. Count(waiting, c) >= 1
        BY <3>1, QueuedIsCounted DEF Types
      <4>2. QED
        BY <2>1, <2>2, <2>3, <4>1, RightsAreNat
    <3>2. CASE serving # NoRequest /\ serving.burn = c /\ serving.live
      <4>1. CASE serving.paid
        <5>1. doubts'[c] = doubts[c] + 1
          BY <1>1, <2>4, <3>2, <4>1 DEF LaneDoubts, Doubted
        <5>2. QED
          BY <2>1, <2>2, <2>3, <5>1, RightsAreNat
      <4>2. CASE ~serving.paid
        <5>1. Unpaid(c) = 1
          BY <3>2, <4>2 DEF Unpaid
        <5>2. QED
          BY <2>1, <2>2, <2>3, <5>1, RightsAreNat
      <4>3. QED
        BY <4>1, <4>2
    <3>3. QED
      BY <2>4, <3>1, <3>2 DEF Heard
  <2>5. CASE call[c] # "asked"
    <3>1. Allowance(c)' = Allowance(c)
      BY <1>1, <2>5 DEF Allowance, IsPending
    <3>2. QED
      BY <2>1, <2>2, <2>3, <3>1, RightsAreNat
  <2>6. QED
    BY <2>4, <2>5
<1>5. QED
  BY <1>2, <1>3, <1>4 DEF WithinDoubts

LEMMA LanesKeep ==
    ASSUME ReleaseInv, LaneStep
    PROVE  ReleaseInv'
<1>1. LaneDoubts /\ UNCHANGED <<seen, leg, direct, releases>>
  BY DEF LaneStep, LaneDoubts, Doubted
<1>2. CASE Serve
  <2>1. doubts' = [b \in Burns |-> doubts[b]]
    BY <1>1, <1>2 DEF Serve, LaneDoubts, Doubted
  <2>2. QED
    BY <1>1, <1>2, <2>1, ServeKeeps
<1>3. CASE Pay
  <2>1. serving' # NoRequest
    <3>1. serving \in Servings /\ serving' = [serving EXCEPT !.paid = TRUE]
      BY <1>3 DEF Pay, ReleaseInv, Types
    <3>2. serving' \in Servings
      BY <3>1 DEF Servings
    <3>3. QED
      BY <3>2, PaulAssumption DEF Servings
  <2>2. doubts' = [b \in Burns |-> doubts[b]]
    BY <1>1, <2>1 DEF LaneDoubts, Doubted
  <2>3. QED
    BY <1>1, <1>3, <2>2, PayKeeps
<1>4. CASE AnswerOk \/ AnswerError
  BY <1>1, <1>4, AnswerKeeps
<1>5. CASE Vanish
  BY <1>1, <1>5, VanishKeeps
<1>6. QED
  BY <1>2, <1>3, <1>4, <1>5 DEF LaneStep

-----------------------------------------------------------------------------
(* The adapter's steps.                                                    *)

LEMMA ReleaseStarts == Init => ReleaseInv
<1> SUFFICES ASSUME Init
             PROVE  ReleaseInv
  OBVIOUS
<1> USE DEF Init, PaulInit, RouterInit
<1>1. Types
  BY EmptySeq DEF Types
<1>2. LegsSeen /\ Heard
  BY DEF LegsSeen, Heard
<1>3. ASSUME NEW b \in Burns
      PROVE  Paid(b) + Rights(b) <= doubts[b] + Allowance(b)
  BY CountOfNone DEF Paid, Rights, Unpaid, SendDue, Allowance
<1>4. QED
  BY <1>1, <1>2, <1>3 DEF ReleaseInv, WithinDoubts

(* No burn is handed over, paid or forgotten here.                         *)
Idles == UNCHANGED releaseVars

LEMMA AdapterIdles ==
    ASSUME NEW p \in Polls,
           PollBegin(p) \/ PollEmpty(p) \/ PollListed(p) \/ PollParsed(p) \/ PollEnds(p)
    PROVE  Idles
BY DEF PollBegin, PollEmpty, PollListed, PollParsed, PollEnds, routerVars, Idles, releaseVars

LEMMA OthersIdle ==
    ASSUME Finalize \/ Halt \/ Resume \/ UNCHANGED vars
    PROVE  Idles
BY DEF Finalize, Halt, Resume, SetHalted, routerVars, vars, Idles, releaseVars

LEMMA IdlingKeeps ==
    ASSUME ReleaseInv, Idles
    PROVE  ReleaseInv'
BY SeenGrows DEF Idles, releaseVars, IsPending

LEMMA ReleaseStep ==
    ASSUME ReleaseInv, RecordInv, HandsBurns, [Next]_vars
    PROVE  ReleaseInv'
<1>1. CASE Finalize \/ Halt \/ Resume \/ UNCHANGED vars
  BY <1>1, OthersIdle, IdlingKeeps
<1>2. CASE Restart
  BY <1>2, ForgettingDoubts DEF Restart
<1>3. CASE Lanes
  BY <1>3, LanesKeep DEF Lanes
<1>4. CASE \E b \in Burns : Webhook(b) \/ Route(b)
  BY <1>4, BurnIsHandled, RouterKeeps DEF Webhook, Route, Levels
<1>5. ASSUME NEW p \in Polls, PollHands(p)
      PROVE  ReleaseInv'
  <2>1. PICK b \in polls[p].todo : OnBurnDetected(b, 3)
    BY <1>5 DEF PollHands
  <2>2. b \in Burns
    BY <1>5, <2>1 DEF PollHands, HandledLast, HandsBurns
  <2>3. QED
    BY <2>1, <2>2, BurnIsHandled DEF Levels
<1>6. CASE \E p \in Polls : \/ PollBegin(p) \/ PollEmpty(p) \/ PollListed(p)
                            \/ PollParsed(p) \/ PollEnds(p)
  BY <1>6, AdapterIdles, IdlingKeeps
<1>7. QED
  BY <1>1, <1>2, <1>3, <1>4, <1>5, <1>6 DEF Next

LEMMA HandsStep ==
    ASSUME HandsBurns, [Next]_vars
    PROVE  HandsBurns'
<1> USE DEF HandsBurns
<1>1. CASE Finalize \/ Halt \/ Resume \/ Lanes \/ UNCHANGED vars
  BY <1>1 DEF Finalize, Halt, Resume, Lanes, vars, ceaVars
<1>2. CASE \E b \in Burns : Webhook(b) \/ Route(b)
  BY <1>2 DEF Webhook, Route, ceaVars
<1>3. CASE Restart
  BY <1>3 DEF Restart, Free
<1>4. ASSUME NEW p \in Polls, PollBegin(p) \/ PollEmpty(p) \/ PollListed(p) \/ PollEnds(p)
      PROVE  HandsBurns'
  <2>1. PICK poll : polls' = [polls EXCEPT ![p] = poll] /\ poll.at # "handing"
    BY <1>4 DEF PollBegin, PollEmpty, PollListed, PollEnds, Free
  <2>2. QED
    BY <2>1
<1>5. ASSUME NEW p \in Polls, PollParsed(p)
      PROVE  HandsBurns'
  <2>1. PICK missed \in SUBSET Batch(p) :
          polls' = [polls EXCEPT ![p] =
              IF Batch(p) = missed THEN Free
              ELSE [at |-> "handing", on |-> 0, todo |-> Batch(p) \ missed]]
    BY <1>5 DEF PollParsed
  <2>2. Batch(p) \subseteq Burns
    BY DEF Batch
  <2>3. QED
    BY <2>1, <2>2 DEF Free
<1>6. ASSUME NEW p \in Polls, PollHands(p)
      PROVE  HandsBurns'
  <2>1. PICK b \in polls[p].todo :
          polls' = [polls EXCEPT ![p] =
              [at |-> "handing", on |-> b, todo |-> polls[p].todo \ {b}]]
    BY <1>6 DEF PollHands
  <2>2. polls[p].todo \subseteq Burns
    BY <1>6 DEF PollHands, HandledLast
  <2>3. QED
    BY <2>1, <2>2
<1>7. QED
  BY <1>1, <1>2, <1>3, <1>4, <1>5, <1>6 DEF Next

-----------------------------------------------------------------------------
(* What is recorded.                                                       *)

LEMMA RecordsAreRecords ==
    ASSUME NEW m \in {"pending", "paul", "direct"}
    PROVE  /\ Record(3, m) \in Records
           /\ Record(3, m) # NoRecord
           /\ Record(3, m).method = m
BY RouterAssumption DEF Record, Records, Levels

LEMMA RecordStarts == Init => RecordInv
BY FS_EmptySet DEF Init, RouterInit, RecordInv, Handled

(* A burn comes in: no event brings more than the first one did.           *)
LEMMA HandledRecords ==
    ASSUME RecordInv, Types, NEW b \in Burns, OnBurnDetected(b, 3)
    PROVE  RecordInv'
<1> USE DEF RecordInv
<1>1. IsFiniteSet(seen \cup {b})
  BY FS_AddElement
<1>2. CASE Repeated(b, 3)
  BY <1>2 DEF Repeated, routerVars, Handled
<1>3. CASE Upgraded(b, 3)
  <2>1. releases[b] \in Records /\ 3 > releases[b].level
    BY <1>3 DEF Upgraded
  <2>2. QED
    BY <2>1 DEF Records
<1>4. CASE Pended(b, 3)
  <2>1. \A c \in Burns : releases'[c] = IF c = b THEN Record(3, "pending") ELSE releases[c]
    BY <1>4 DEF Pended
  <2>2. releases' \in [Burns -> Records \cup {NoRecord}]
    BY <1>4, RecordsAreRecords DEF Pended
  <2>3. QED
    BY <1>1, <1>4, <2>1, <2>2, RecordsAreRecords DEF Pended, Handled
<1>5. CASE Begun(b, 3)
  <2>1. /\ b \notin seen /\ Handled(b)
        /\ seen' = seen \cup {b}
        /\ UNCHANGED releases
    BY <1>5 DEF Begun, Mark
  <2>2. /\ strategies' \in [Burns -> SUBSET Levels]
        /\ \A c \in Burns : c # b => leg'[c] = leg[c] /\ strategies'[c] = strategies[c]
        /\ \/ leg'[b] = "none" /\ strategies'[b] = {3}
           \/ leg'[b] = "paul" /\ strategies'[b] = {}
    <3>1. leg[b] = "none" /\ strategies[b] = {} /\ {3} \subseteq Levels
      BY <2>1 DEF Handled, Levels
    <3>2. CASE HasStrategy
      <4>1. strategies' = [strategies EXCEPT ![b] = {3}] /\ UNCHANGED leg
        BY <1>5, <3>2 DEF Begun
      <4>2. QED
        BY <3>1, <4>1
    <3>3. CASE ~HasStrategy
      <4>1. leg' = [leg EXCEPT ![b] = "paul"] /\ UNCHANGED strategies
        BY <1>5, <3>3 DEF Begun
      <4>2. QED
        BY <3>1, <4>1 DEF Types
    <3>4. QED
      BY <3>2, <3>3
  <2>3. QED
    BY <1>1, <2>1, <2>2 DEF Handled
<1>6. QED
  BY <1>2, <1>3, <1>4, <1>5 DEF OnBurnDetected

LEMMA PushRecords ==
    ASSUME RecordInv, Types, NEW b \in Burns, NEW m \in {"pending", "paul", "direct"},
           leg[b] # "none", Push(b, m), UNCHANGED <<seen, strategies>>
    PROVE  RecordInv'
<1> USE DEF RecordInv
<1>1. /\ releases' = [releases EXCEPT ![b] = Record(3, m)]
      /\ leg' = [leg EXCEPT ![b] = "none"]
  BY DEF Push
<1>2. releases' \in [Burns -> Records \cup {NoRecord}]
  BY <1>1, RecordsAreRecords
<1>3. \A c \in Burns : /\ releases'[c] = IF c = b THEN Record(3, m) ELSE releases[c]
                       /\ leg'[c] = IF c = b THEN "none" ELSE leg[c]
  BY <1>1 DEF Types
<1>4. QED
  BY <1>2, <1>3, RecordsAreRecords DEF Handled

LEMMA RouterRecords ==
    ASSUME RecordInv, Types, NEW b \in Burns, RouterStep(b)
    PROVE  RecordInv'
<1>1. CASE PaulReleased(b)
  BY <1>1, PushRecords DEF PaulReleased
<1>2. CASE DirectReleased(b)
  BY <1>2, PushRecords DEF DirectReleased
<1>3. CASE DirectRefused(b)
  BY <1>3, PushRecords DEF DirectRefused
<1>4. CASE DirectLost(b)
  BY <1>4, PushRecords DEF DirectLost
<1>5. CASE PaulFailed(b) \/ PaulAborted(b)
  <2>1. FallBack(b)
    BY <1>5 DEF PaulFailed, PaulAborted
  <2>2. QED
    BY <2>1 DEF FallBack, Handled, RecordInv, Types
<1>6. QED
  BY <1>1, <1>2, <1>3, <1>4, <1>5 DEF RouterStep

LEMMA IdlingRecords ==
    ASSUME RecordInv, UNCHANGED <<seen, releases, leg, strategies>>
    PROVE  RecordInv'
BY DEF RecordInv, Handled

LEMMA RecordStep ==
    ASSUME RecordInv, Types, HandsBurns, [Next]_vars
    PROVE  RecordInv'
<1>1. CASE Finalize \/ Halt \/ Resume \/ UNCHANGED vars
  BY <1>1, OthersIdle, IdlingRecords DEF Idles, releaseVars
<1>2. CASE Restart
  BY <1>2, FS_EmptySet DEF Restart, RouterForgets, RecordInv, Handled
<1>3. CASE Lanes
  <2>1. UNCHANGED <<seen, releases, leg, strategies>>
    BY <1>3 DEF Lanes, LaneStep
  <2>2. QED
    BY <2>1, IdlingRecords
<1>4. CASE \E b \in Burns : Webhook(b) \/ Route(b)
  BY <1>4, HandledRecords, RouterRecords DEF Webhook, Route
<1>5. ASSUME NEW p \in Polls, PollHands(p)
      PROVE  RecordInv'
  <2>1. PICK b \in polls[p].todo : OnBurnDetected(b, 3)
    BY <1>5 DEF PollHands
  <2>2. b \in Burns
    BY <1>5, <2>1 DEF PollHands, HandledLast, HandsBurns
  <2>3. QED
    BY <2>1, <2>2, HandledRecords
<1>6. CASE \E p \in Polls : \/ PollBegin(p) \/ PollEmpty(p) \/ PollListed(p)
                            \/ PollParsed(p) \/ PollEnds(p)
  BY <1>6, AdapterIdles, IdlingRecords DEF Idles, releaseVars
<1>7. QED
  BY <1>1, <1>2, <1>3, <1>4, <1>5, <1>6 DEF Next

-----------------------------------------------------------------------------
(* What an ok and a record tell.                                           *)

LEMMA TellsStarts == Init => TellsInv
BY DEF Init, PaulInit, RouterInit, TellsInv

LEMMA IdlingTells ==
    ASSUME TellsInv, UNCHANGED <<paulVars, releases, direct>>
    PROVE  TellsInv'
BY DEF TellsInv, paulVars

LEMMA HangUpTells ==
    ASSUME Types, NEW H \in SUBSET Burns, HangUp(H)
    PROVE  /\ UNCHANGED paul
           /\ \A b \in Burns : call'[b] \in {"idle", call[b]}
           /\ serving' # NoRequest => /\ serving # NoRequest
                                     /\ serving'.burn = serving.burn
                                     /\ serving'.paid = serving.paid
<1>1. CASE serving = NoRequest
  BY <1>1 DEF HangUp
<1>2. CASE serving # NoRequest
  <2>1. PICK heard \in BOOLEAN : heard = (serving.live /\ serving.burn \notin H)
    OBVIOUS
  <2>2. serving' = [serving EXCEPT !.live = heard]
    BY <1>2, <2>1 DEF HangUp
  <2>3. serving'.burn = serving.burn /\ serving'.paid = serving.paid
    BY <1>2, <2>2 DEF Types, Servings
  <2>4. QED
    BY <1>2, <2>3 DEF HangUp
<1>3. QED
  BY <1>1, <1>2

LEMMA HandledTells ==
    ASSUME TellsInv, RecordInv, Types, NEW b \in Burns, OnBurnDetected(b, 3)
    PROVE  TellsInv'
<1>1. CASE Repeated(b, 3)
  BY <1>1, IdlingTells DEF Repeated, routerVars
<1>2. CASE Upgraded(b, 3)
  <2>1. releases[b] \in Records /\ 3 > releases[b].level
    BY <1>2 DEF Upgraded, RecordInv
  <2>2. QED
    BY <2>1 DEF Records
<1>3. CASE Pended(b, 3)
  <2>1. \A c \in Burns : releases'[c] = IF c = b THEN Record(3, "pending") ELSE releases[c]
    BY <1>3 DEF Pended, RecordInv
  <2>2. UNCHANGED <<paulVars, direct>>
    BY <1>3 DEF Pended
  <2>3. QED
    BY <2>1, <2>2, RecordsAreRecords DEF TellsInv, paulVars
<1>4. CASE Begun(b, 3)
  <2>1. UNCHANGED <<releases, direct, serving, paul>>
    BY <1>4 DEF Begun, Ask, paulVars
  <2>2. \A c \in Burns : call'[c] = "ok" => call[c] = "ok"
    BY <1>4 DEF Begun, Ask, paulVars, Types
  <2>3. QED
    BY <2>1, <2>2 DEF TellsInv
<1>5. QED
  BY <1>1, <1>2, <1>3, <1>4 DEF OnBurnDetected

LEMMA RouterTells ==
    ASSUME TellsInv, RecordInv, Types, NEW b \in Burns, RouterStep(b)
    PROVE  TellsInv'
<1>1. CASE PaulReleased(b)
  <2>1. /\ call[b] = "ok"
        /\ UNCHANGED <<serving, paul, direct>>
        /\ \A c \in Burns : call'[c] \in {"idle", call[c]}
    BY <1>1 DEF PaulReleased, Collect, Types
  <2>2. \A c \in Burns : releases'[c] = IF c = b THEN Record(3, "paul") ELSE releases[c]
    BY <1>1 DEF PaulReleased, Push, RecordInv
  <2>3. QED
    BY <2>1, <2>2, RecordsAreRecords DEF TellsInv
<1>2. CASE DirectReleased(b)
  <2>1. /\ UNCHANGED paulVars
        /\ \A c \in Burns : direct'[c] = IF c = b THEN direct[c] + 1 ELSE direct[c]
        /\ direct[b] \in Nat
    BY <1>2 DEF DirectReleased, Types
  <2>2. \A c \in Burns : releases'[c] = IF c = b THEN Record(3, "direct") ELSE releases[c]
    BY <1>2 DEF DirectReleased, Push, RecordInv
  <2>3. QED
    BY <2>1, <2>2, RecordsAreRecords DEF TellsInv, paulVars
<1>3. CASE DirectRefused(b) \/ DirectLost(b)
  <2>1. /\ UNCHANGED paulVars
        /\ \A c \in Burns : c # b => direct'[c] = direct[c]
    BY <1>3 DEF DirectRefused, DirectLost, Types
  <2>2. \A c \in Burns : releases'[c] = IF c = b THEN Record(3, "pending") ELSE releases[c]
    BY <1>3 DEF DirectRefused, DirectLost, Push, RecordInv
  <2>3. QED
    BY <2>1, <2>2, RecordsAreRecords DEF TellsInv, paulVars
<1>4. CASE PaulFailed(b)
  <2>1. /\ UNCHANGED <<serving, paul, direct, releases>>
        /\ \A c \in Burns : call'[c] \in {"idle", call[c]}
    BY <1>4 DEF PaulFailed, FallBack, Collect, Types
  <2>2. QED
    BY <2>1 DEF TellsInv
<1>5. CASE PaulAborted(b)
  <2>1. UNCHANGED <<direct, releases>> /\ HangUp({b})
    BY <1>5 DEF PaulAborted, FallBack
  <2>2. QED
    BY <2>1, HangUpTells DEF TellsInv
<1>6. QED
  BY <1>1, <1>2, <1>3, <1>4, <1>5 DEF RouterStep

LEMMA LanesTell ==
    ASSUME TellsInv, Types, LaneStep
    PROVE  TellsInv'
<1>1. UNCHANGED <<releases, direct>>
  BY DEF LaneStep
<1>2. CASE Serve
  BY <1>1, <1>2 DEF Serve, TellsInv
<1>3. CASE Pay
  <2>1. /\ serving \in Servings
        /\ serving'.burn = serving.burn
        /\ UNCHANGED call
        /\ \A b \in Burns : paul'[b] = IF b = serving.burn THEN paul[b] + 1 ELSE paul[b]
        /\ \A b \in Burns : paul[b] \in Nat
    BY <1>3 DEF Pay, Types, Servings
  <2>2. serving.burn \in Burns
    BY <2>1 DEF Servings
  <2>3. \A b \in Burns : paul[b] > 0 \/ b = serving.burn => paul'[b] > 0
    BY <2>1
  <2>4. QED
    BY <1>1, <2>1, <2>2, <2>3 DEF TellsInv
<1>4. CASE AnswerOk \/ AnswerError
  <2>1. UNCHANGED paul /\ serving' = NoRequest /\ serving # NoRequest
    BY <1>4 DEF AnswerOk, AnswerError, Reply
  <2>2. \A b \in Burns : call'[b] = "ok" => call[b] = "ok" \/ (serving.paid /\ b = serving.burn)
    BY <1>4 DEF AnswerOk, AnswerError, Reply, Types
  <2>3. QED
    BY <1>1, <2>1, <2>2 DEF TellsInv
<1>5. CASE Vanish
  BY <1>1, <1>5 DEF Vanish, TellsInv
<1>6. QED
  BY <1>2, <1>3, <1>4, <1>5 DEF LaneStep

LEMMA TellsStep ==
    ASSUME TellsInv, RecordInv, Types, HandsBurns, [Next]_vars
    PROVE  TellsInv'
<1>1. CASE Finalize \/ Halt \/ Resume \/ UNCHANGED vars
  BY <1>1, OthersIdle, IdlingTells DEF Idles, releaseVars
<1>2. CASE Restart
  <2>1. HangUp(Burns) /\ releases' = [b \in Burns |-> NoRecord]
    BY <1>2 DEF Restart, RouterForgets
  <2>2. QED
    BY <2>1, HangUpTells DEF TellsInv
<1>3. CASE Lanes
  BY <1>3, LanesTell DEF Lanes
<1>4. CASE \E b \in Burns : Webhook(b) \/ Route(b)
  BY <1>4, HandledTells, RouterTells DEF Webhook, Route
<1>5. ASSUME NEW p \in Polls, PollHands(p)
      PROVE  TellsInv'
  <2>1. PICK b \in polls[p].todo : OnBurnDetected(b, 3)
    BY <1>5 DEF PollHands
  <2>2. b \in Burns
    BY <1>5, <2>1 DEF PollHands, HandledLast, HandsBurns
  <2>3. QED
    BY <2>1, <2>2, HandledTells
<1>6. CASE \E p \in Polls : \/ PollBegin(p) \/ PollEmpty(p) \/ PollListed(p)
                            \/ PollParsed(p) \/ PollEnds(p)
  BY <1>6, AdapterIdles, IdlingTells DEF Idles, releaseVars
<1>7. QED
  BY <1>1, <1>2, <1>3, <1>4, <1>5, <1>6 DEF Next

-----------------------------------------------------------------------------
(* What holds of any behaviour.                                            *)

AllInv == ReleaseInv /\ RecordInv /\ TellsInv /\ HandsBurns

LEMMA AllHolds == Spec => []AllInv
<1>1. Init => AllInv
  BY ReleaseStarts, RecordStarts, TellsStarts DEF AllInv, HandsBurns, Init, Free
<1>2. AllInv /\ [Next]_vars => AllInv'
  <2>1. SUFFICES ASSUME AllInv, [Next]_vars
                 PROVE  AllInv'
    OBVIOUS
  <2>2. ReleaseInv /\ Types /\ RecordInv /\ TellsInv /\ HandsBurns
    BY <2>1 DEF AllInv, ReleaseInv
  <2>3. QED
    BY <2>1, <2>2, ReleaseStep, RecordStep, TellsStep, HandsStep DEF AllInv
<1>3. QED
  BY <1>1, <1>2, PTL DEF Spec

(* Whatever is paid is owed to the allowance or to a doubt: a request of   *)
(* the relayer, wherever it is, is a right to pay, and none is made while  *)
(* another may still be used, unless a doubt is counted for it.            *)
THEOREM ReleaseHolds == Spec => []ReleaseInv
<1>1. AllInv => ReleaseInv
  BY DEF AllInv
<1>2. QED
  BY <1>1, AllHolds, PTL

(* A burn is paid for again only after a release of it was given up with   *)
(* its outcome unknown, or forgotten, and once for each of these: router   *)
(* .ts's seenSet, set before the first await, with the webhook and the     *)
(* polls of solana-cea.ts in any interleaving, and lanes that may die.     *)
THEOREM PaidOncePerDoubtHolds == Spec => []PaidOncePerDoubt
<1>1. ReleaseInv => PaidOncePerDoubt
  <2>1. ASSUME ReleaseInv, NEW b \in Burns
        PROVE  Paid(b) <= 1 + doubts[b]
    <3>1. Paid(b) + Rights(b) <= doubts[b] + Allowance(b)
      BY <2>1 DEF ReleaseInv, WithinDoubts
    <3>2. Allowance(b) \in 0 .. 1
      BY DEF Allowance
    <3>3. Types
      BY <2>1 DEF ReleaseInv
    <3>4. QED
      BY <3>1, <3>2, <3>3, RightsAreNat DEF Paid, Rights
  <2>2. QED
    BY <2>1 DEF PaidOncePerDoubt
<1>2. QED
  BY <1>1, ReleaseHolds, PTL

(* getStatus (router.ts:396) and the records it lists tell the truth: a    *)
(* record naming a method was paid by it, a pending one was not paid but   *)
(* for doubts, also while its burn's old requests are still with the       *)
(* lanes, and what was seen is recorded or still being released.           *)
THEOREM RecordsTell == Spec => []RecordTells
<1>1. AllInv => RecordTells
  <2>1. SUFFICES ASSUME AllInv
                 PROVE  RecordTells
    OBVIOUS
  <2>2. Types /\ WithinDoubts /\ RecordInv /\ TellsInv
    BY <2>1 DEF AllInv, ReleaseInv
  <2>3. \A b \in Burns : Allowance(b) = 0 => Paid(b) <= doubts[b]
    <3>1. SUFFICES ASSUME NEW b \in Burns, Allowance(b) = 0
                   PROVE  Paid(b) <= doubts[b]
      OBVIOUS
    <3>2. Paid(b) + Rights(b) <= doubts[b] + Allowance(b)
      BY <2>2 DEF WithinDoubts
    <3>3. QED
      BY <2>2, <3>1, <3>2, RightsAreNat DEF Paid, Rights
  <2>4. Cardinality(seen) = Cardinality({b \in Burns : releases[b] # NoRecord})
                              + Cardinality({b \in Burns : ~Handled(b)})
    <3> DEFINE Told == {b \in Burns : releases[b] # NoRecord}
               Held == {b \in Burns : ~Handled(b)}
    <3>1. seen = Told \cup Held /\ Told \cap Held = {}
      BY <2>2 DEF RecordInv
    <3>2. IsFiniteSet(Told) /\ IsFiniteSet(Held)
      <4>1. Told \subseteq seen /\ Held \subseteq seen /\ IsFiniteSet(seen)
        BY <2>2, <3>1 DEF RecordInv
      <4>2. QED
        BY <4>1, FS_Subset
    <3> HIDE DEF Told, Held
    <3>3. Cardinality(seen) = Cardinality(Told) + Cardinality(Held) - Cardinality({})
      BY <3>1, <3>2, FS_Union
    <3>4. Cardinality(Told) \in Nat /\ Cardinality(Held) \in Nat /\ Cardinality({}) = 0
      BY <3>2, FS_CardinalityType, FS_EmptySet
    <3>5. Cardinality(seen) = Cardinality(Told) + Cardinality(Held)
      BY <3>3, <3>4
    <3>6. QED
      BY <3>5 DEF Told, Held
  <2>5. SUFFICES ASSUME NEW b \in Burns
                 PROVE  /\ releases[b] # NoRecord =>
                             CASE releases[b].method = "paul" -> paul[b] > 0
                               [] releases[b].method = "direct" -> direct[b] > 0
                               [] OTHER -> Paid(b) <= doubts[b]
                        /\ b \notin seen => Paid(b) <= doubts[b]
    BY <2>4 DEF RecordTells, Status
  <2>6. b \notin seen => Paid(b) <= doubts[b]
    BY <2>3 DEF Allowance
  <2>7. ASSUME releases[b] # NoRecord
        PROVE  CASE releases[b].method = "paul" -> paul[b] > 0
                 [] releases[b].method = "direct" -> direct[b] > 0
                 [] OTHER -> Paid(b) <= doubts[b]
    <3>1. releases[b] \in Records
      BY <2>2, <2>7 DEF RecordInv
    <3>2. releases[b].method \in {"pending", "paul", "direct"}
      BY <3>1 DEF Records
    <3>3. releases[b].method = "pending" => Paid(b) <= doubts[b]
      BY <2>3, <2>7 DEF Allowance, IsPending
    <3>4. QED
      BY <2>2, <2>7, <3>2, <3>3 DEF TellsInv
  <2>8. QED
    BY <2>6, <2>7
<1>2. QED
  BY <1>1, AllHolds, PTL
====
