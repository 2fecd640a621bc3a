---- MODULE BtcsoqLegsSafety ----
(***************************************************************************)
(* A loop is converted once, pays one invoice and is attested for what was *)
(* done, for any loops, daily limit and payment channel, and any number of *)
(* lost answers, late requests and crashes.                                *)
(*                                                                         *)
(* Three chains drive a loop, but one at a time has it in flight, and what *)
(* it acts on is either on disk before it acts (the deposit it executes,   *)
(* the invoice it pays) or looked for outside first (the send).  Versions  *)
(* of the file keep a deposit once it is recorded, and an invoice until it *)
(* has expired; so whatever a crash goes back to names the same ones.      *)
(***************************************************************************)
EXTENDS BtcsoqLegs, SequenceTheorems, FiniteSetTheorems, TLAPS

Events == Kinds \X Keys

Versions ==
    [minted : SUBSET Keys,
     convert : [Keys -> [status : {"none", "converting", "converted"}, sent : Nat]],
     ask : [Keys -> [status : {"none", "asking", "answered"}, invoice : Nat]],
     att : [Events -> {"none", "unsigned", "signed"}]]

Writes == [by : Chains, state : Versions]

(* A chain whose own write is in the queue awaits it.                      *)
Waiting == {"minted", "claimed", "sent", "converted", "attest", "signed", "saving", "dropped",
            "asked", "pinned", "answered"}

Working == {"height", "chain", "send", "execute", "start", "challenge", "status", "paying",
            "redeem", "minted", "claimed", "sent", "converted", "saving", "dropped", "asked",
            "pinned", "answered"}

Places == {Idle} \cup [at : Working, key : Keys]
                 \cup [at : Attesting \cup {"resign"}, key : Keys, event : Kinds]

StoreTypes ==
    /\ mem \in Versions
    /\ disk \in Versions
    /\ saveChain \in Seq(Writes)

WorldTypes ==
    /\ pc \in [Chains -> Places]
    /\ treasury \in [Keys -> Nat]
    /\ tardy \in [Keys -> {"none", "under way", "astray", "landed"}]
    /\ payouts \in [Keys -> SUBSET Nat]

(* The rail.                                                               *)
Invoices == [price : Nat, status : {"pending", "paid", "redeemed", "expired"}, for : Keys, on : Nat]
States == [index : Nat, peer : Nat]
Posts == [invoice : Nat, channel : Nat \ {0}, index : Nat, peer : Nat]
Begins == [at : {"loading", "faucet", "plain"}, invoice : Nat]
Readings == [at : {"reading"}, invoice : Nat, channel : Nat \ {0}]
Postings == [at : {"posting"}, post : Posts]

RailTypes ==
    /\ invoices \in Seq(Invoices)
    /\ channels \in Seq(States)
    /\ cached \in 0 .. Len(channels)
    /\ saved \in 0 .. Len(channels)
    /\ call \in [Chains -> {Calm} \cup Begins \cup Readings \cup Postings]
    /\ \A c \in Chains : call[c].at = "reading" => call[c].channel <= Len(channels)
    /\ late \subseteq Posts

-----------------------------------------------------------------------------
(* Versions of the file: what a later one (b) keeps of an older one (a).   *)
Keeps(b, a) ==
    \A k \in Keys :
        /\ a.convert[k].status # "none" => b.convert[k].status # "none"
        /\ a.convert[k].status = "converted" => b.convert[k].status = "converted"
        /\ a.convert[k].sent # 0 => b.convert[k].sent = a.convert[k].sent
        /\ a.ask[k].status # "none" => b.ask[k].status # "none"
        /\ a.ask[k].status = "answered" => b.ask[k].status = "answered"

(* An invoice is kept while it has not expired in the provider's books v.  *)
Live(v, i) == i # NoInvoice /\ v[i].status # "expired"

Pins(v, b, a) ==
    \A k \in Keys : Live(v, a.ask[k].invoice) => b.ask[k].invoice = a.ask[k].invoice

After(v, b, a) == Keeps(b, a) /\ Pins(v, b, a)

Done(m, e) == IF e[1] = "convert" THEN m.convert[e[2]].status = "converted"
              ELSE m.ask[e[2]].status = "answered"

(* What a version tells of the payouts P and the invoices v, and of what   *)
(* it attests.                                                             *)
Truthful(m, P, v) ==
    /\ \A k \in Keys :
        /\ m.convert[k].status = "none" => m.convert[k].sent = 0
        /\ m.convert[k].status = "converted" =>
             m.convert[k].sent # 0 /\ m.convert[k].sent \in P[k]
        /\ m.ask[k].status = "none" => m.ask[k].invoice = NoInvoice
        /\ m.ask[k].status = "answered" =>
             m.ask[k].invoice # NoInvoice /\ v[m.ask[k].invoice].status = "redeemed"
        /\ m.ask[k].invoice # NoInvoice =>
             m.ask[k].invoice \in DOMAIN v /\ v[m.ask[k].invoice].for = k
    /\ \A e \in Events : m.att[e] # "none" => Done(m, e)

(* Memory m, file d and the queue q, in their order.                       *)
Ordered(m, d, q, P, v) ==
    /\ After(v, m, d) /\ Truthful(m, P, v) /\ Truthful(d, P, v)
    /\ \A i \in 1 .. Len(q) :
        /\ Truthful(q[i].state, P, v)
        /\ After(v, q[i].state, d) /\ After(v, m, q[i].state)
        /\ \A j \in 1 .. Len(q) : i <= j => After(v, q[j].state, q[i].state)

VersionInv == Ordered(mem, disk, saveChain, payouts, invoices)

(* A queued write is its chain's only one, and holds what the chain goes   *)
(* on with.                                                                *)
Holds(w, s, m) ==
    /\ w.at = "sent" => s.convert[w.key].sent # 0
    /\ w.at = "pinned" => s.ask[w.key].invoice = m.ask[w.key].invoice

WriteInv ==
    \A i \in 1 .. Len(saveChain) : \A c \in Chains : saveChain[i].by = c =>
        /\ pc[c].at \in Waiting
        /\ Holds(pc[c], saveChain[i].state, mem)
        /\ \A j \in 1 .. Len(saveChain) : saveChain[j].by = c => i = j

-----------------------------------------------------------------------------
(* One chain at a time converts a loop, and one asks for it.               *)
Converts(w, k) ==
    /\ w # Idle
    /\ w.key = k
    /\ w.at \in Sending \/ (w.at \in Attesting /\ w.event = "convert")

Asks(w, k) ==
    /\ w # Idle
    /\ w.key = k
    /\ w.at \in Asking \/ (w.at \in Attesting /\ w.event = "ask")

FlightInv ==
    \A c, d \in Chains, k \in Keys :
        c # d => ~(Converts(pc[c], k) /\ Converts(pc[d], k)) /\ ~(Asks(pc[c], k) /\ Asks(pc[d], k))

(* The record a chain at w was started on is still there ...               *)
Begun(w, m) ==
    /\ w.at \in Sending \cup {"claimed"} => m.convert[w.key].status # "none"
    /\ w.at = "converted" => m.convert[w.key].status = "converted"
    /\ w.at \in Attesting \cup {"resign"} => Done(m, <<w.event, w.key>>)
    /\ w.at \in Asking \cup {"asked"} => m.ask[w.key].status # "none"
    /\ w.at = "answered" => m.ask[w.key].status = "answered"

(* ... and so is what it has looked at: the invoice is out of use or on    *)
(* disk (d) before it is paid, the deposit is before it is paid out for,   *)
(* and nothing is sent but when nothing was found.                         *)
Pinned(v, d, i) == v[i].status = "expired" \/ d.ask[v[i].for].invoice = i

Landed(x) == IF x = "landed" THEN 1 ELSE 0

Stands(w, m, d, money, lost, v) ==
    /\ w.at \in {"chain", "send"} => m.convert[w.key].sent = 0
    /\ w.at = "send" => money[w.key] <= Landed(lost[w.key])
    /\ w.at = "execute" => d.convert[w.key].sent # 0
    /\ w.at = "challenge" => m.ask[w.key].invoice = NoInvoice
    /\ w.at = "pinned" => m.ask[w.key].invoice # NoInvoice
    /\ w.at \in {"status", "paying", "redeem"} =>
         m.ask[w.key].invoice # NoInvoice /\ Pinned(v, d, m.ask[w.key].invoice)

PlaceInv ==
    \A c \in Chains : Begun(pc[c], mem) /\ Stands(pc[c], mem, disk, treasury, tardy, invoices)

(* A deposit, or an invoice, that memory names is on disk or being saved.  *)
SavedInv ==
    \A k \in Keys :
        /\ Convert(k).sent = 0 \/ disk.convert[k].sent # 0
             \/ \E c \in Chains : pc[c].at = "sent" /\ pc[c].key = k
        /\ Ask(k).invoice = NoInvoice \/ Pinned(invoices, disk, Ask(k).invoice)
             \/ \E c \in Chains : pc[c].at = "pinned" /\ pc[c].key = k

MoneyInv ==
    \A k \in Keys :
        /\ treasury[k] <= 1 + Landed(tardy[k])
        /\ \A tx \in payouts[k] : tx # 0 /\ tx = disk.convert[k].sent

(* The invoice a payer tries to pay is its loop's; what was paid, or still *)
(* may be, is on disk.                                                     *)
Tries(x) == IF x.at = "posting" THEN x.post.invoice ELSE x.invoice

RailInv ==
    /\ \A c \in Chains : call[c] # Calm =>
         pc[c].at = "paying" /\ Tries(call[c]) = Ask(pc[c].key).invoice
    /\ \A post \in late : post.invoice \in DOMAIN invoices /\ Pinned(invoices, disk, post.invoice)
    /\ \A i \in DOMAIN invoices :
        /\ invoices[i].status \in {"paid", "redeemed"} <=> invoices[i].on # 0
        /\ invoices[i].on # 0 => Pinned(invoices, disk, i)

LegsInv ==
    /\ StoreTypes /\ WorldTypes /\ RailTypes
    /\ VersionInv /\ WriteInv /\ FlightInv /\ PlaceInv
    /\ SavedInv /\ MoneyInv /\ RailInv

-----------------------------------------------------------------------------
(* Places and versions.                                                    *)
LEMMA PlaceTypes ==
    ASSUME NEW w \in Places
    PROVE  /\ w = Idle <=> w.at = "idle"
           /\ w # Idle => w.key \in Keys
           /\ w.at \in Attesting \cup {"resign"} =>
                w.event \in Kinds /\ <<w.event, w.key>> \in Events
BY DEF Places, Idle, Working, Attesting, Events

LEMMA VersionTypes ==
    ASSUME NEW m \in Versions, NEW k \in Keys
    PROVE  /\ m.convert[k].status \in {"none", "converting", "converted"}
           /\ m.convert[k].sent \in Nat
           /\ m.ask[k].status \in {"none", "asking", "answered"}
           /\ m.ask[k].invoice \in Nat
BY DEF Versions

(* What follows: the edits that are put.                                   *)
LEMMA ConvertEdit ==
    ASSUME NEW m \in Versions, NEW k \in Keys,
           NEW r \in [status : {"none", "converting", "converted"}, sent : Nat]
    PROVE  /\ [m EXCEPT !.convert[k] = r] \in Versions
           /\ [m EXCEPT !.convert[k] = r].convert[k] = r
           /\ \A j \in Keys : j # k => [m EXCEPT !.convert[k] = r].convert[j] = m.convert[j]
           /\ [m EXCEPT !.convert[k] = r].ask = m.ask
           /\ [m EXCEPT !.convert[k] = r].att = m.att
BY DEF Versions

LEMMA AskEdit ==
    ASSUME NEW m \in Versions, NEW k \in Keys,
           NEW r \in [status : {"none", "asking", "answered"}, invoice : Nat]
    PROVE  /\ [m EXCEPT !.ask[k] = r] \in Versions
           /\ [m EXCEPT !.ask[k] = r].ask[k] = r
           /\ \A j \in Keys : j # k => [m EXCEPT !.ask[k] = r].ask[j] = m.ask[j]
           /\ [m EXCEPT !.ask[k] = r].convert = m.convert
           /\ [m EXCEPT !.ask[k] = r].att = m.att
BY DEF Versions

LEMMA AttEdit ==
    ASSUME NEW m \in Versions, NEW e \in Events, NEW v \in {"none", "unsigned", "signed"}
    PROVE  /\ [m EXCEPT !.att[e] = v] \in Versions
           /\ [m EXCEPT !.att[e] = v].convert = m.convert
           /\ [m EXCEPT !.att[e] = v].ask = m.ask
           /\ \A f \in Events : f # e => [m EXCEPT !.att[e] = v].att[f] = m.att[f]
BY DEF Versions

LEMMA KeepsOrder ==
    ASSUME NEW a, NEW b, NEW e, NEW v
    PROVE  /\ After(v, a, a)
           /\ After(v, b, a) /\ After(v, e, b) => After(v, e, a)
<1>1. Keeps(a, a) /\ Pins(v, a, a)
  BY DEF Keeps, Pins
<1>2. Keeps(b, a) /\ Keeps(e, b) => Keeps(e, a)
  BY DEF Keeps
<1>3. Pins(v, b, a) /\ Pins(v, e, b) => Pins(v, e, a)
  BY DEF Pins
<1> QED
  BY <1>1, <1>2, <1>3 DEF After

-----------------------------------------------------------------------------
(* The provider's books.                                                   *)

(* Books w, later than v: every invoice is still there, for the same loop, *)
(* and one that is out of use stays so.                                    *)
Later(w, v) ==
    \A i \in DOMAIN v :
        /\ i \in DOMAIN w
        /\ w[i].for = v[i].for
        /\ v[i].status \in {"expired", "redeemed"} => w[i].status = v[i].status

Names(m, v) ==
    \A k \in Keys : m.ask[k].invoice # NoInvoice =>
        m.ask[k].invoice \in DOMAIN v /\ v[m.ask[k].invoice].for = k

LEMMA TruthfulNames ==
    ASSUME NEW m, NEW P, NEW v, Truthful(m, P, v)
    PROVE  Names(m, v)
BY DEF Truthful, Names

LEMMA AfterLater ==
    ASSUME NEW a, NEW b, NEW v, NEW w, Later(w, v), Names(a, v), After(v, b, a)
    PROVE  After(w, b, a)
BY DEF Later, Names, After, Pins, Live

LEMMA TruthfulLater ==
    ASSUME NEW m, NEW P, NEW Q, NEW v, NEW w, Later(w, v), Truthful(m, P, v),
           \A k \in Keys : P[k] \subseteq Q[k]
    PROVE  Truthful(m, Q, w)
BY DEF Later, Truthful

LEMMA PinnedLater ==
    ASSUME NEW d, NEW e, NEW v, NEW w, Later(w, v), NEW i \in DOMAIN v, v[i].for \in Keys,
           i # NoInvoice, Pinned(v, d, i), Pins(w, e, d)
    PROVE  Pinned(w, e, i)
BY DEF Later, Pinned, Pins, Live

LEMMA OrderedLater ==
    ASSUME NEW m, NEW d, NEW q, NEW P, NEW Q, NEW v, NEW w, Ordered(m, d, q, P, v), Later(w, v),
           \A k \in Keys : P[k] \subseteq Q[k]
    PROVE  Ordered(m, d, q, Q, w)
<1>1. /\ Names(m, v) /\ Names(d, v)
      /\ \A i \in 1 .. Len(q) : Names(q[i].state, v)
  BY TruthfulNames DEF Ordered
<1>2. /\ Truthful(m, Q, w) /\ Truthful(d, Q, w)
      /\ \A i \in 1 .. Len(q) : Truthful(q[i].state, Q, w)
  BY TruthfulLater DEF Ordered
<1>3. /\ After(w, m, d)
      /\ \A i \in 1 .. Len(q) : After(w, q[i].state, d) /\ After(w, m, q[i].state)
  BY <1>1, AfterLater DEF Ordered
<1>4. \A i, j \in 1 .. Len(q) : i <= j => After(w, q[j].state, q[i].state)
  BY <1>1, AfterLater DEF Ordered
<1> QED
  BY <1>2, <1>3, <1>4 DEF Ordered

-----------------------------------------------------------------------------
(* The store.                                                              *)

(* The queue of writes after each of the store's operations.               *)
LEMMA Queue ==
    ASSUME StoreTypes, NEW t \in Chains, NEW m \in Versions
    PROVE  /\ Len(saveChain) \in Nat
           /\ \A i \in 1 .. Len(saveChain) :
                saveChain[i].by \in Chains /\ saveChain[i].state \in Versions
           /\ Put(t, m) =>
                /\ saveChain' \in Seq(Writes)
                /\ Len(saveChain') = Len(saveChain) + 1
                /\ \A i \in 1 .. Len(saveChain) : saveChain'[i] = saveChain[i]
                /\ saveChain'[Len(saveChain) + 1] = Write(t, m)
           /\ Settle(t) \/ SettlePut(t, m) =>
                /\ Len(saveChain) > 0
                /\ saveChain[1].by = t
                /\ disk' = saveChain[1].state
           /\ Settle(t) =>
                /\ saveChain' \in Seq(Writes)
                /\ Len(saveChain') = Len(saveChain) - 1
                /\ \A i \in 1 .. (Len(saveChain) - 1) : saveChain'[i] = saveChain[i + 1]
           /\ SettlePut(t, m) =>
                /\ saveChain' \in Seq(Writes)
                /\ Len(saveChain') = Len(saveChain)
                /\ \A i \in 1 .. (Len(saveChain) - 1) : saveChain'[i] = saveChain[i + 1]
                /\ saveChain'[Len(saveChain)] = Write(t, m)
<1>1. saveChain \in Seq(Writes) /\ Write(t, m) \in Writes
  BY DEF StoreTypes, Write, Writes
<1>2. \A w \in Writes : w.by \in Chains /\ w.state \in Versions
  BY DEF Writes
<1>3. Len(saveChain) \in Nat /\ \A i \in 1 .. Len(saveChain) : saveChain[i] \in Writes
  BY <1>1
<1>4. ASSUME Put(t, m)
      PROVE  /\ saveChain' \in Seq(Writes)
             /\ Len(saveChain') = Len(saveChain) + 1
             /\ \A i \in 1 .. Len(saveChain) : saveChain'[i] = saveChain[i]
             /\ saveChain'[Len(saveChain) + 1] = Write(t, m)
  BY <1>1, <1>4, AppendProperties DEF Put
<1>5. Written(t) => /\ saveChain # <<>> /\ Len(saveChain) > 0 /\ Head(saveChain) = saveChain[1]
                    /\ Tail(saveChain) \in Seq(Writes)
                    /\ Len(Tail(saveChain)) = Len(saveChain) - 1
                    /\ \A i \in 1 .. (Len(saveChain) - 1) : Tail(saveChain)[i] = saveChain[i + 1]
  BY <1>1, HeadTailProperties, EmptySeq DEF Written
<1>6. ASSUME Settle(t) \/ SettlePut(t, m)
      PROVE  /\ Written(t) /\ saveChain[1].by = t /\ disk' = saveChain[1].state
  BY <1>5, <1>6 DEF Settle, SettlePut, Written
<1>7. ASSUME Settle(t)
      PROVE  saveChain' = Tail(saveChain)
  BY <1>7 DEF Settle
<1>8. ASSUME SettlePut(t, m)
      PROVE  /\ saveChain' \in Seq(Writes)
             /\ Len(saveChain') = Len(saveChain)
             /\ \A i \in 1 .. (Len(saveChain) - 1) : saveChain'[i] = saveChain[i + 1]
             /\ saveChain'[Len(saveChain)] = Write(t, m)
  <2>1. saveChain' = Append(Tail(saveChain), Write(t, m))
    BY <1>8 DEF SettlePut
  <2> DEFINE s == Tail(saveChain)
  <2>2. s \in Seq(Writes) /\ Len(s) = Len(saveChain) - 1
        /\ \A i \in 1 .. (Len(saveChain) - 1) : s[i] = saveChain[i + 1]
    BY <1>5, <1>6, <1>8
  <2> HIDE DEF s
  <2>3. /\ Append(s, Write(t, m)) \in Seq(Writes)
        /\ Len(Append(s, Write(t, m))) = Len(s) + 1
        /\ \A i \in 1 .. Len(s) : Append(s, Write(t, m))[i] = s[i]
        /\ Append(s, Write(t, m))[Len(s) + 1] = Write(t, m)
    BY <1>1, <2>2, AppendProperties
  <2>4. Len(s) + 1 = Len(saveChain)
    BY <1>3, <2>2
  <2> QED
    BY <2>1, <2>2, <2>3, <2>4 DEF s
<1> QED
  BY <1>2, <1>3, <1>4, <1>5, <1>6, <1>7, <1>8

(* Whatever is put keeps what memory has: versions stay in their order.    *)
LEMMA StoreKeeps ==
    ASSUME StoreTypes, NEW P, NEW v, Ordered(mem, disk, saveChain, P, v),
           NEW t \in Chains, NEW m \in Versions, After(v, m, mem), Truthful(m, P, v),
           \/ Put(t, m) \/ Settle(t) \/ SettlePut(t, m) \/ UNCHANGED storeVars
    PROVE  /\ StoreTypes'
           /\ Ordered(mem', disk', saveChain', P, v)
           /\ After(v, mem', mem) /\ After(v, disk', disk)
<1> DEFINE n == Len(saveChain)
<1>1. /\ n \in Nat /\ mem \in Versions /\ disk \in Versions /\ saveChain \in Seq(Writes)
      /\ \A i \in 1 .. n : saveChain[i].state \in Versions
      /\ After(v, mem, disk) /\ After(v, mem, mem) /\ After(v, disk, disk) /\ After(v, m, m)
      /\ After(v, m, disk) /\ Truthful(mem, P, v) /\ Truthful(disk, P, v)
  BY Queue, KeepsOrder DEF StoreTypes, Ordered
<1>2. \A i \in 1 .. n :
        /\ Truthful(saveChain[i].state, P, v)
        /\ After(v, saveChain[i].state, disk) /\ After(v, mem, saveChain[i].state)
        /\ After(v, m, saveChain[i].state)
        /\ \A j \in 1 .. n : i <= j => After(v, saveChain[j].state, saveChain[i].state)
  BY <1>1, KeepsOrder DEF Ordered
<1>3. Write(t, m).state = m
  BY DEF Write
<1>4. CASE Put(t, m)
  <2>1. /\ Len(saveChain') = n + 1 /\ saveChain'[n + 1] = Write(t, m)
        /\ \A i \in 1 .. n : saveChain'[i] = saveChain[i]
        /\ mem' = m /\ disk' = disk /\ saveChain' \in Seq(Writes)
    BY <1>4, Queue DEF Put
  <2> HIDE DEF n
  <2>2. ASSUME NEW i \in 1 .. (n + 1)
        PROVE  /\ Truthful(saveChain'[i].state, P, v)
               /\ After(v, saveChain'[i].state, disk) /\ After(v, m, saveChain'[i].state)
               /\ \A j \in 1 .. (n + 1) : i <= j => After(v, saveChain'[j].state, saveChain'[i].state)
    <3>1. i \in 1 .. n \/ i = n + 1
      BY <1>1
    <3> QED
      BY <1>1, <1>2, <1>3, <2>1, <3>1
  <2>3. StoreTypes'
    BY <1>1, <2>1 DEF StoreTypes
  <2> QED
    BY <1>1, <2>1, <2>2, <2>3 DEF Ordered
<1>5. CASE Settle(t)
  <2>1. /\ Len(saveChain') = n - 1 /\ n > 0
        /\ \A i \in 1 .. (n - 1) : saveChain'[i] = saveChain[i + 1]
        /\ mem' = mem /\ disk' = saveChain[1].state /\ saveChain' \in Seq(Writes)
    BY <1>5, Queue DEF Settle
  <2> HIDE DEF n
  <2>2. ASSUME NEW i \in 1 .. (n - 1)
        PROVE  /\ Truthful(saveChain'[i].state, P, v)
               /\ After(v, saveChain'[i].state, disk') /\ After(v, mem, saveChain'[i].state)
               /\ \A j \in 1 .. (n - 1) : i <= j => After(v, saveChain'[j].state, saveChain'[i].state)
    <3>1. i + 1 \in 1 .. n /\ 1 \in 1 .. n /\ 1 <= i + 1
      BY <1>1, <2>1
    <3>2. /\ Truthful(saveChain[i + 1].state, P, v)
          /\ After(v, saveChain[i + 1].state, saveChain[1].state)
          /\ After(v, mem, saveChain[i + 1].state)
      BY <1>2, <3>1
    <3>3. ASSUME NEW j \in 1 .. (n - 1), i <= j
          PROVE  After(v, saveChain'[j].state, saveChain'[i].state)
      <4>1. j + 1 \in 1 .. n /\ i + 1 <= j + 1
        BY <1>1, <2>1, <3>3
      <4> QED
        BY <1>2, <2>1, <3>1, <4>1
    <3> QED
      BY <2>1, <3>2, <3>3
  <2>3. 1 \in 1 .. n
    BY <1>1, <2>1
  <2>4. StoreTypes'
    BY <1>1, <2>1, <2>3 DEF StoreTypes
  <2> QED
    BY <1>1, <1>2, <2>1, <2>2, <2>3, <2>4 DEF Ordered
<1>6. CASE SettlePut(t, m)
  <2>1. /\ Len(saveChain') = n /\ n > 0
        /\ \A i \in 1 .. (n - 1) : saveChain'[i] = saveChain[i + 1]
        /\ saveChain'[n] = Write(t, m)
        /\ mem' = m /\ disk' = saveChain[1].state /\ saveChain' \in Seq(Writes)
    BY <1>6, Queue DEF SettlePut
  <2> HIDE DEF n
  <2>a. 1 \in 1 .. n
    BY <1>1, <2>1
  <2>2. ASSUME NEW i \in 1 .. n
        PROVE  /\ Truthful(saveChain'[i].state, P, v)
               /\ After(v, saveChain'[i].state, disk') /\ After(v, m, saveChain'[i].state)
               /\ \A j \in 1 .. n : i <= j => After(v, saveChain'[j].state, saveChain'[i].state)
    <3>1. CASE i = n
      <4>1. \A j \in 1 .. n : i <= j => j = n
        BY <1>1, <3>1
      <4> QED
        BY <1>1, <1>2, <1>3, <2>1, <2>a, <3>1, <4>1
    <3>2. CASE i # n
      <4>1. i \in 1 .. (n - 1) /\ i + 1 \in 1 .. n /\ 1 <= i + 1
        BY <1>1, <2>1, <3>2
      <4>2. ASSUME NEW j \in 1 .. n, i <= j
            PROVE  After(v, saveChain'[j].state, saveChain'[i].state)
        <5>1. CASE j = n
          BY <1>2, <1>3, <2>1, <4>1, <5>1
        <5>2. CASE j # n
          <6>1. j \in 1 .. (n - 1) /\ j + 1 \in 1 .. n /\ i + 1 <= j + 1
            BY <1>1, <2>1, <4>2, <5>2
          <6> QED
            BY <1>2, <2>1, <4>1, <6>1
        <5> QED
          BY <5>1, <5>2
      <4> QED
        BY <1>2, <2>1, <2>a, <4>1, <4>2
    <3> QED
      BY <3>1, <3>2
  <2>3. StoreTypes'
    BY <1>1, <2>1, <2>a DEF StoreTypes
  <2> QED
    BY <1>1, <1>2, <2>1, <2>2, <2>3, <2>a DEF Ordered
<1>8. CASE UNCHANGED storeVars
  <2>1. mem' = mem /\ disk' = disk /\ saveChain' = saveChain
    BY <1>8 DEF storeVars
  <2> QED
    BY <1>1, <2>1 DEF StoreTypes
<1> QED
  BY <1>4, <1>5, <1>6, <1>8

-----------------------------------------------------------------------------
(* A step of chain c, from where it is to w.  It puts when it awaits no    *)
(* write of its own, or goes straight from one to the next.                *)
StoreMoves(c, w) ==
    \/ UNCHANGED storeVars /\ pc[c].at \notin Waiting /\ w.at \notin Waiting
    \/ Put(c, mem') /\ pc[c].at \notin Waiting /\ w.at \in Waiting /\ Holds(w, mem', mem')
    \/ Settle(c) /\ pc[c].at \in Waiting /\ w.at \notin Waiting
    \/ SettlePut(c, mem') /\ pc[c].at \in Waiting /\ w.at \in Waiting /\ Holds(w, mem', mem')

(* The other chains stay where they are, but for a hook that starts.       *)
OthersStay(c) ==
    \A d \in Chains : d # c =>
        \/ pc'[d] = pc[d]
        \/ pc[d] = Idle /\ pc'[d].at = "start" /\ pc'[d].key \in Keys

LEMMA WritesKeep ==
    ASSUME StoreTypes, WriteInv, mem' \in Versions, NEW c \in Chains, NEW w, pc'[c] = w,
           StoreMoves(c, w), OthersStay(c),
           \A d \in Chains : d # c /\ pc[d].at = "pinned" =>
             mem'.ask[pc[d].key].invoice = mem.ask[pc[d].key].invoice
    PROVE  WriteInv'
<1> DEFINE n == Len(saveChain)
<1>1. n \in Nat /\ Write(c, mem').by = c /\ Write(c, mem').state = mem'
  BY Queue DEF Write
<1>2. ASSUME NEW i \in 1 .. n, NEW d \in Chains, saveChain[i].by = d
      PROVE  /\ pc[d].at \in Waiting
             /\ d # c => pc'[d].at \in Waiting /\ Holds(pc'[d], saveChain[i].state, mem')
             /\ \A j \in 1 .. n : saveChain[j].by = d => j = i
  <2>1. /\ pc[d].at \in Waiting /\ Holds(pc[d], saveChain[i].state, mem)
        /\ \A j \in 1 .. n : saveChain[j].by = d => j = i
    BY <1>2 DEF WriteInv
  <2>2. ASSUME d # c
        PROVE  pc'[d] = pc[d]
    BY <2>1, <2>2 DEF OthersStay, Waiting, Idle
  <2> QED
    BY <2>1, <2>2 DEF Holds
<1>3. CASE Put(c, mem') /\ pc[c].at \notin Waiting /\ w.at \in Waiting /\ Holds(w, mem', mem')
  <2>1. /\ Len(saveChain') = n + 1 /\ saveChain'[n + 1] = Write(c, mem')
        /\ \A i \in 1 .. n : saveChain'[i] = saveChain[i]
    BY <1>3, Queue
  <2>2. \A i \in 1 .. n : saveChain[i].by # c
    BY <1>2, <1>3
  <2> HIDE DEF n
  <2> SUFFICES ASSUME NEW i \in 1 .. (n + 1), NEW d \in Chains, saveChain'[i].by = d
               PROVE  /\ pc'[d].at \in Waiting /\ Holds(pc'[d], saveChain'[i].state, mem')
                      /\ \A j \in 1 .. (n + 1) : saveChain'[j].by = d => i = j
    BY <2>1 DEF WriteInv
  <2>3. \A j \in 1 .. (n + 1) : j \in 1 .. n \/ j = n + 1
    BY <1>1
  <2>4. CASE d = c
    <3>1. i = n + 1 /\ \A j \in 1 .. (n + 1) : saveChain'[j].by = d => j = n + 1
      BY <2>1, <2>2, <2>3, <2>4
    <3> QED
      BY <1>1, <1>3, <2>1, <2>4, <3>1
  <2>5. CASE d # c
    <3>1. i \in 1 .. n /\ saveChain[i].by = d
      BY <1>1, <2>1, <2>3, <2>5
    <3>2. \A j \in 1 .. (n + 1) : saveChain'[j].by = d => j \in 1 .. n /\ saveChain[j].by = d
      BY <1>1, <2>1, <2>3, <2>5
    <3> QED
      BY <1>2, <2>1, <2>5, <3>1, <3>2
  <2> QED
    BY <2>4, <2>5
<1>4. CASE Settle(c) /\ pc[c].at \in Waiting /\ w.at \notin Waiting
  <2>1. /\ Len(saveChain') = n - 1 /\ n > 0 /\ saveChain[1].by = c
        /\ \A i \in 1 .. (n - 1) : saveChain'[i] = saveChain[i + 1]
    BY <1>4, Queue
  <2> HIDE DEF n
  <2> SUFFICES ASSUME NEW i \in 1 .. (n - 1), NEW d \in Chains, saveChain'[i].by = d
               PROVE  /\ pc'[d].at \in Waiting /\ Holds(pc'[d], saveChain'[i].state, mem')
                      /\ \A j \in 1 .. (n - 1) : saveChain'[j].by = d => i = j
    BY <2>1 DEF WriteInv
  <2>2. i + 1 \in 1 .. n /\ 1 \in 1 .. n /\ i + 1 # 1 /\ saveChain[i + 1].by = d
    BY <1>1, <2>1
  <2>3. d # c
    BY <1>2, <2>1, <2>2
  <2>4. \A j \in 1 .. (n - 1) : saveChain'[j].by = d => j + 1 = i + 1
    <3>1. \A j \in 1 .. (n - 1) : j + 1 \in 1 .. n
      BY <1>1
    <3> QED
      BY <1>2, <2>1, <2>2, <3>1
  <2>5. \A j \in 1 .. (n - 1) : j + 1 = i + 1 => j = i
    BY <1>1
  <2> QED
    BY <1>2, <2>1, <2>2, <2>3, <2>4, <2>5
<1>5. CASE SettlePut(c, mem') /\ pc[c].at \in Waiting /\ w.at \in Waiting /\ Holds(w, mem', mem')
  <2>1. /\ Len(saveChain') = n /\ n > 0 /\ saveChain[1].by = c
        /\ \A i \in 1 .. (n - 1) : saveChain'[i] = saveChain[i + 1]
        /\ saveChain'[n] = Write(c, mem')
    BY <1>5, Queue
  <2> HIDE DEF n
  <2> SUFFICES ASSUME NEW i \in 1 .. n, NEW d \in Chains, saveChain'[i].by = d
               PROVE  /\ pc'[d].at \in Waiting /\ Holds(pc'[d], saveChain'[i].state, mem')
                      /\ \A j \in 1 .. n : saveChain'[j].by = d => i = j
    BY <2>1 DEF WriteInv
  <2>2. 1 \in 1 .. n /\ \A j \in 1 .. n : j = n \/ (j \in 1 .. (n - 1) /\ j + 1 \in 1 .. n /\ j + 1 # 1)
    BY <1>1, <2>1
  <2>3. \A j \in 1 .. n : j # n => saveChain'[j].by # c
    BY <1>2, <2>1, <2>2
  <2>4. CASE d = c
    <3>1. i = n /\ \A j \in 1 .. n : saveChain'[j].by = d => j = n
      BY <2>3, <2>4
    <3> QED
      BY <1>1, <1>5, <2>1, <2>4, <3>1
  <2>5. CASE d # c
    <3>1. \A j \in 1 .. n : saveChain'[j].by = d => j # n
      BY <1>1, <2>1, <2>5
    <3>2. \A j \in 1 .. n : saveChain'[j].by = d => j + 1 \in 1 .. n /\ saveChain[j + 1].by = d
      BY <2>1, <2>2, <3>1
    <3>3. saveChain'[i] = saveChain[i + 1]
      BY <2>1, <2>2, <3>1
    <3>4. \A j \in 1 .. n : saveChain'[j].by = d => j + 1 = i + 1
      BY <1>2, <3>2
    <3>5. \A j \in 1 .. n : j + 1 = i + 1 => j = i
      BY <1>1
    <3> QED
      BY <1>2, <2>5, <3>2, <3>3, <3>4, <3>5
  <2> QED
    BY <2>4, <2>5
<1>6. CASE UNCHANGED storeVars /\ pc[c].at \notin Waiting /\ w.at \notin Waiting
  <2>1. saveChain' = saveChain
    BY <1>6 DEF storeVars
  <2>2. \A i \in 1 .. n : saveChain[i].by # c
    BY <1>2, <1>6
  <2> SUFFICES ASSUME NEW i \in 1 .. n, NEW d \in Chains, saveChain[i].by = d
               PROVE  /\ pc'[d].at \in Waiting /\ Holds(pc'[d], saveChain[i].state, mem')
                      /\ \A j \in 1 .. n : saveChain[j].by = d => i = j
    BY <2>1 DEF WriteInv
  <2> QED
    BY <1>2, <2>2
<1> QED
  BY <1>3, <1>4, <1>5, <1>6 DEF StoreMoves

(* The write that completes holds what its chain goes on with.             *)
LEMMA WrittenHolds ==
    ASSUME StoreTypes, WriteInv, mem' \in Versions, NEW c \in Chains,
           Settle(c) \/ SettlePut(c, mem')
    PROVE  /\ pc[c].at = "sent" => disk'.convert[pc[c].key].sent # 0
           /\ pc[c].at = "pinned" => disk'.ask[pc[c].key].invoice = mem.ask[pc[c].key].invoice
<1>1. /\ Len(saveChain) \in Nat /\ Len(saveChain) > 0
      /\ saveChain[1].by = c /\ disk' = saveChain[1].state
  BY Queue
<1>2. 1 \in 1 .. Len(saveChain)
  BY <1>1
<1>3. Holds(pc[c], saveChain[1].state, mem)
  BY <1>1, <1>2 DEF WriteInv
<1> QED
  BY <1>1, <1>3 DEF Holds

-----------------------------------------------------------------------------
(* A step of a chain.                                                      *)

(* It takes up a loop that no chain has in flight.                         *)
PlaceMoves(c, w) ==
    /\ w \in Places
    /\ pc' \in [Chains -> Places]
    /\ pc'[c] = w
    /\ OthersStay(c)
    /\ \A k \in Keys :
        /\ Converts(w, k) => Converts(pc[c], k) \/ ~ConvertInFlight(k)
        /\ Asks(w, k) => Asks(pc[c], k) \/ ~AskInFlight(k)

(* It edits the record of the loop it has in flight, or claims one.        *)
Edits(c, w) ==
    /\ mem' \in Versions
    /\ After(invoices', mem', mem)
    /\ Truthful(mem', payouts', invoices')
    /\ \A k \in Keys :
        /\ mem'.convert[k] # mem.convert[k] =>
             mem.convert[k].status = "none" \/ Converts(pc[c], k)
        /\ mem'.convert[k].sent \notin {0, mem.convert[k].sent} => w.at = "sent" /\ w.key = k
        /\ mem'.ask[k] # mem.ask[k] => mem.ask[k].status = "none" \/ Asks(pc[c], k)
        /\ mem'.ask[k].invoice \notin {NoInvoice, mem.ask[k].invoice} =>
             w.at = "pinned" /\ w.key = k

(* It sends where it stands to send, and a payout is for a deposit on disk.*)
Pays(c) ==
    /\ treasury' \in [Keys -> Nat]
    /\ tardy' \in [Keys -> {"none", "under way", "astray", "landed"}]
    /\ payouts' \in [Keys -> SUBSET Nat]
    /\ \A k \in Keys :
        /\ tardy'[k] = "landed" <=> tardy[k] = "landed"
        /\ treasury'[k] # treasury[k] =>
             treasury'[k] = treasury[k] + 1 /\ pc[c].at = "send" /\ pc[c].key = k
        /\ payouts[k] \subseteq payouts'[k]
        /\ \A tx \in payouts'[k] :
             tx \in payouts[k] \/ (tx = mem.convert[k].sent /\ disk.convert[k].sent # 0)

(* The rail: what is paid, or may be paid later, is pinned.                *)
InvoicesMove ==
    /\ Later(invoices', invoices)
    /\ \A post \in late' :
         post \in late \/ (post.invoice \in DOMAIN invoices /\ Pinned(invoices, disk, post.invoice))
    /\ \A i \in DOMAIN invoices' :
        /\ invoices'[i].status \in {"paid", "redeemed"} <=> invoices'[i].on # 0
        /\ invoices'[i].on # 0 =>
             i \in DOMAIN invoices /\ (invoices[i].on # 0 \/ Pinned(invoices, disk, i))

Rails(c, w) ==
    /\ RailTypes'
    /\ InvoicesMove
    /\ \A d \in Chains : d # c => call'[d] = call[d]
    /\ call'[c] # Calm => w.at = "paying" /\ Tries(call'[c]) = mem'.ask[w.key].invoice

(* What it goes on with is so.                                             *)
Fresh(w) == Begun(w, mem') /\ Stands(w, mem', disk', treasury', tardy', invoices')

LEMMA InFlight ==
    ASSUME NEW w, NEW k, w.key = k
    PROVE  /\ w.at \in Sending => Converts(w, k)
           /\ w.at \in Asking => Asks(w, k)
           /\ w.at \in Attesting /\ w.event = "convert" => Converts(w, k)
           /\ w.at \in Attesting /\ w.event = "ask" => Asks(w, k)
<1>1. w.at \in Sending \cup Asking \cup Attesting => w.at # "idle"
  BY DEF Sending, Asking, Attesting
<1>2. w = Idle => w.at = "idle"
  BY DEF Idle
<1> QED
  BY <1>1, <1>2 DEF Converts, Asks

(* What memory has of a loop in the flight of another chain stays.         *)
LEMMA OthersKeep ==
    ASSUME LegsInv, NEW c \in Chains, NEW w, Edits(c, w), Pays(c),
           NEW d \in Chains, d # c, NEW k \in Keys
    PROVE  /\ Converts(pc[d], k) => /\ mem.convert[k].status # "none"
                                    /\ mem'.convert[k] = mem.convert[k]
                                    /\ treasury'[k] = treasury[k]
           /\ Asks(pc[d], k) => /\ mem.ask[k].status # "none" \/ pc[d].at \in Attesting
                                /\ mem.ask[k].status # "none" => mem'.ask[k] = mem.ask[k]
<1>1. Converts(pc[d], k) => mem.convert[k].status # "none"
  BY DEF LegsInv, PlaceInv, Begun, Converts, Done
<1>2. Asks(pc[d], k) => mem.ask[k].status # "none" \/ pc[d].at \in Attesting
  BY DEF LegsInv, PlaceInv, Begun, Asks
<1>3. /\ Converts(pc[d], k) => ~Converts(pc[c], k)
      /\ Asks(pc[d], k) => ~Asks(pc[c], k)
  BY DEF LegsInv, FlightInv
<1>4. treasury'[k] # treasury[k] => Converts(pc[c], k)
  <2>1. pc[c].at = "send" /\ pc[c].key = k => Converts(pc[c], k)
    BY InFlight DEF Sending
  <2> QED
    BY <2>1 DEF Pays
<1> QED
  BY <1>1, <1>2, <1>3, <1>4 DEF Edits

LEMMA BegunKeeps ==
    ASSUME NEW a \in Versions, NEW b \in Versions, Keeps(b, a), NEW w \in Places, Begun(w, a)
    PROVE  Begun(w, b)
<1>1. w # Idle => w.key \in Keys
  BY PlaceTypes
<1>2. w = Idle => Begun(w, b)
  BY DEF Begun, Idle, Sending, Attesting, Asking
<1>3. w.at \in Attesting \cup {"resign"} => w.key \in Keys
  BY <1>1 DEF Idle, Attesting
<1>4. w.at \in Attesting \cup {"resign"} => Done(b, <<w.event, w.key>>)
  <2>1. <<w.event, w.key>>[1] = w.event /\ <<w.event, w.key>>[2] = w.key
    OBVIOUS
  <2> QED
    BY <1>3, <2>1 DEF Begun, Done, Keeps
<1> QED
  BY <1>1, <1>2, <1>4 DEF Begun, Keeps

LEMMA StandsKeeps ==
    ASSUME NEW m, NEW n, NEW d, NEW e, NEW M, NEW N, NEW L, NEW K, NEW u, NEW v, NEW w \in Places,
           Stands(w, m, d, M, L, v),
           w.at \in {"chain", "send"} =>
             /\ n.convert[w.key].sent = m.convert[w.key].sent
             /\ N[w.key] = M[w.key] /\ Landed(K[w.key]) = Landed(L[w.key]),
           w.at = "execute" => (d.convert[w.key].sent # 0 => e.convert[w.key].sent # 0),
           w.at \in {"challenge", "pinned", "status", "paying", "redeem"} =>
             n.ask[w.key].invoice = m.ask[w.key].invoice,
           w.at \in {"status", "paying", "redeem"} =>
             (Pinned(v, d, m.ask[w.key].invoice) => Pinned(u, e, m.ask[w.key].invoice))
    PROVE  Stands(w, n, e, N, K, u)
BY DEF Stands

(* The file and its versions after a step.                                 *)
LEMMA StepVersions ==
    ASSUME LegsInv, NEW c \in Chains, NEW w, PlaceMoves(c, w), StoreMoves(c, w), Edits(c, w),
           Pays(c), Rails(c, w)
    PROVE  /\ StoreTypes' /\ VersionInv'
           /\ After(invoices', mem', mem) /\ After(invoices', disk', disk)
<1>1. /\ Ordered(mem, disk, saveChain, payouts, invoices)
      /\ Later(invoices', invoices)
      /\ \A k \in Keys : payouts[k] \subseteq payouts'[k]
  BY DEF LegsInv, VersionInv, Rails, InvoicesMove, Pays
<1>2. Ordered(mem, disk, saveChain, payouts', invoices')
  BY <1>1, OrderedLater
<1>3. /\ StoreTypes /\ mem' \in Versions /\ After(invoices', mem', mem)
      /\ Truthful(mem', payouts', invoices')
  BY DEF LegsInv, Edits
<1>4. Put(c, mem') \/ Settle(c) \/ SettlePut(c, mem') \/ UNCHANGED storeVars
  BY DEF StoreMoves
<1>5. /\ StoreTypes' /\ Ordered(mem', disk', saveChain', payouts', invoices')
      /\ After(invoices', disk', disk)
  BY <1>2, <1>3, <1>4, StoreKeeps
<1> QED
  BY <1>3, <1>5 DEF VersionInv

(* What is pinned stays pinned.                                            *)
LEMMA PinnedKeeps ==
    ASSUME invoices \in Seq(Invoices), Later(invoices', invoices), After(invoices', disk', disk),
           NEW i \in DOMAIN invoices, Pinned(invoices, disk, i)
    PROVE  i \in DOMAIN invoices' /\ Pinned(invoices', disk', i)
<1>1. i # NoInvoice /\ invoices[i].for \in Keys
  <2>1. i \in 1 .. Len(invoices) /\ invoices[i] \in Invoices
    OBVIOUS
  <2> QED
    BY <2>1 DEF NoInvoice, Invoices
<1>2. i \in DOMAIN invoices'
  BY DEF Later
<1> QED
  BY <1>1, <1>2, PinnedLater DEF After

LEMMA StepWrites ==
    ASSUME LegsInv, NEW c \in Chains, NEW w, PlaceMoves(c, w), StoreMoves(c, w), Edits(c, w),
           Pays(c)
    PROVE  WriteInv'
<1>1. ASSUME NEW d \in Chains, d # c, pc[d].at = "pinned"
      PROVE  mem'.ask[pc[d].key].invoice = mem.ask[pc[d].key].invoice
  <2>1. pc[d] \in Places
    BY DEF LegsInv, WorldTypes
  <2>2. pc[d].key \in Keys
    BY <1>1, <2>1, PlaceTypes DEF Idle
  <2>3. Asks(pc[d], pc[d].key)
    BY <1>1, InFlight DEF Asking
  <2>4. mem.ask[pc[d].key].status # "none"
    BY <1>1 DEF LegsInv, PlaceInv, Begun, Asking
  <2> QED
    BY <1>1, <2>2, <2>3, <2>4, OthersKeep
<1>2. StoreTypes /\ WriteInv /\ mem' \in Versions /\ pc'[c] = w /\ OthersStay(c)
  BY DEF LegsInv, Edits, PlaceMoves
<1> QED
  BY <1>1, <1>2, WritesKeep

LEMMA StepFlight ==
    ASSUME LegsInv, NEW c \in Chains, NEW w, PlaceMoves(c, w)
    PROVE  FlightInv'
<1>1. ASSUME NEW d \in Chains, d # c, NEW k \in Keys
      PROVE  /\ Converts(pc'[d], k) => Converts(pc[d], k)
             /\ Asks(pc'[d], k) => Asks(pc[d], k)
  <2>1. CASE pc'[d] = pc[d]
    BY <2>1
  <2>2. CASE pc'[d].at = "start"
    BY <2>2 DEF Converts, Asks, Sending, Asking, Attesting
  <2> QED
    BY <1>1, <2>1, <2>2 DEF PlaceMoves, OthersStay
<1>2. ASSUME NEW d \in Chains, d # c, NEW k \in Keys
      PROVE  /\ ~(Converts(pc'[c], k) /\ Converts(pc'[d], k))
             /\ ~(Asks(pc'[c], k) /\ Asks(pc'[d], k))
  <2>1. /\ ~(Converts(pc[c], k) /\ Converts(pc[d], k))
        /\ ~(Asks(pc[c], k) /\ Asks(pc[d], k))
    BY <1>2 DEF LegsInv, FlightInv
  <2>2. /\ Converts(pc[d], k) => ConvertInFlight(k)
        /\ Asks(pc[d], k) => AskInFlight(k)
    BY DEF Converts, Asks, ConvertInFlight, AskInFlight, Key
  <2> QED
    BY <1>1, <1>2, <2>1, <2>2 DEF PlaceMoves
<1>3. ASSUME NEW d \in Chains, NEW e \in Chains, d # e, d # c, e # c, NEW k \in Keys
      PROVE  /\ ~(Converts(pc'[d], k) /\ Converts(pc'[e], k))
             /\ ~(Asks(pc'[d], k) /\ Asks(pc'[e], k))
  BY <1>1, <1>3 DEF LegsInv, FlightInv
<1> QED
  BY <1>2, <1>3 DEF FlightInv

(* The other chains stand where they stood.                                *)
LEMMA StepPlaces ==
    ASSUME LegsInv, NEW c \in Chains, NEW w, PlaceMoves(c, w), Edits(c, w), Pays(c), Rails(c, w),
           Fresh(w), After(invoices', disk', disk)
    PROVE  PlaceInv'
<1> SUFFICES ASSUME NEW d \in Chains
             PROVE  /\ Begun(pc'[d], mem')
                    /\ Stands(pc'[d], mem', disk', treasury', tardy', invoices')
  BY DEF PlaceInv
<1>1. CASE d = c
  BY <1>1 DEF Fresh, PlaceMoves
<1>2. CASE d # c /\ pc'[d] # pc[d]
  <2>1. pc'[d].at = "start"
    BY <1>2 DEF PlaceMoves, OthersStay
  <2> QED
    BY <2>1 DEF Begun, Stands, Sending, Asking, Attesting
<1>3. CASE d # c /\ pc'[d] = pc[d]
  <2> DEFINE x == pc[d]
  <2>1. /\ x \in Places /\ mem \in Versions /\ mem' \in Versions /\ Keeps(mem', mem)
        /\ Keeps(disk', disk) /\ Pins(invoices', disk', disk)
        /\ Begun(x, mem) /\ Stands(x, mem, disk, treasury, tardy, invoices)
    BY DEF LegsInv, WorldTypes, StoreTypes, Edits, After, PlaceInv
  <2>2. Begun(x, mem')
    BY <2>1, BegunKeeps
  <2>3. x # Idle => x.key \in Keys
    BY <2>1, PlaceTypes
  <2>4. ASSUME x.at \in {"chain", "send"}
        PROVE  /\ mem'.convert[x.key].sent = mem.convert[x.key].sent
               /\ treasury'[x.key] = treasury[x.key]
               /\ Landed(tardy'[x.key]) = Landed(tardy[x.key])
    <3>1. x.key \in Keys /\ Converts(x, x.key)
      BY <2>3, <2>4, InFlight DEF Idle, Sending
    <3> QED
      BY <1>3, <3>1, OthersKeep DEF Pays, Landed
  <2>5. ASSUME x.at \in {"challenge", "pinned", "status", "paying", "redeem"}
        PROVE  /\ x.key \in Keys
               /\ mem'.ask[x.key].invoice = mem.ask[x.key].invoice
    <3>1. x.key \in Keys /\ Asks(x, x.key)
      BY <2>3, <2>5, InFlight DEF Idle, Asking
    <3>2. x.at \notin Attesting
      BY <2>5 DEF Attesting
    <3> QED
      BY <1>3, <3>1, <3>2, OthersKeep
  <2>6. ASSUME x.at \in {"status", "paying", "redeem"}, Pinned(invoices, disk, mem.ask[x.key].invoice)
        PROVE  Pinned(invoices', disk', mem.ask[x.key].invoice)
    <3>1. mem.ask[x.key].invoice # NoInvoice
      BY <2>1, <2>6 DEF Stands
    <3>2. mem.ask[x.key].invoice \in DOMAIN invoices
      BY <2>5, <2>6, <3>1 DEF LegsInv, VersionInv, Ordered, Truthful
    <3>3. invoices \in Seq(Invoices) /\ Later(invoices', invoices)
      BY DEF LegsInv, RailTypes, Rails, InvoicesMove
    <3> QED
      BY <2>6, <3>2, <3>3, PinnedKeeps
  <2>7. x.at = "execute" => (disk.convert[x.key].sent # 0 => disk'.convert[x.key].sent # 0)
    BY <2>1, <2>3 DEF Keeps, Idle
  <2>8. Stands(x, mem', disk', treasury', tardy', invoices')
    <3> HIDE DEF x
    <3> QED
      BY <2>1, <2>4, <2>5, <2>6, <2>7, StandsKeeps
  <2> QED
    BY <1>3, <2>2, <2>8
<1> QED
  BY <1>1, <1>2, <1>3

(* What memory names is on disk, or still being saved.                     *)
LEMMA StepSaved ==
    ASSUME LegsInv, NEW c \in Chains, NEW w, PlaceMoves(c, w), StoreMoves(c, w), Edits(c, w),
           Rails(c, w), After(invoices', disk', disk)
    PROVE  SavedInv'
<1>1. /\ mem \in Versions /\ mem' \in Versions /\ invoices \in Seq(Invoices)
      /\ Later(invoices', invoices) /\ Keeps(disk', disk)
      /\ Names(mem, invoices)
  BY TruthfulNames
  DEF LegsInv, StoreTypes, RailTypes, Edits, Rails, InvoicesMove, After, VersionInv, Ordered
<1>2. pc[c].at \in {"sent", "pinned"} => Settle(c) \/ SettlePut(c, mem')
  BY DEF StoreMoves, Waiting
<1>3. /\ pc[c].at = "sent" => disk'.convert[pc[c].key].sent # 0
      /\ pc[c].at = "pinned" => disk'.ask[pc[c].key].invoice = mem.ask[pc[c].key].invoice
  BY <1>1, <1>2, WrittenHolds DEF LegsInv
<1>4. \A d \in Chains : d # c /\ pc[d].at \in {"sent", "pinned"} => pc'[d] = pc[d]
  BY DEF PlaceMoves, OthersStay, Idle
<1>5. pc'[c] = w
  BY DEF PlaceMoves
<1>6. ASSUME NEW k \in Keys
      PROVE  \/ mem'.convert[k].sent = 0 \/ disk'.convert[k].sent # 0
             \/ \E d \in Chains : pc'[d].at = "sent" /\ pc'[d].key = k
  <2>1. CASE mem'.convert[k].sent \notin {0, mem.convert[k].sent}
    BY <1>5, <2>1 DEF Edits
  <2>2. CASE mem'.convert[k].sent = mem.convert[k].sent
    <3>1. \/ mem.convert[k].sent = 0 \/ disk.convert[k].sent # 0
          \/ \E d \in Chains : pc[d].at = "sent" /\ pc[d].key = k
      BY DEF LegsInv, SavedInv, Convert
    <3>2. disk.convert[k].sent # 0 => disk'.convert[k].sent # 0
      BY <1>1 DEF Keeps
    <3>3. ASSUME NEW d \in Chains, pc[d].at = "sent", pc[d].key = k
          PROVE  pc'[d] = pc[d] \/ disk'.convert[k].sent # 0
      BY <1>3, <1>4, <3>3
    <3> QED
      BY <2>2, <3>1, <3>2, <3>3
  <2> QED
    BY <2>1, <2>2
<1>7. ASSUME NEW k \in Keys
      PROVE  \/ mem'.ask[k].invoice = NoInvoice
             \/ Pinned(invoices', disk', mem'.ask[k].invoice)
             \/ \E d \in Chains : pc'[d].at = "pinned" /\ pc'[d].key = k
  <2>1. CASE mem'.ask[k].invoice \notin {NoInvoice, mem.ask[k].invoice}
    BY <1>5, <2>1 DEF Edits
  <2>2. CASE mem'.ask[k].invoice = mem.ask[k].invoice /\ mem.ask[k].invoice # NoInvoice
    <3> DEFINE i == mem.ask[k].invoice
    <3>1. i \in DOMAIN invoices /\ invoices[i].for = k
      BY <1>1, <2>2 DEF Names
    <3>2. Pinned(invoices, disk, i) \/ \E d \in Chains : pc[d].at = "pinned" /\ pc[d].key = k
      BY <2>2 DEF LegsInv, SavedInv, Ask
    <3>3. Pinned(invoices, disk, i) => Pinned(invoices', disk', i)
      BY <1>1, <3>1, PinnedKeeps
    <3>4. ASSUME NEW d \in Chains, pc[d].at = "pinned", pc[d].key = k
          PROVE  pc'[d] = pc[d] \/ Pinned(invoices', disk', i)
      <4>1. CASE d = c
        <5>1. disk'.ask[k].invoice = i
          BY <1>3, <3>4, <4>1
        <5>2. invoices'[i].for = k
          BY <1>1, <3>1 DEF Later
        <5> QED
          BY <5>1, <5>2 DEF Pinned
      <4> QED
        BY <1>4, <3>4, <4>1
    <3> QED
      BY <2>2, <3>2, <3>3, <3>4
  <2> QED
    BY <2>1, <2>2
<1> QED
  BY <1>6, <1>7 DEF SavedInv, Convert, Ask

LEMMA StepMoney ==
    ASSUME LegsInv, NEW c \in Chains, Pays(c), After(invoices', disk', disk)
    PROVE  MoneyInv'
<1> SUFFICES ASSUME NEW k \in Keys
             PROVE  /\ treasury'[k] <= 1 + Landed(tardy'[k])
                    /\ \A tx \in payouts'[k] : tx # 0 /\ tx = disk'.convert[k].sent
  BY DEF MoneyInv
<1>1. Landed(tardy'[k]) = Landed(tardy[k]) /\ Landed(tardy[k]) \in 0 .. 1
      /\ treasury[k] \in Nat /\ treasury[k] <= 1 + Landed(tardy[k])
  <2>1. Landed(tardy'[k]) = Landed(tardy[k])
    BY DEF Pays, Landed
  <2>2. Landed(tardy[k]) \in 0 .. 1
    BY DEF Landed
  <2>3. treasury[k] \in Nat /\ treasury[k] <= 1 + Landed(tardy[k])
    BY DEF LegsInv, MoneyInv, WorldTypes
  <2> QED
    BY <2>1, <2>2, <2>3
<1>2. treasury'[k] <= 1 + Landed(tardy'[k])
  <2>1. CASE treasury'[k] = treasury[k]
    BY <1>1, <2>1
  <2>2. CASE treasury'[k] # treasury[k]
    <3>1. treasury'[k] = treasury[k] + 1 /\ pc[c].at = "send" /\ pc[c].key = k
      BY <2>2 DEF Pays
    <3>2. treasury[k] <= Landed(tardy[k])
      BY <3>1 DEF LegsInv, PlaceInv, Stands
    <3> QED
      BY <1>1, <3>1, <3>2
  <2> QED
    BY <2>1, <2>2
<1>3. ASSUME NEW tx \in payouts'[k]
      PROVE  tx # 0 /\ tx = disk'.convert[k].sent
  <2>1. disk.convert[k].sent # 0 => /\ disk'.convert[k].sent = disk.convert[k].sent
                                    /\ mem.convert[k].sent = disk.convert[k].sent
    BY DEF After, Keeps, LegsInv, VersionInv, Ordered
  <2>2. tx \in payouts[k] => tx # 0 /\ tx = disk.convert[k].sent
    BY DEF LegsInv, MoneyInv
  <2>3. tx \in payouts[k] \/ (tx = mem.convert[k].sent /\ disk.convert[k].sent # 0)
    BY <1>3 DEF Pays
  <2> QED
    BY <2>1, <2>2, <2>3
<1> QED
  BY <1>2, <1>3

LEMMA StepBooks ==
    ASSUME LegsInv, InvoicesMove, After(invoices', disk', disk)
    PROVE  /\ \A post \in late' : post.invoice \in DOMAIN invoices'
                                  /\ Pinned(invoices', disk', post.invoice)
           /\ \A i \in DOMAIN invoices' :
                /\ invoices'[i].status \in {"paid", "redeemed"} <=> invoices'[i].on # 0
                /\ invoices'[i].on # 0 => Pinned(invoices', disk', i)
<1>1. /\ invoices \in Seq(Invoices) /\ Later(invoices', invoices)
      /\ \A i \in DOMAIN invoices : invoices[i].on # 0 => Pinned(invoices, disk, i)
      /\ \A post \in late : post.invoice \in DOMAIN invoices /\ Pinned(invoices, disk, post.invoice)
  BY DEF LegsInv, RailTypes, RailInv, InvoicesMove
<1>2. \A i \in DOMAIN invoices : Pinned(invoices, disk, i) =>
        i \in DOMAIN invoices' /\ Pinned(invoices', disk', i)
  BY <1>1, PinnedKeeps
<1>3. ASSUME NEW post \in late'
      PROVE  post.invoice \in DOMAIN invoices' /\ Pinned(invoices', disk', post.invoice)
  BY <1>1, <1>2, <1>3 DEF InvoicesMove
<1>4. ASSUME NEW i \in DOMAIN invoices'
      PROVE  /\ invoices'[i].status \in {"paid", "redeemed"} <=> invoices'[i].on # 0
             /\ invoices'[i].on # 0 => Pinned(invoices', disk', i)
  BY <1>1, <1>2, <1>4 DEF InvoicesMove
<1> QED
  BY <1>3, <1>4

LEMMA StepRail ==
    ASSUME LegsInv, NEW c \in Chains, NEW w, PlaceMoves(c, w), Edits(c, w), Pays(c), Rails(c, w),
           After(invoices', disk', disk)
    PROVE  RailInv'
<1>1. ASSUME NEW d \in Chains, call'[d] # Calm
      PROVE  pc'[d].at = "paying" /\ Tries(call'[d]) = mem'.ask[pc'[d].key].invoice
  <2>1. CASE d = c
    BY <1>1, <2>1 DEF PlaceMoves, Rails
  <2>2. CASE d # c
    <3>1. call'[d] = call[d] /\ pc[d].at = "paying"
          /\ Tries(call[d]) = mem.ask[pc[d].key].invoice
      BY <1>1, <2>2 DEF Rails, LegsInv, RailInv, Ask
    <3>2. pc'[d] = pc[d]
      BY <2>2, <3>1 DEF PlaceMoves, OthersStay, Idle
    <3>3. pc[d].key \in Keys
      BY <3>1, PlaceTypes DEF LegsInv, WorldTypes, Idle
    <3>4. mem'.ask[pc[d].key] = mem.ask[pc[d].key]
      <4>1. Asks(pc[d], pc[d].key)
        BY <3>1, InFlight DEF Asking
      <4>2. pc[d].at \notin Attesting
        BY <3>1 DEF Attesting
      <4> QED
        BY <2>2, <3>3, <4>1, <4>2, OthersKeep
    <3> QED
      BY <3>1, <3>2, <3>4
  <2> QED
    BY <2>1, <2>2
<1> QED
  BY <1>1, StepBooks DEF Rails, RailInv, Ask

(* So the invariant holds after a step of a chain.                         *)
LEMMA StepKeeps ==
    ASSUME LegsInv, NEW c \in Chains, NEW w, PlaceMoves(c, w), StoreMoves(c, w), Edits(c, w),
           Pays(c), Rails(c, w), Fresh(w)
    PROVE  LegsInv'
<1>1. StoreTypes' /\ VersionInv' /\ After(invoices', disk', disk)
  BY StepVersions
<1>2. WorldTypes' /\ RailTypes'
  BY DEF PlaceMoves, Pays, Rails, WorldTypes
<1>3. WriteInv' /\ FlightInv'
  BY StepWrites, StepFlight
<1>4. PlaceInv' /\ SavedInv' /\ MoneyInv' /\ RailInv'
  BY <1>1, StepPlaces, StepSaved, StepMoney, StepRail
<1> QED
  BY <1>1, <1>2, <1>3, <1>4 DEF LegsInv

-----------------------------------------------------------------------------
(* The parts of a step.                                                    *)

LEMMA GoesTo ==
    ASSUME LegsInv, NEW c \in Chains, NEW w \in Places, pc' = [pc EXCEPT ![c] = w],
           \A k \in Keys : /\ Converts(w, k) => Converts(pc[c], k) \/ ~ConvertInFlight(k)
                           /\ Asks(w, k) => Asks(pc[c], k) \/ ~AskInFlight(k)
    PROVE  PlaceMoves(c, w)
<1>1. pc \in [Chains -> Places]
  BY DEF LegsInv, WorldTypes
<1>2. pc' \in [Chains -> Places] /\ pc'[c] = w /\ \A d \in Chains : d # c => pc'[d] = pc[d]
  BY <1>1
<1> QED
  BY <1>2 DEF PlaceMoves, OthersStay

RailRests == UNCHANGED <<invoices, channels, cached, saved, call, late>>
WorldRests == UNCHANGED <<treasury, tardy, payouts>>

LEMMA RailsRest ==
    ASSUME LegsInv, RailRests, NEW c \in Chains, NEW w, pc[c].at # "paying"
    PROVE  Rails(c, w)
<1>1. RailTypes'
  BY DEF LegsInv, RailTypes, RailRests
<1>2. InvoicesMove
  BY DEF LegsInv, RailInv, RailRests, InvoicesMove, Later
<1>3. call'[c] = Calm
  BY DEF LegsInv, RailInv, RailRests
<1> QED
  BY <1>1, <1>2, <1>3 DEF Rails, RailRests

LEMMA PaysRest ==
    ASSUME LegsInv, WorldRests, NEW c
    PROVE  Pays(c)
BY DEF LegsInv, WorldTypes, WorldRests, Pays

LEMMA EditsRest ==
    ASSUME LegsInv, mem' = mem, Later(invoices', invoices),
           \A k \in Keys : payouts[k] \subseteq payouts'[k], NEW c, NEW w
    PROVE  Edits(c, w)
<1>1. mem \in Versions /\ Truthful(mem, payouts, invoices)
  BY DEF LegsInv, StoreTypes, VersionInv, Ordered
<1>2. After(invoices', mem, mem) /\ Truthful(mem, payouts', invoices')
  BY <1>1, KeepsOrder, TruthfulLater
<1> QED
  BY <1>1, <1>2 DEF Edits

LEMMA AttEdits ==
    ASSUME LegsInv, NEW e \in Events, NEW v \in {"unsigned", "signed"},
           mem' = WithAttestation(e, v), Done(mem, e), RailRests, WorldRests, NEW c, NEW w
    PROVE  Edits(c, w)
<1>1. mem \in Versions /\ Truthful(mem, payouts, invoices)
  BY DEF LegsInv, StoreTypes, VersionInv, Ordered
<1>2. /\ mem' \in Versions /\ mem'.convert = mem.convert /\ mem'.ask = mem.ask
      /\ \A f \in Events : f # e => mem'.att[f] = mem.att[f]
  <2>1. v \in {"none", "unsigned", "signed"}
    OBVIOUS
  <2>2. mem' = [mem EXCEPT !.att[e] = v]
    BY DEF WithAttestation
  <2>3. \A u \in {"none", "unsigned", "signed"} : [mem EXCEPT !.att[e] = u] \in Versions
    BY <1>1, AttEdit
  <2>4. \A u \in {"none", "unsigned", "signed"} :
          /\ [mem EXCEPT !.att[e] = u].convert = mem.convert
          /\ [mem EXCEPT !.att[e] = u].ask = mem.ask
          /\ \A f \in Events : f # e => [mem EXCEPT !.att[e] = u].att[f] = mem.att[f]
    BY <1>1, AttEdit
  <2> QED
    BY <2>1, <2>2, <2>3, <2>4
<1>3. \A f \in Events : Done(mem', f) <=> Done(mem, f)
  BY <1>2 DEF Done
<1>4. Truthful(mem', payouts, invoices)
  BY <1>1, <1>2, <1>3 DEF Truthful
<1>5. After(invoices, mem', mem)
  BY <1>2 DEF After, Keeps, Pins
<1> QED
  BY <1>2, <1>4, <1>5 DEF Edits, RailRests, WorldRests

LEMMA ConvertEdits ==
    ASSUME LegsInv, NEW k \in Keys,
           NEW r \in [status : {"converting", "converted"}, sent : Nat],
           mem' = WithConvert(k, r), Later(invoices', invoices),
           \A j \in Keys : payouts[j] \subseteq payouts'[j],
           NEW c, NEW w,
           Unclaimed(k) \/ Converts(pc[c], k),
           Convert(k).status = "converted" => r.status = "converted",
           Convert(k).sent # 0 => r.sent = Convert(k).sent,
           r.status = "converted" => r.sent # 0 /\ r.sent \in payouts'[k],
           r.sent \notin {0, Convert(k).sent} => w.at = "sent" /\ w.key = k
    PROVE  Edits(c, w)
<1>1. mem \in Versions /\ Truthful(mem, payouts', invoices')
  BY TruthfulLater DEF LegsInv, StoreTypes, VersionInv, Ordered
<1>2. /\ mem' \in Versions /\ mem'.ask = mem.ask /\ mem'.att = mem.att
      /\ mem'.convert[k] = r /\ \A j \in Keys : j # k => mem'.convert[j] = mem.convert[j]
  BY <1>1, ConvertEdit DEF WithConvert
<1>3. \A f \in Events : Done(mem, f) => Done(mem', f)
  BY <1>2 DEF Done, Events, Convert
<1>4. Truthful(mem', payouts', invoices')
  BY <1>1, <1>2, <1>3 DEF Truthful
<1>5. After(invoices', mem', mem)
  BY <1>2 DEF After, Keeps, Pins, Convert
<1> QED
  BY <1>2, <1>4, <1>5 DEF Edits, Convert, Unclaimed

LEMMA AskEdits ==
    ASSUME LegsInv, NEW k \in Keys,
           NEW r \in [status : {"asking", "answered"}, invoice : Nat],
           mem' = WithAsk(k, r), Later(invoices', invoices), UNCHANGED payouts,
           NEW c, NEW w,
           Ask(k).status = "none" \/ Asks(pc[c], k),
           Ask(k).status = "answered" => r.status = "answered",
           Live(invoices', Ask(k).invoice) => r.invoice = Ask(k).invoice,
           r.status = "answered" => r.invoice # NoInvoice /\ invoices'[r.invoice].status = "redeemed",
           r.invoice # NoInvoice => r.invoice \in DOMAIN invoices' /\ invoices'[r.invoice].for = k,
           r.invoice \notin {NoInvoice, Ask(k).invoice} => w.at = "pinned" /\ w.key = k
    PROVE  Edits(c, w)
<1>1. mem \in Versions /\ Truthful(mem, payouts', invoices')
  BY TruthfulLater DEF LegsInv, StoreTypes, VersionInv, Ordered
<1>2. /\ mem' \in Versions /\ mem'.convert = mem.convert /\ mem'.att = mem.att
      /\ mem'.ask[k] = r /\ \A j \in Keys : j # k => mem'.ask[j] = mem.ask[j]
  BY <1>1, AskEdit DEF WithAsk
<1>3. \A f \in Events : Done(mem, f) => Done(mem', f)
  BY <1>2 DEF Done, Events, Ask
<1>4. Truthful(mem', payouts', invoices')
  BY <1>1, <1>2, <1>3 DEF Truthful
<1>5. After(invoices', mem', mem)
  BY <1>2 DEF After, Keeps, Pins, Ask
<1> QED
  BY <1>2, <1>4, <1>5 DEF Edits, Ask

(* A step that puts nothing and asks nobody.                               *)
StoreSettles(c) ==
    \/ UNCHANGED storeVars /\ pc[c].at \notin Waiting
    \/ Settle(c) /\ pc[c].at \in Waiting

LEMMA QuietStep ==
    ASSUME LegsInv, NEW c \in Chains, NEW w, PlaceMoves(c, w), StoreSettles(c), w.at \notin Waiting,
           RailRests, WorldRests, pc[c].at # "paying",
           Begun(w, mem), Stands(w, mem, disk', treasury, tardy, invoices)
    PROVE  LegsInv'
<1>1. mem' = mem /\ StoreMoves(c, w)
  BY DEF StoreSettles, StoreMoves, Settle, storeVars
<1>2. Rails(c, w) /\ Pays(c)
  BY RailsRest, PaysRest
<1>3. Edits(c, w)
  BY <1>1, <1>2, EditsRest DEF Rails, InvoicesMove, Pays
<1>4. Fresh(w)
  BY <1>1 DEF Fresh, RailRests, WorldRests
<1> QED
  BY <1>1, <1>2, <1>3, <1>4, StepKeeps

LEMMA IdleIsFresh ==
    ASSUME NEW m, NEW d, NEW T, NEW L, NEW v
    PROVE  /\ Idle \in Places /\ Idle.at \notin Waiting
           /\ \A k : ~Converts(Idle, k) /\ ~Asks(Idle, k)
           /\ Begun(Idle, m) /\ Stands(Idle, m, d, T, L, v)
BY DEF Idle, Places, Waiting, Converts, Asks, Begun, Stands, Sending, Asking, Attesting

LEMMA EndsStep ==
    ASSUME LegsInv, NEW c \in Chains, Ends(c), StoreSettles(c), RailRests, WorldRests,
           pc[c].at # "paying"
    PROVE  LegsInv'
<1>1. PlaceMoves(c, Idle)
  BY IdleIsFresh, GoesTo DEF Ends
<1>2. Idle.at \notin Waiting /\ Begun(Idle, mem) /\ Stands(Idle, mem, disk', treasury, tardy, invoices)
  BY IdleIsFresh
<1> QED
  BY <1>1, <1>2, QuietStep

(* A put while the world rests.                                            *)
LEMMA PutStep ==
    ASSUME LegsInv, NEW c \in Chains, NEW w, PlaceMoves(c, w), w.at \in Waiting,
           \/ Put(c, mem') /\ pc[c].at \notin Waiting
           \/ SettlePut(c, mem') /\ pc[c].at \in Waiting,
           Holds(w, mem', mem'), Edits(c, w), RailRests, WorldRests, pc[c].at # "paying",
           Begun(w, mem'), w.at # "pinned"
    PROVE  LegsInv'
<1>1. StoreMoves(c, w)
  BY DEF StoreMoves
<1>2. Rails(c, w) /\ Pays(c)
  BY RailsRest, PaysRest
<1>3. Fresh(w)
  BY DEF Fresh, Stands, Waiting
<1> QED
  BY <1>1, <1>2, <1>3, StepKeeps

LEMMA Label ==
    ASSUME NEW l \in Working, NEW k \in Keys, NEW w, w = [at |-> l, key |-> k]
    PROVE  /\ w \in Places /\ w.at = l /\ w.key = k
           /\ \A j : Converts(w, j) => l \in Sending /\ j = k
           /\ \A j : Asks(w, j) => l \in Asking /\ j = k
<1>1. w.at = l /\ w.key = k /\ w \in Places
  BY DEF Places
<1>2. l \notin Attesting
  BY DEF Working, Attesting
<1> QED
  BY <1>1, <1>2 DEF Converts, Asks

LEMMA EventLabel ==
    ASSUME NEW l \in Attesting \cup {"resign"}, NEW e \in Events,
           NEW w, w = [at |-> l, key |-> e[2], event |-> e[1]]
    PROVE  /\ w \in Places /\ w.at = l /\ w.key = e[2] /\ w.event = e[1]
           /\ <<w.event, w.key>> = e
           /\ \A j : Converts(w, j) => l \in Attesting /\ e[1] = "convert" /\ j = e[2]
           /\ \A j : Asks(w, j) => l \in Attesting /\ e[1] = "ask" /\ j = e[2]
<1>1. w.at = l /\ w.key = e[2] /\ w.event = e[1]
  OBVIOUS
<1>2. e[1] \in Kinds /\ e[2] \in Keys /\ e = <<e[1], e[2]>>
  BY DEF Events
<1>3. w \in Places
  BY <1>2 DEF Places
<1>4. l \notin Sending /\ l \notin Asking
  BY DEF Attesting, Sending, Asking
<1> QED
  BY <1>1, <1>2, <1>3, <1>4 DEF Converts, Asks

(* Where a chain is, it is for a loop.                                     *)
LEMMA AtKey ==
    ASSUME LegsInv, NEW c \in Chains, NEW l, At(c, l), l # "idle"
    PROVE  /\ Key(c) \in Keys /\ pc[c] \in Places /\ pc[c].at = l /\ pc[c].key = Key(c)
           /\ pc[c] # Idle
           /\ l \in Sending => Converts(pc[c], Key(c))
           /\ l \in Asking => Asks(pc[c], Key(c))
           /\ l \in Attesting \cup {"resign"} =>
                /\ Event(c) \in Events /\ Event(c)[1] \in Kinds /\ Event(c)[2] = Key(c)
                /\ Event(c) = <<pc[c].event, pc[c].key>>
                /\ Done(mem, Event(c))
           /\ l \in Attesting => /\ Event(c)[1] = "convert" => Converts(pc[c], Key(c))
                                 /\ Event(c)[1] = "ask" => Asks(pc[c], Key(c))
<1>1. pc[c] \in Places /\ pc[c].at = l /\ pc[c].key = Key(c)
  BY DEF LegsInv, WorldTypes, At, Key
<1>2. pc[c] # Idle /\ Key(c) \in Keys
  BY <1>1, PlaceTypes
<1>3. /\ l \in Sending => Converts(pc[c], Key(c))
      /\ l \in Asking => Asks(pc[c], Key(c))
      /\ l \in Attesting /\ pc[c].event = "convert" => Converts(pc[c], Key(c))
      /\ l \in Attesting /\ pc[c].event = "ask" => Asks(pc[c], Key(c))
  BY <1>1, InFlight
<1>4. Event(c) = <<pc[c].event, pc[c].key>> /\ Event(c)[1] = pc[c].event /\ Event(c)[2] = Key(c)
  BY <1>1 DEF Event
<1>5. l \in Attesting \cup {"resign"} =>
        Event(c) \in Events /\ pc[c].event \in Kinds /\ Done(mem, Event(c))
  BY <1>1, <1>4, PlaceTypes DEF LegsInv, PlaceInv, Begun
<1> QED
  BY <1>1, <1>2, <1>3, <1>4, <1>5

LEMMA TakesPlace ==
    ASSUME LegsInv, NEW c \in Chains, NEW l \in Working, NEW k \in Keys, Takes(c, l, k),
           l \in Sending => Converts(pc[c], k) \/ ~ConvertInFlight(k),
           l \in Asking => Asks(pc[c], k) \/ ~AskInFlight(k),
           NEW w, w = [at |-> l, key |-> k]
    PROVE  PlaceMoves(c, w) /\ w.at = l /\ w.key = k
<1>1. pc' = [pc EXCEPT ![c] = w]
  BY DEF Takes
<1>2. /\ w \in Places /\ w.at = l /\ w.key = k
      /\ \A j : Converts(w, j) => l \in Sending /\ j = k
      /\ \A j : Asks(w, j) => l \in Asking /\ j = k
  BY Label
<1> QED
  BY <1>1, <1>2, GoesTo

LEMMA AttestsPlace ==
    ASSUME LegsInv, NEW c \in Chains, NEW l \in Attesting \cup {"resign"}, NEW e \in Events,
           Attests(c, e, l),
           l \in Attesting /\ e[1] = "convert" => Converts(pc[c], e[2]),
           l \in Attesting /\ e[1] = "ask" => Asks(pc[c], e[2]),
           NEW w, w = [at |-> l, key |-> e[2], event |-> e[1]]
    PROVE  /\ PlaceMoves(c, w) /\ w.at = l /\ w.key = e[2]
           /\ \A m : Done(m, e) => Begun(w, m)
<1>1. pc' = [pc EXCEPT ![c] = w]
  BY DEF Attests
<1>2. /\ w \in Places /\ w.at = l /\ w.key = e[2] /\ <<w.event, w.key>> = e
      /\ \A j : Converts(w, j) => l \in Attesting /\ e[1] = "convert" /\ j = e[2]
      /\ \A j : Asks(w, j) => l \in Attesting /\ e[1] = "ask" /\ j = e[2]
  BY EventLabel
<1>3. PlaceMoves(c, w)
  <2>1. \A j : Converts(w, j) => Converts(pc[c], j)
    BY <1>2, Zenon
  <2>2. \A j : Asks(w, j) => Asks(pc[c], j)
    BY <1>2, Zenon
  <2> QED
    BY <1>1, <1>2, <2>1, <2>2, GoesTo
<1>4. /\ w.at \notin Sending \cup {"claimed"} /\ w.at # "converted"
      /\ w.at \notin Asking \cup {"asked"} /\ w.at # "answered"
  <2>1. w.at \in {"attest", "sign", "signed", "resign"}
    BY <1>2 DEF Attesting
  <2> QED
    BY <2>1 DEF Sending, Asking
<1>5. ASSUME NEW m, Done(m, e) PROVE Begun(w, m)
  <2>1. Done(m, <<w.event, w.key>>)
    BY <1>2, <1>5
  <2> QED
    BY <1>4, <2>1 DEF Begun
<1> QED
  BY <1>2, <1>3, <1>5

(* What follows an attestation: the other leg's hook may start.            *)
LEMMA FollowsStep ==
    ASSUME LegsInv, NEW c \in Chains, NEW e \in Events, Follows(c, e), pc[c].at # "idle",
           StoreSettles(c), RailRests, WorldRests, pc[c].at # "paying"
    PROVE  LegsInv'
<1> DEFINE hook == <<"ask", e[2]>>
           w == [at |-> "start", key |-> e[2]]
<1>1. CASE Ends(c)
  BY <1>1, EndsStep
<1>2. CASE At(hook, "idle") /\ pc' = [pc EXCEPT ![c] = Idle, ![hook] = w]
  <2>1. e[2] \in Keys /\ hook \in Chains
    BY DEF Events, Chains, Kinds
  <2>2. pc \in [Chains -> Places] /\ pc[hook] \in Places /\ pc[hook].at = "idle"
    BY <1>2, <2>1 DEF At, LegsInv, WorldTypes
  <2>3. hook # c /\ pc[hook] = Idle
    BY <2>2, PlaceTypes
  <2>4. w \in Places /\ w.at = "start" /\ w.key \in Keys /\ Idle \in Places
    BY <2>1, Label, IdleIsFresh DEF Working
  <2> HIDE DEF hook, w
  <2>5. /\ pc' \in [Chains -> Places] /\ pc'[c] = Idle /\ pc'[hook] = w
        /\ \A d \in Chains : d # c /\ d # hook => pc'[d] = pc[d]
    BY <1>2, <2>1, <2>2, <2>3, <2>4
  <2>6. OthersStay(c)
    BY <2>3, <2>4, <2>5 DEF OthersStay
  <2>7. PlaceMoves(c, Idle)
    BY <2>4, <2>5, <2>6, IdleIsFresh DEF PlaceMoves
  <2> QED
    BY <2>7, IdleIsFresh, QuietStep
<1> QED
  BY <1>1, <1>2 DEF Follows

(* The file after a write completes, or not.                               *)
LEMMA SettledFile ==
    ASSUME LegsInv, NEW c \in Chains, StoreSettles(c)
    PROVE  mem' = mem /\ After(invoices, disk', disk)
<1>1. StoreTypes /\ mem \in Versions /\ Ordered(mem, disk, saveChain, payouts, invoices)
  BY DEF LegsInv, StoreTypes, VersionInv
<1>2. CASE UNCHANGED storeVars
  BY <1>2, KeepsOrder DEF storeVars
<1>3. CASE Settle(c)
  <2>1. Len(saveChain) \in Nat /\ Len(saveChain) > 0 /\ disk' = saveChain[1].state /\ mem' = mem
    BY <1>1, <1>3, Queue DEF Settle
  <2>2. 1 \in 1 .. Len(saveChain)
    BY <2>1
  <2> QED
    BY <1>1, <2>1, <2>2 DEF Ordered
<1> QED
  BY <1>2, <1>3 DEF StoreSettles

(* attemptConvert takes up a loop that is in nobody's hands.               *)
LEMMA ConvertAttemptsStep ==
    ASSUME LegsInv, NEW c \in Chains, NEW k \in Keys, ConvertAttempts(c, k), ~Unclaimed(k),
           StoreSettles(c), RailRests, WorldRests, pc[c].at # "paying"
    PROVE  LegsInv'
<1>1. CASE Ends(c)
  BY <1>1, EndsStep
<1>2. ASSUME ~ConvertInFlight(k), NEW l \in {"chain", "execute"}, Takes(c, l, k),
             l = "chain" => Convert(k).sent = 0, l = "execute" => Convert(k).sent # 0
      PROVE  LegsInv'
  <2> DEFINE w == [at |-> l, key |-> k]
  <2>1. PlaceMoves(c, w) /\ w.at = l /\ w.key = k
    BY <1>2, TakesPlace DEF Working, Asking
  <2> HIDE DEF w
  <2>2. Convert(k).sent # 0 => disk.convert[k].sent # 0
    BY <1>2 DEF LegsInv, SavedInv, ConvertInFlight, Key, Sending, Idle
  <2>3. disk.convert[k].sent # 0 => disk'.convert[k].sent # 0
    BY SettledFile DEF After, Keeps
  <2>4. Begun(w, mem) /\ Stands(w, mem, disk', treasury, tardy, invoices)
    BY <1>2, <2>1, <2>2, <2>3 DEF Begun, Stands, Convert, Unclaimed, Sending, Attesting, Asking
  <2>5. w.at \notin Waiting
    BY <2>1, <1>2 DEF Waiting
  <2> QED
    BY <2>1, <2>4, <2>5, QuietStep
<1> QED
  BY <1>1, <1>2 DEF ConvertAttempts

(* ... and attempt402.                                                     *)
LEMMA AskAttemptsStep ==
    ASSUME LegsInv, NEW c \in Chains, NEW k \in Keys, AskAttempts(c, k), Ask(k).status # "none",
           StoreSettles(c), RailRests, WorldRests, pc[c].at # "paying"
    PROVE  LegsInv'
<1>1. CASE Ends(c)
  BY <1>1, EndsStep
<1>2. ASSUME ~AskInFlight(k), NEW l \in {"challenge", "status"}, Takes(c, l, k),
             l = "challenge" => Ask(k).invoice = NoInvoice,
             l = "status" => Ask(k).invoice # NoInvoice
      PROVE  LegsInv'
  <2> DEFINE w == [at |-> l, key |-> k]
             i == Ask(k).invoice
  <2>1. PlaceMoves(c, w) /\ w.at = l /\ w.key = k
    BY <1>2, TakesPlace DEF Working, Sending
  <2> HIDE DEF w
  <2>2. ASSUME i # NoInvoice
        PROVE  Pinned(invoices, disk', i)
    <3>1. ~\E d \in Chains : pc[d].at = "pinned" /\ pc[d].key = k
      BY <1>2 DEF AskInFlight, Key, Asking, Idle
    <3>2. Pinned(invoices, disk, i)
      BY <2>2, <3>1 DEF LegsInv, SavedInv
    <3>3. i \in DOMAIN invoices /\ invoices[i].for = k
      BY <2>2 DEF LegsInv, VersionInv, Ordered, Truthful, Ask
    <3>4. Pins(invoices, disk', disk)
      BY SettledFile DEF After
    <3> QED
      BY <2>2, <3>2, <3>3, <3>4 DEF Pinned, Pins, Live
  <2>4. Begun(w, mem) /\ Stands(w, mem, disk', treasury, tardy, invoices)
    BY <1>2, <2>1, <2>2 DEF Begun, Stands, Ask, Sending, Attesting, Asking
  <2>5. w.at \notin Waiting
    BY <2>1, <1>2 DEF Waiting
  <2> QED
    BY <2>1, <2>4, <2>5, QuietStep
<1> QED
  BY <1>1, <1>2 DEF AskAttempts

-----------------------------------------------------------------------------
(* The conversion's steps.                                                 *)

LEMMA Rests ==
    /\ UNCHANGED railVars => RailRests
    /\ UNCHANGED <<lspVars, clientVars, late>> => RailRests
    /\ UNCHANGED worldVars => WorldRests
    /\ \A c : UNCHANGED storeVars /\ pc[c].at \notin Waiting => StoreSettles(c)
    /\ \A c : Settle(c) /\ pc[c].at \in Waiting => StoreSettles(c)
BY DEF railVars, lspVars, clientVars, worldVars, RailRests, WorldRests, StoreSettles

LEMMA Standing ==
    ASSUME LegsInv, NEW c \in Chains
    PROVE  Begun(pc[c], mem) /\ Stands(pc[c], mem, disk, treasury, tardy, invoices)
BY DEF LegsInv, PlaceInv

LEMMA ConvertPut ==
    ASSUME LegsInv, NEW k \in Keys, NEW r \in [status : {"converting", "converted"}, sent : Nat],
           mem' = WithConvert(k, r)
    PROVE  mem'.convert[k] = r
<1>1. mem \in Versions /\ r \in [status : {"none", "converting", "converted"}, sent : Nat]
  BY DEF LegsInv, StoreTypes
<1> QED
  BY <1>1, ConvertEdit DEF WithConvert

LEMMA ConvertTypes ==
    ASSUME LegsInv, NEW k \in Keys
    PROVE  /\ Convert(k) \in [status : {"none", "converting", "converted"}, sent : Nat]
           /\ Convert(k).status = "none" => Convert(k).sent = 0
           /\ Convert(k).status = "converted" => Convert(k).sent # 0
           /\ disk.convert[k].sent # 0 => Convert(k).sent = disk.convert[k].sent
<1>1. /\ mem \in Versions /\ Truthful(mem, payouts, invoices)
      /\ After(invoices, mem, disk)
  BY DEF LegsInv, StoreTypes, VersionInv, Ordered
<1>2. mem.convert[k] \in [status : {"none", "converting", "converted"}, sent : Nat]
  BY <1>1 DEF Versions
<1> QED
  BY <1>1, <1>2 DEF Convert, Truthful, After, Keeps

(* A step that ends the chain, whatever the world answers.                 *)
LEMMA EndsWith ==
    ASSUME LegsInv, NEW c \in Chains, Ends(c), UNCHANGED storeVars, pc[c].at \notin Waiting,
           Pays(c), Rails(c, Idle)
    PROVE  LegsInv'
<1>1. PlaceMoves(c, Idle)
  BY IdleIsFresh, GoesTo DEF Ends
<1>2. StoreMoves(c, Idle)
  BY IdleIsFresh DEF StoreMoves
<1>3. Edits(c, Idle)
  BY EditsRest DEF Rails, InvoicesMove, Pays, storeVars
<1>4. Fresh(Idle)
  BY IdleIsFresh DEF Fresh
<1> QED
  BY <1>1, <1>2, <1>3, <1>4, StepKeeps

LEMMA HeightStep ==
    ASSUME LegsInv, NEW c \in Chains, NEW k \in Keys, Takes(c, "height", k), StoreSettles(c),
           RailRests, WorldRests, pc[c].at # "paying"
    PROVE  LegsInv'
<1> DEFINE w == [at |-> "height", key |-> k]
<1>1. PlaceMoves(c, w) /\ w.at = "height" /\ w.key = k
  BY TakesPlace DEF Working, Sending, Asking
<1> HIDE DEF w
<1>2. Begun(w, mem) /\ Stands(w, mem, disk', treasury, tardy, invoices) /\ w.at \notin Waiting
  BY <1>1 DEF Begun, Stands, Sending, Asking, Attesting, Waiting
<1> QED
  BY <1>1, <1>2, QuietStep

LEMMA MintSavedStep ==
    ASSUME LegsInv, NEW c \in Chains, MintSaved(c)
    PROVE  LegsInv'
<1>1. /\ pc[c].at = "minted" /\ Key(c) \in Keys
      /\ StoreSettles(c) /\ RailRests /\ WorldRests /\ pc[c].at # "paying"
  BY AtKey, Rests DEF MintSaved, At, Waiting
<1>2. Takes(c, "height", Key(c)) \/ Ends(c)
  BY DEF MintSaved, ConvertStarts
<1> QED
  BY <1>1, <1>2, HeightStep, EndsStep

LEMMA TickConvertsStep ==
    ASSUME LegsInv, NEW k \in Keys, TickConverts(k)
    PROVE  LegsInv'
<1>1. /\ Tick \in Chains /\ pc[Tick].at = "idle"
      /\ StoreSettles(Tick) /\ RailRests /\ WorldRests
  BY Rests DEF TickConverts, At, Waiting, Chains
<1> QED
  BY <1>1, HeightStep DEF TickConverts

(* finalizeMint's put is of the mint alone.                                *)
LEMMA MintLandsStep ==
    ASSUME LegsInv, NEW k \in Keys, MintLands(k)
    PROVE  LegsInv'
<1> DEFINE hook == <<"convert", k>>
           w == [at |-> "minted", key |-> k]
<1>1. hook \in Chains /\ pc[hook].at = "idle" /\ RailRests /\ WorldRests
  BY Rests DEF MintLands, At, Chains, Kinds
<1>2. PlaceMoves(hook, w) /\ w.at = "minted" /\ w.key = k
  BY <1>1, TakesPlace DEF MintLands, Working, Sending, Asking
<1>3. Put(hook, mem') /\ mem' = [mem EXCEPT !.minted = @ \cup {k}]
  BY DEF MintLands, Put
<1> HIDE DEF w, hook
<1>4. mem \in Versions /\ Truthful(mem, payouts, invoices)
  BY DEF LegsInv, StoreTypes, VersionInv, Ordered
<1>5. /\ mem' \in Versions
      /\ mem'.convert = mem.convert /\ mem'.ask = mem.ask /\ mem'.att = mem.att
  BY <1>3, <1>4 DEF Versions
<1>6. Truthful(mem', payouts, invoices) /\ After(invoices, mem', mem)
  BY <1>4, <1>5 DEF Truthful, Done, After, Keeps, Pins
<1>7. Edits(hook, w)
  BY <1>1, <1>5, <1>6 DEF Edits, RailRests, WorldRests
<1>8. Begun(w, mem') /\ Holds(w, mem', mem') /\ w.at \in Waiting /\ w.at # "pinned"
  BY <1>2 DEF Begun, Holds, Sending, Asking, Attesting, Waiting
<1>9. pc[hook].at \notin Waiting /\ pc[hook].at # "paying"
  BY <1>1 DEF Waiting
<1> QED
  BY <1>1, <1>2, <1>3, <1>7, <1>8, <1>9, PutStep

LEMMA ConvertClaimsStep ==
    ASSUME LegsInv, NEW c \in Chains, ConvertClaims(c)
    PROVE  LegsInv'
<1> DEFINE k == Key(c)
           w == [at |-> "claimed", key |-> k]
           r == [status |-> "converting", sent |-> 0]
<1>1. /\ pc[c].at = "height" /\ k \in Keys /\ RailRests /\ WorldRests
      /\ pc[c].at \notin Waiting /\ pc[c].at # "paying"
  BY AtKey, Rests DEF ConvertClaims, At, Waiting
<1>2. CASE ~Unclaimed(k)
  <2>1. Ends(c) /\ StoreSettles(c)
    BY <1>1, <1>2, Rests DEF ConvertClaims
  <2> QED
    BY <1>1, <2>1, EndsStep
<1>3. CASE Unclaimed(k)
  <2>1. Put(c, mem') /\ mem' = WithConvert(k, r) /\ Takes(c, "claimed", k)
    BY <1>3 DEF ConvertClaims, Goes, Put
  <2>2. PlaceMoves(c, w) /\ w.at = "claimed" /\ w.key = k
    BY <1>1, <2>1, TakesPlace DEF Working, Sending, Asking
  <2>3. r \in [status : {"converting", "converted"}, sent : Nat] /\ r.status = "converting" /\ r.sent = 0
    OBVIOUS
  <2> HIDE DEF w, r
  <2>4. Convert(k).status = "none" /\ Convert(k).sent = 0
    BY <1>1, <1>3, ConvertTypes DEF Unclaimed
  <2>5. mem'.convert[k].status = "converting"
    BY <1>1, <2>1, <2>3, ConvertPut
  <2>6. Later(invoices', invoices) /\ \A j \in Keys : payouts[j] \subseteq payouts'[j]
    BY <1>1 DEF RailRests, WorldRests, Later
  <2>7. Edits(c, w)
    BY <1>1, <1>3, <2>1, <2>3, <2>4, <2>6, ConvertEdits
  <2>8. Begun(w, mem') /\ Holds(w, mem', mem') /\ w.at \in Waiting /\ w.at # "pinned"
    BY <2>2, <2>5 DEF Begun, Holds, Sending, Asking, Attesting, Waiting
  <2> QED
    BY <1>1, <2>1, <2>2, <2>7, <2>8, PutStep
<1> QED
  BY <1>2, <1>3

LEMMA ConvertClaimedStep ==
    ASSUME LegsInv, NEW c \in Chains, ConvertClaimed(c)
    PROVE  LegsInv'
<1>1. /\ pc[c].at = "claimed" /\ Key(c) \in Keys /\ pc[c].key = Key(c)
      /\ StoreSettles(c) /\ RailRests /\ WorldRests /\ pc[c].at # "paying"
  BY AtKey, Rests DEF ConvertClaimed, At, Waiting
<1>2. ~Unclaimed(Key(c))
  BY <1>1, Standing DEF Begun, Unclaimed, Convert
<1> QED
  BY <1>1, <1>2, ConvertAttemptsStep, EndsStep DEF ConvertClaimed

LEMMA TickDrivesConvertStep ==
    ASSUME LegsInv, NEW k \in Keys, TickDrivesConvert(k)
    PROVE  LegsInv'
<1>1. /\ Tick \in Chains /\ pc[Tick].at = "idle" /\ pc[Tick].at # "paying"
      /\ StoreSettles(Tick) /\ RailRests /\ WorldRests
  BY Rests DEF TickDrivesConvert, At, Waiting, Chains
<1> QED
  BY <1>1, ConvertAttemptsStep DEF TickDrivesConvert, Unclaimed

(* A deposit is recorded by the chain that looks for it, or sends it.      *)
LEMMA SentParts ==
    ASSUME LegsInv, NEW c \in Chains, NEW l \in {"chain", "send"}, At(c, l),
           NEW tx \in Nat \ {0}, Sent(c, tx), Later(invoices', invoices),
           \A j \in Keys : payouts[j] \subseteq payouts'[j],
           NEW w, w = [at |-> "sent", key |-> Key(c)]
    PROVE  /\ PlaceMoves(c, w) /\ w.at = "sent" /\ w.key = Key(c)
           /\ Put(c, mem') /\ Edits(c, w) /\ Holds(w, mem', mem') /\ Begun(w, mem')
           /\ pc[c].at \notin Waiting /\ pc[c].at # "paying"
<1> DEFINE k == Key(c)
           r == [Convert(k) EXCEPT !.sent = tx]
<1>1. /\ pc[c].at = l /\ pc[c].key = k /\ k \in Keys /\ Converts(pc[c], k)
      /\ pc[c].at \notin Waiting /\ pc[c].at # "paying"
  BY AtKey DEF At, Waiting, Sending
<1>2. Put(c, mem') /\ mem' = WithConvert(k, r) /\ Takes(c, "sent", k)
  BY DEF Sent, Goes, Put
<1>3. PlaceMoves(c, w) /\ w.at = "sent" /\ w.key = k
  BY <1>1, <1>2, TakesPlace DEF Working, Sending, Asking
<1>4. /\ Convert(k) \in [status : {"none", "converting", "converted"}, sent : Nat]
      /\ Convert(k).status = "none" => Convert(k).sent = 0
      /\ Convert(k).status = "converted" => Convert(k).sent # 0
  BY <1>1, ConvertTypes
<1>5. Convert(k).sent = 0 /\ Convert(k).status # "none"
  BY <1>1, Standing DEF Begun, Stands, Sending, Convert
<1>6. r \in [status : {"converting", "converted"}, sent : Nat] /\ r.status = "converting" /\ r.sent = tx
  BY <1>4, <1>5
<1> HIDE DEF r, k
<1>7. mem'.convert[k] = r
  BY <1>1, <1>2, <1>6, ConvertPut
<1>8. Convert(k).status # "converted"
  BY <1>4, <1>5
<1>9. Edits(c, w)
  BY <1>1, <1>2, <1>3, <1>5, <1>6, <1>8, ConvertEdits
<1>10. Holds(w, mem', mem') /\ Begun(w, mem')
  BY <1>3, <1>6, <1>7 DEF Begun, Holds, Sending, Asking, Attesting
<1> QED
  BY <1>1, <1>2, <1>3, <1>9, <1>10 DEF k

LEMMA SentIsLookedForStep ==
    ASSUME LegsInv, NEW c \in Chains, SentIsLookedFor(c)
    PROVE  LegsInv'
<1> DEFINE k == Key(c)
           w == [at |-> "send", key |-> k]
           s == [at |-> "sent", key |-> k]
<1>1. /\ At(c, "chain") /\ pc[c].at = "chain" /\ pc[c].key = k /\ k \in Keys /\ Converts(pc[c], k)
      /\ pc[c].at \notin Waiting /\ pc[c].at # "paying" /\ RailRests /\ WorldRests
  BY AtKey, Rests DEF SentIsLookedFor, At, Waiting, Sending
<1>2. CASE treasury[k] = 0 /\ Goes(c, "send") /\ UNCHANGED storeVars
  <2>1. Takes(c, "send", k) /\ StoreSettles(c)
    BY <1>1, <1>2, Rests DEF Goes
  <2>2. PlaceMoves(c, w) /\ w.at = "send" /\ w.key = k
    BY <1>1, <2>1, TakesPlace DEF Working, Asking
  <2> HIDE DEF w
  <2>3. mem.convert[k].status # "none" /\ mem.convert[k].sent = 0
    BY <1>1, Standing DEF Begun, Stands, Sending
  <2>4. treasury[k] <= Landed(tardy[k])
    BY <1>2 DEF Landed
  <2>5. Begun(w, mem) /\ w.at \notin Waiting
    BY <2>2, <2>3 DEF Begun, Sending, Asking, Attesting, Waiting
  <2>6. Stands(w, mem, disk', treasury, tardy, invoices)
    BY <2>2, <2>3, <2>4 DEF Stands
  <2> QED
    BY <1>1, <2>1, <2>2, <2>5, <2>6, QuietStep
<1>3. CASE \E tx \in (1 .. treasury[k]) \ strays[k] : Sent(c, tx)
  <2>1. PICK tx \in 1 .. treasury[k] : Sent(c, tx)
    BY <1>3
  <2>2. tx \in Nat \ {0}
    <3>1. treasury \in [Keys -> Nat]
      BY DEF LegsInv, WorldTypes
    <3>2. treasury[k] \in Nat
      BY <1>1, <3>1
    <3> QED
      BY <2>1, <3>2
  <2>3. Later(invoices', invoices) /\ \A j \in Keys : payouts[j] \subseteq payouts'[j]
    BY <1>1 DEF RailRests, WorldRests, Later
  <2> HIDE DEF s
  <2>4. /\ PlaceMoves(c, s) /\ s.at = "sent" /\ s.key = k
        /\ Put(c, mem') /\ Edits(c, s) /\ Holds(s, mem', mem') /\ Begun(s, mem')
    BY <1>1, <2>1, <2>2, <2>3, SentParts DEF s
  <2>5. s.at \in Waiting /\ s.at # "pinned"
    BY <2>4 DEF Waiting
  <2> QED
    BY <1>1, <2>4, <2>5, PutStep
<1>4. CASE Ends(c) /\ UNCHANGED storeVars
  <2>1. StoreSettles(c)
    BY <1>1, <1>4, Rests
  <2> QED
    BY <1>1, <1>4, <2>1, EndsStep
<1> QED
  BY <1>2, <1>3, <1>4 DEF SentIsLookedFor

LEMMA LookThrowsStep ==
    ASSUME LegsInv, NEW c \in Chains, LookThrows(c)
    PROVE  LegsInv'
<1>1. /\ pc[c].at \in {"height", "chain"} /\ UNCHANGED storeVars
      /\ RailRests /\ WorldRests /\ Ends(c)
  BY Rests DEF LookThrows, At
<1>2. StoreSettles(c) /\ pc[c].at # "paying"
  BY <1>1, Rests DEF Waiting
<1> QED
  BY <1>1, <1>2, EndsStep

LEMMA TreasuryGrows ==
    ASSUME LegsInv, NEW k \in Keys, TreasuryPaid(k)
    PROVE  /\ treasury' \in [Keys -> Nat] /\ treasury[k] \in Nat
           /\ treasury'[k] = treasury[k] + 1 /\ treasury'[k] \in Nat \ {0}
           /\ \A j \in Keys : j # k => treasury'[j] = treasury[j]
<1>1. treasury \in [Keys -> Nat]
  BY DEF LegsInv, WorldTypes
<1> QED
  BY <1>1 DEF TreasuryPaid

(* The treasury is paid by a chain that stands to send.                    *)
LEMMA TreasuryPays ==
    ASSUME LegsInv, NEW c \in Chains, At(c, "send"), TreasuryPaid(Key(c)), UNCHANGED payouts,
           tardy' \in [Keys -> {"none", "under way", "astray", "landed"}],
           \A j \in Keys : tardy'[j] = "landed" <=> tardy[j] = "landed"
    PROVE  Pays(c)
<1>1. Key(c) \in Keys /\ pc[c].at = "send" /\ pc[c].key = Key(c)
  BY AtKey
<1>2. treasury \in [Keys -> Nat] /\ payouts \in [Keys -> SUBSET Nat]
  BY DEF LegsInv, WorldTypes
<1>3. /\ treasury' \in [Keys -> Nat] /\ treasury'[Key(c)] = treasury[Key(c)] + 1
      /\ \A j \in Keys : j # Key(c) => treasury'[j] = treasury[j]
  BY <1>1, TreasuryGrows
<1> HIDE DEF TreasuryPaid
<1> QED
  BY <1>1, <1>2, <1>3 DEF Pays

LEMMA SendAnsweredStep ==
    ASSUME LegsInv, NEW c \in Chains, SendAnswered(c)
    PROVE  LegsInv'
<1> DEFINE k == Key(c)
           s == [at |-> "sent", key |-> k]
<1>1. At(c, "send") /\ k \in Keys /\ RailRests
  BY AtKey, Rests DEF SendAnswered
<1>2. TreasuryPaid(k) /\ UNCHANGED <<tardy, payouts>> /\ Sent(c, treasury'[k])
  BY DEF SendAnswered
<1>3. tardy' \in [Keys -> {"none", "under way", "astray", "landed"}]
  BY <1>2 DEF LegsInv, WorldTypes
<1>4. Pays(c)
  BY <1>1, <1>2, <1>3, TreasuryPays
<1>5. treasury'[k] \in Nat \ {0}
  BY <1>1, <1>2, TreasuryGrows
<1>6. Later(invoices', invoices) /\ \A j \in Keys : payouts[j] \subseteq payouts'[j]
  BY <1>1, <1>2 DEF RailRests, Later
<1> HIDE DEF s
<1>7. /\ PlaceMoves(c, s) /\ s.at = "sent"
      /\ Put(c, mem') /\ Edits(c, s) /\ Holds(s, mem', mem') /\ Begun(s, mem')
      /\ pc[c].at \notin Waiting /\ pc[c].at # "paying"
  BY <1>1, <1>2, <1>5, <1>6, SentParts DEF s
<1>8. StoreMoves(c, s)
  BY <1>7 DEF StoreMoves, Waiting
<1>9. Fresh(s)
  BY <1>7 DEF Fresh, Stands
<1>10. Rails(c, s)
  BY <1>1, <1>7, RailsRest
<1> QED
  BY <1>4, <1>7, <1>8, <1>9, <1>10, StepKeeps

LEMMA SendThrowsStep ==
    ASSUME LegsInv, NEW c \in Chains, SendThrows(c)
    PROVE  LegsInv'
<1>1. /\ At(c, "send") /\ pc[c].at = "send" /\ Key(c) \in Keys /\ RailRests
      /\ Ends(c) /\ UNCHANGED storeVars /\ UNCHANGED payouts
      /\ pc[c].at \notin Waiting /\ pc[c].at # "paying"
  BY AtKey, Rests DEF SendThrows, At, Waiting
<1>2. tardy \in [Keys -> {"none", "under way", "astray", "landed"}]
  BY DEF LegsInv, WorldTypes
<1>4. CASE UNCHANGED treasury /\ \/ UNCHANGED tardy
                                 \/ /\ tardy[Key(c)] = "none"
                                    /\ tardy' = [tardy EXCEPT ![Key(c)] = "under way"]
  <2>1. /\ tardy' \in [Keys -> {"none", "under way", "astray", "landed"}]
        /\ \A j \in Keys : tardy'[j] = "landed" <=> tardy[j] = "landed"
    BY <1>1, <1>2, <1>4
  <2>2. treasury \in [Keys -> Nat] /\ payouts \in [Keys -> SUBSET Nat]
    BY DEF LegsInv, WorldTypes
  <2>3. Pays(c)
    BY <1>1, <1>4, <2>1, <2>2 DEF Pays
  <2> QED
    BY <1>1, <2>3, RailsRest, EndsWith
<1>5. TreasuryPaid(Key(c)) /\ UNCHANGED tardy => LegsInv'
  <2>1. ASSUME TreasuryPaid(Key(c)), UNCHANGED tardy PROVE Pays(c)
    BY <1>1, <1>2, <2>1, TreasuryPays
  <2> QED
    BY <1>1, <2>1, RailsRest, EndsWith
<1> QED
  BY <1>4, <1>5 DEF SendThrows

LEMMA SentSavedStep ==
    ASSUME LegsInv, NEW c \in Chains, SentSaved(c)
    PROVE  LegsInv'
<1> DEFINE k == Key(c)
           w == [at |-> "execute", key |-> k]
<1>1. /\ pc[c].at = "sent" /\ pc[c].key = k /\ k \in Keys /\ Converts(pc[c], k)
      /\ StoreSettles(c) /\ Settle(c) /\ RailRests /\ WorldRests /\ pc[c].at # "paying"
  BY AtKey, Rests DEF SentSaved, At, Waiting, Sending
<1>2. PlaceMoves(c, w) /\ w.at = "execute" /\ w.key = k
  BY <1>1, TakesPlace DEF SentSaved, Goes, Working, Asking
<1> HIDE DEF w
<1>3. mem' \in Versions
  BY <1>1, SettledFile DEF LegsInv, StoreTypes
<1>4. disk'.convert[k].sent # 0
  BY <1>1, <1>3, WrittenHolds DEF LegsInv
<1>5. mem.convert[k].status # "none"
  BY <1>1, Standing DEF Begun, Sending
<1>6. Begun(w, mem) /\ w.at \notin Waiting
  BY <1>2, <1>5 DEF Begun, Sending, Asking, Attesting, Waiting
<1>7. Stands(w, mem, disk', treasury, tardy, invoices)
  BY <1>2, <1>4 DEF Stands
<1> QED
  BY <1>1, <1>2, <1>6, <1>7, QuietStep

(* The engine pays out for the deposit that is on disk.                    *)
LEMMA PaysOutPays ==
    ASSUME LegsInv, NEW c \in Chains, At(c, "execute"), PaysOut(Key(c)), UNCHANGED <<treasury, tardy>>
    PROVE  /\ Pays(c)
           /\ Convert(Key(c)).sent \in payouts'[Key(c)] /\ Convert(Key(c)).sent # 0
<1>1. Key(c) \in Keys /\ pc[c].at = "execute" /\ pc[c].key = Key(c)
  BY AtKey
<1>2. /\ treasury \in [Keys -> Nat] /\ payouts \in [Keys -> SUBSET Nat]
      /\ tardy \in [Keys -> {"none", "under way", "astray", "landed"}]
  BY DEF LegsInv, WorldTypes
<1>3. disk.convert[Key(c)].sent # 0
  BY <1>1, Standing DEF Stands
<1>4. Convert(Key(c)).sent \in Nat /\ Convert(Key(c)).sent # 0
  BY <1>1, <1>3, ConvertTypes
<1>5. /\ payouts' \in [Keys -> SUBSET Nat]
      /\ payouts'[Key(c)] = payouts[Key(c)] \cup {Convert(Key(c)).sent}
      /\ \A j \in Keys : j # Key(c) => payouts'[j] = payouts[j]
  BY <1>1, <1>2, <1>4 DEF PaysOut
<1> HIDE DEF PaysOut
<1>6. Pays(c)
  BY <1>1, <1>2, <1>3, <1>5 DEF Pays, Convert
<1> QED
  BY <1>4, <1>5, <1>6

LEMMA ExecutedStep ==
    ASSUME LegsInv, NEW c \in Chains, Executed(c)
    PROVE  LegsInv'
<1> DEFINE k == Key(c)
           r == [Convert(k) EXCEPT !.status = "converted"]
           w == [at |-> "converted", key |-> k]
<1>1. /\ At(c, "execute") /\ pc[c].at = "execute" /\ k \in Keys /\ Converts(pc[c], k) /\ RailRests
      /\ pc[c].at \notin Waiting /\ pc[c].at # "paying"
  BY AtKey, Rests DEF Executed, At, Waiting, Sending
<1>2. /\ PaysOut(k) /\ UNCHANGED <<treasury, tardy>>
      /\ Put(c, mem') /\ mem' = WithConvert(k, r) /\ Takes(c, "converted", k)
  BY DEF Executed, Goes, Put
<1>3. Pays(c) /\ Convert(k).sent \in payouts'[k] /\ Convert(k).sent # 0
  BY <1>1, <1>2, PaysOutPays
<1>4. PlaceMoves(c, w) /\ w.at = "converted" /\ w.key = k
  BY <1>1, <1>2, TakesPlace DEF Working, Asking
<1>5. /\ r \in [status : {"converting", "converted"}, sent : Nat]
      /\ r.status = "converted" /\ r.sent = Convert(k).sent
  BY <1>1, ConvertTypes
<1> HIDE DEF r, k, w
<1>6. mem'.convert[k] = r
  BY <1>1, <1>2, <1>5, ConvertPut
<1>7. Later(invoices', invoices) /\ \A j \in Keys : payouts[j] \subseteq payouts'[j]
  BY <1>1, <1>3 DEF RailRests, Later, Pays
<1>8. Edits(c, w)
  BY <1>1, <1>2, <1>3, <1>5, <1>7, ConvertEdits
<1>9. Fresh(w) /\ Holds(w, mem', mem')
  BY <1>4, <1>5, <1>6 DEF Fresh, Begun, Stands, Holds, Sending, Asking, Attesting
<1>10. StoreMoves(c, w)
  BY <1>1, <1>2, <1>4, <1>9 DEF StoreMoves, Waiting
<1>11. Rails(c, w)
  BY <1>1, RailsRest
<1> QED
  BY <1>3, <1>4, <1>8, <1>9, <1>10, <1>11, StepKeeps

LEMMA ExecuteThrowsStep ==
    ASSUME LegsInv, NEW c \in Chains, ExecuteThrows(c)
    PROVE  LegsInv'
<1>1. /\ At(c, "execute") /\ RailRests
      /\ Ends(c) /\ UNCHANGED storeVars /\ UNCHANGED <<treasury, tardy>>
      /\ pc[c].at \notin Waiting /\ pc[c].at # "paying"
  BY AtKey, Rests DEF ExecuteThrows, At, Waiting
<1>2. PaysOut(Key(c)) => Pays(c)
  <2>1. ASSUME PaysOut(Key(c)) PROVE Pays(c)
    BY <1>1, <2>1, PaysOutPays
  <2> QED
    BY <2>1
<1>3. UNCHANGED payouts => Pays(c)
  BY <1>1, PaysRest DEF WorldRests
<1>4. Pays(c)
  BY <1>2, <1>3 DEF ExecuteThrows
<1> QED
  BY <1>1, <1>4, RailsRest, EndsWith

-----------------------------------------------------------------------------
(* The attestation's steps.                                                *)

LEMMA AttPut ==
    ASSUME LegsInv, NEW e \in Events, NEW v \in {"unsigned", "signed"}, mem' = WithAttestation(e, v)
    PROVE  \A f : Done(mem', f) <=> Done(mem, f)
<1>1. mem \in Versions /\ v \in {"none", "unsigned", "signed"}
  BY DEF LegsInv, StoreTypes
<1>2. mem' = [mem EXCEPT !.att[e] = v]
  BY DEF WithAttestation
<1>3. mem'.convert = mem.convert /\ mem'.ask = mem.ask
  BY <1>1, <1>2, AttEdit
<1> QED
  BY <1>3 DEF Done

(* The attestation of what is done is put, by the chain that did it.       *)
LEMMA AttestPuts ==
    ASSUME LegsInv, NEW c \in Chains, NEW e \in Events, Done(mem, e),
           NEW v \in {"unsigned", "signed"}, mem' = WithAttestation(e, v),
           NEW l \in {"attest", "signed"}, Attests(c, e, l),
           e[1] = "convert" => Converts(pc[c], e[2]), e[1] = "ask" => Asks(pc[c], e[2]),
           \/ Put(c, mem') /\ pc[c].at \notin Waiting
           \/ SettlePut(c, mem') /\ pc[c].at \in Waiting,
           RailRests, WorldRests, pc[c].at # "paying"
    PROVE  LegsInv'
<1> DEFINE w == [at |-> l, key |-> e[2], event |-> e[1]]
<1>1. l \in Attesting \cup {"resign"}
  BY DEF Attesting
<1>2. PlaceMoves(c, w) /\ w.at = l /\ \A m : Done(m, e) => Begun(w, m)
  BY <1>1, AttestsPlace
<1> HIDE DEF w
<1>3. Begun(w, mem')
  BY <1>2, AttPut
<1>4. Holds(w, mem', mem') /\ w.at \in Waiting /\ w.at # "pinned"
  BY <1>2 DEF Holds, Waiting
<1>5. Edits(c, w)
  BY AttEdits
<1> QED
  BY <1>2, <1>3, <1>4, <1>5, PutStep

LEMMA EventSavedStep ==
    ASSUME LegsInv, NEW c \in Chains, EventSaved(c)
    PROVE  LegsInv'
<1> DEFINE e == <<IF At(c, "converted") THEN "convert" ELSE "ask", Key(c)>>
<1>1. PICK l \in {"converted", "answered"} : At(c, l)
  BY DEF EventSaved
<1>2. /\ pc[c].at = l /\ pc[c].key = Key(c) /\ Key(c) \in Keys
      /\ l = "converted" => Converts(pc[c], Key(c))
      /\ l = "answered" => Asks(pc[c], Key(c))
      /\ RailRests /\ WorldRests
  BY <1>1, AtKey, Rests DEF EventSaved, Sending, Asking
<1>3. pc[c].at \in Waiting /\ pc[c].at # "paying" /\ pc[c].at # "idle"
  BY <1>2 DEF Waiting
<1>4. /\ e[2] = Key(c) /\ e \in Events
      /\ l = "converted" => e[1] = "convert"
      /\ l = "answered" => e[1] = "ask"
  BY <1>1, <1>2 DEF At, Events, Kinds
<1>5. IF mem.att[e] = "none"
      THEN SettlePut(c, WithAttestation(e, "unsigned")) /\ Attests(c, e, "attest")
      ELSE Settle(c) /\ Follows(c, e)
  BY DEF EventSaved
<1> HIDE DEF e
<1>6. Done(mem, e)
  BY <1>2, <1>4, Standing DEF Begun, Done
<1>7. CASE mem.att[e] = "none"
  <2>1. SettlePut(c, mem') /\ mem' = WithAttestation(e, "unsigned") /\ Attests(c, e, "attest")
    BY <1>5, <1>7 DEF SettlePut
  <2>2. (e[1] = "convert" => Converts(pc[c], e[2])) /\ (e[1] = "ask" => Asks(pc[c], e[2]))
    BY <1>2, <1>4
  <2> QED
    BY <1>2, <1>3, <1>4, <1>6, <2>1, <2>2, AttestPuts
<1>8. CASE mem.att[e] # "none"
  <2>1. StoreSettles(c) /\ Follows(c, e)
    BY <1>3, <1>5, <1>8, Rests
  <2> QED
    BY <1>2, <1>3, <1>4, <2>1, FollowsStep
<1> QED
  BY <1>7, <1>8

LEMMA AttestationSavedStep ==
    ASSUME LegsInv, NEW c \in Chains, AttestationSaved(c)
    PROVE  LegsInv'
<1> DEFINE e == Event(c)
           w == [at |-> "sign", key |-> e[2], event |-> e[1]]
<1>1. /\ pc[c].at = "attest" /\ e \in Events /\ Done(mem, e) /\ e[2] = Key(c)
      /\ e[1] = "convert" => Converts(pc[c], e[2])
      /\ e[1] = "ask" => Asks(pc[c], e[2])
      /\ RailRests /\ WorldRests
  BY AtKey, Rests DEF AttestationSaved, Attesting
<1>2. StoreSettles(c) /\ Attests(c, e, "sign") /\ pc[c].at # "paying"
  BY <1>1, Rests DEF AttestationSaved, Waiting
<1> HIDE DEF e
<1>3. PlaceMoves(c, w) /\ w.at = "sign" /\ \A m : Done(m, e) => Begun(w, m)
  BY <1>1, <1>2, AttestsPlace DEF Attesting
<1> HIDE DEF w
<1>4. Begun(w, mem) /\ Stands(w, mem, disk', treasury, tardy, invoices) /\ w.at \notin Waiting
  <2>1. Begun(w, mem)
    BY <1>1, <1>3
  <2> QED
    BY <1>3, <2>1 DEF Stands, Waiting
<1> QED
  BY <1>1, <1>2, <1>3, <1>4, QuietStep

LEMMA SignedStep ==
    ASSUME LegsInv, NEW c \in Chains, Signed(c)
    PROVE  LegsInv'
<1> DEFINE e == Event(c)
<1>1. /\ pc[c].at = "sign" /\ e \in Events /\ Done(mem, e) /\ e[2] = Key(c)
      /\ e[1] = "convert" => Converts(pc[c], e[2])
      /\ e[1] = "ask" => Asks(pc[c], e[2])
      /\ RailRests /\ WorldRests
  BY AtKey, Rests DEF Signed, Attesting
<1>2. /\ Put(c, mem') /\ mem' = WithAttestation(e, "signed") /\ Attests(c, e, "signed")
      /\ pc[c].at \notin Waiting /\ pc[c].at # "paying"
  BY <1>1 DEF Signed, Put, Waiting
<1> HIDE DEF e
<1> QED
  BY <1>1, <1>2, AttestPuts

LEMMA SignThrowsStep ==
    ASSUME LegsInv, NEW c \in Chains, SignThrows(c)
    PROVE  LegsInv'
<1>1. /\ pc[c].at \in {"sign", "resign"}
      /\ UNCHANGED storeVars /\ RailRests /\ WorldRests
  BY Rests DEF SignThrows, At
<1>2. StoreSettles(c) /\ pc[c].at # "paying" /\ pc[c].at # "idle"
  BY <1>1, Rests DEF Waiting
<1>3. CASE At(c, "sign")
  <2>1. Event(c) \in Events /\ Follows(c, Event(c))
    BY <1>3, AtKey DEF SignThrows, Attesting
  <2> QED
    BY <1>1, <1>2, <2>1, FollowsStep
<1>4. CASE ~At(c, "sign")
  BY <1>1, <1>2, <1>4, EndsStep DEF SignThrows
<1> QED
  BY <1>3, <1>4

LEMMA SignedSavedStep ==
    ASSUME LegsInv, NEW c \in Chains, SignedSaved(c)
    PROVE  LegsInv'
<1>1. /\ pc[c].at = "signed" /\ Settle(c) /\ RailRests /\ WorldRests /\ Follows(c, Event(c))
  BY Rests DEF SignedSaved, At
<1>2. StoreSettles(c) /\ pc[c].at # "paying" /\ pc[c].at # "idle"
  BY <1>1, Rests DEF Waiting
<1>3. Event(c) \in Events
  BY AtKey DEF SignedSaved, Attesting
<1> QED
  BY <1>1, <1>2, <1>3, FollowsStep

LEMMA SavedStep ==
    ASSUME LegsInv, NEW c \in Chains, Saved(c)
    PROVE  LegsInv'
<1>1. /\ pc[c].at \in {"saving", "dropped"} /\ Settle(c) /\ RailRests /\ WorldRests /\ Ends(c)
  BY Rests DEF Saved, At
<1>2. StoreSettles(c) /\ pc[c].at # "paying"
  BY <1>1, Rests DEF Waiting
<1> QED
  BY <1>1, <1>2, EndsStep

LEMMA TickSignsStep ==
    ASSUME LegsInv, NEW e \in Events, TickSigns(e)
    PROVE  LegsInv'
<1> DEFINE w == [at |-> "resign", key |-> e[2], event |-> e[1]]
<1>1. /\ Tick \in Chains /\ pc[Tick].at = "idle" /\ UNCHANGED storeVars
      /\ RailRests /\ WorldRests /\ Attests(Tick, e, "resign")
  BY Rests DEF TickSigns, At, Attests, Chains
<1>2. StoreSettles(Tick) /\ pc[Tick].at # "paying"
  BY <1>1, Rests DEF Waiting
<1>3. Done(mem, e)
  BY DEF TickSigns, LegsInv, VersionInv, Ordered, Truthful
<1>4. PlaceMoves(Tick, w) /\ w.at = "resign" /\ \A m : Done(m, e) => Begun(w, m)
  BY <1>1, AttestsPlace DEF Attesting
<1> HIDE DEF w
<1>5. Begun(w, mem)
  BY <1>3, <1>4
<1>6. Stands(w, mem, disk', treasury, tardy, invoices) /\ w.at \notin Waiting
  BY <1>4 DEF Stands, Waiting
<1> QED
  BY <1>1, <1>2, <1>4, <1>5, <1>6, QuietStep

LEMMA ResignedStep ==
    ASSUME LegsInv, Resigned
    PROVE  LegsInv'
<1> DEFINE e == Event(Tick)
           w == [at |-> "saving", key |-> Key(Tick)]
<1>1. /\ Tick \in Chains /\ RailRests /\ WorldRests
  BY Rests DEF Resigned, Chains
<1>2. pc[Tick].at = "resign" /\ e \in Events /\ Done(mem, e) /\ Key(Tick) \in Keys
  BY <1>1, AtKey DEF Resigned
<1>3. /\ Put(Tick, mem') /\ mem' = WithAttestation(e, "signed")
      /\ pc[Tick].at \notin Waiting /\ pc[Tick].at # "paying"
  BY <1>2 DEF Resigned, Put, Waiting
<1>4. PlaceMoves(Tick, w) /\ w.at = "saving"
  BY <1>1, <1>2, TakesPlace DEF Resigned, Working, Sending, Asking
<1> HIDE DEF e, w
<1>5. Edits(Tick, w)
  BY <1>1, <1>2, <1>3, AttEdits
<1>6. Begun(w, mem') /\ Holds(w, mem', mem') /\ w.at \in Waiting /\ w.at # "pinned"
  BY <1>4 DEF Begun, Holds, Waiting, Sending, Asking, Attesting
<1> QED
  BY <1>1, <1>3, <1>4, <1>5, <1>6, PutStep

-----------------------------------------------------------------------------
(* The 402 leg's steps.                                                    *)

LEMMA AskPut ==
    ASSUME LegsInv, NEW k \in Keys, NEW r \in [status : {"asking", "answered"}, invoice : Nat],
           mem' = WithAsk(k, r)
    PROVE  mem'.ask[k] = r
<1>1. mem \in Versions /\ r \in [status : {"none", "asking", "answered"}, invoice : Nat]
  BY DEF LegsInv, StoreTypes
<1> QED
  BY <1>1, AskEdit DEF WithAsk

LEMMA AskTypes ==
    ASSUME LegsInv, NEW k \in Keys
    PROVE  /\ Ask(k) \in [status : {"none", "asking", "answered"}, invoice : Nat]
           /\ Ask(k).status = "none" => Ask(k).invoice = NoInvoice
           /\ Ask(k).status = "answered" =>
                Ask(k).invoice # NoInvoice /\ Status(Ask(k).invoice) = "redeemed"
           /\ Ask(k).invoice # NoInvoice =>
                Ask(k).invoice \in DOMAIN invoices /\ invoices[Ask(k).invoice].for = k
<1>1. mem \in Versions /\ Truthful(mem, payouts, invoices)
  BY DEF LegsInv, StoreTypes, VersionInv, Ordered
<1>2. mem.ask[k] \in [status : {"none", "asking", "answered"}, invoice : Nat]
  BY <1>1 DEF Versions
<1> QED
  BY <1>1, <1>2 DEF Ask, Truthful, Status

LEMMA AskClaimsStep ==
    ASSUME LegsInv, NEW c \in Chains, NEW k \in Keys, Ask(k).status = "none", AskClaims(c, k),
           pc[c].at \notin Waiting, RailRests, WorldRests, pc[c].at # "paying"
    PROVE  LegsInv'
<1> DEFINE r == [status |-> "asking", invoice |-> NoInvoice]
           w == [at |-> "asked", key |-> k]
<1>1. Put(c, mem') /\ mem' = WithAsk(k, r) /\ Takes(c, "asked", k)
  BY DEF AskClaims, Put
<1>2. PlaceMoves(c, w) /\ w.at = "asked" /\ w.key = k
  BY <1>1, TakesPlace DEF Working, Sending, Asking
<1>3. /\ r \in [status : {"asking", "answered"}, invoice : Nat]
      /\ r.status = "asking" /\ r.invoice = NoInvoice
  BY DEF NoInvoice
<1> HIDE DEF r, w
<1>4. Ask(k).invoice = NoInvoice
  BY AskTypes
<1>5. ~Live(invoices', Ask(k).invoice)
  BY <1>4 DEF Live
<1>6. Later(invoices', invoices) /\ UNCHANGED payouts
  BY DEF RailRests, WorldRests, Later
<1>7. Edits(c, w)
  BY <1>1, <1>3, <1>4, <1>5, <1>6, AskEdits
<1>8. mem'.ask[k] = r
  BY <1>1, <1>3, AskPut
<1>9. Begun(w, mem') /\ Holds(w, mem', mem') /\ w.at \in Waiting /\ w.at # "pinned"
  BY <1>2, <1>3, <1>8 DEF Begun, Holds, Waiting, Sending, Asking, Attesting
<1> QED
  BY <1>1, <1>2, <1>7, <1>9, PutStep

LEMMA AskStartsStep ==
    ASSUME LegsInv, NEW c \in Chains, AskStarts(c)
    PROVE  LegsInv'
<1>1. /\ pc[c].at = "start" /\ Key(c) \in Keys /\ RailRests /\ WorldRests
      /\ pc[c].at \notin Waiting /\ pc[c].at # "paying"
  BY AtKey, Rests DEF AskStarts, At, Waiting
<1>2. CASE Ask(Key(c)).status = "none"
  BY <1>1, <1>2, AskClaimsStep DEF AskStarts
<1>3. CASE Ask(Key(c)).status # "none"
  <2>1. Ends(c) /\ StoreSettles(c)
    BY <1>1, <1>3, Rests DEF AskStarts
  <2> QED
    BY <1>1, <2>1, EndsStep
<1> QED
  BY <1>2, <1>3

LEMMA TickAsksStep ==
    ASSUME LegsInv, NEW k \in Keys, TickAsks(k)
    PROVE  LegsInv'
<1>1. /\ Tick \in Chains /\ pc[Tick].at = "idle" /\ RailRests /\ WorldRests
      /\ pc[Tick].at \notin Waiting /\ pc[Tick].at # "paying"
  BY Rests DEF TickAsks, At, Waiting, Chains
<1> QED
  BY <1>1, AskClaimsStep DEF TickAsks

LEMMA AskClaimedStep ==
    ASSUME LegsInv, NEW c \in Chains, AskClaimed(c)
    PROVE  LegsInv'
<1>1. /\ pc[c].at = "asked" /\ Key(c) \in Keys /\ pc[c].key = Key(c)
      /\ StoreSettles(c) /\ RailRests /\ WorldRests /\ pc[c].at # "paying"
  BY AtKey, Rests DEF AskClaimed, At, Waiting
<1>2. Ask(Key(c)).status # "none"
  BY <1>1, Standing DEF Begun, Ask
<1> QED
  BY <1>1, <1>2, AskAttemptsStep, EndsStep DEF AskClaimed

LEMMA TickDrivesAskStep ==
    ASSUME LegsInv, NEW k \in Keys, TickDrivesAsk(k)
    PROVE  LegsInv'
<1>1. /\ Tick \in Chains /\ pc[Tick].at = "idle" /\ pc[Tick].at # "paying"
      /\ StoreSettles(Tick) /\ RailRests /\ WorldRests
  BY Rests DEF TickDrivesAsk, At, Waiting, Chains
<1> QED
  BY <1>1, AskAttemptsStep DEF TickDrivesAsk

(* The seller's invoice is new, for this loop, and unpaid.                 *)
LEMMA Issues ==
    ASSUME LegsInv, NEW k \in Keys, Issue(1, k), UNCHANGED <<channels, clientVars, late>>
    PROVE  /\ RailTypes' /\ InvoicesMove
           /\ Issued \in Nat /\ Issued # NoInvoice
           /\ Issued \in DOMAIN invoices' /\ invoices'[Issued].for = k
<1> DEFINE new == [price |-> 1, status |-> "pending", for |-> k, on |-> 0]
<1>1. invoices \in Seq(Invoices) /\ RailTypes
  BY DEF LegsInv, RailTypes
<1>2. invoices' = Append(invoices, new)
  BY DEF Issue
<1>3. new \in Invoices /\ new.status = "pending" /\ new.for = k /\ new.on = 0
  BY DEF Invoices
<1> HIDE DEF new
<1>4. /\ invoices' \in Seq(Invoices) /\ Len(invoices') = Len(invoices) + 1
      /\ \A i \in 1 .. Len(invoices) : invoices'[i] = invoices[i]
      /\ invoices'[Len(invoices) + 1] = new
  BY <1>1, <1>2, <1>3
<1>5. /\ DOMAIN invoices = 1 .. Len(invoices) /\ DOMAIN invoices' = 1 .. (Len(invoices) + 1)
      /\ Len(invoices) \in Nat
  BY <1>1, <1>4
<1>6. RailTypes'
  BY <1>1, <1>4 DEF RailTypes, clientVars
<1>7. \A i \in DOMAIN invoices' : i \in DOMAIN invoices \/ invoices'[i] = new
  BY <1>4, <1>5
<1>8. \A i \in DOMAIN invoices : i \in DOMAIN invoices' /\ invoices'[i] = invoices[i]
  BY <1>4, <1>5
<1>9. InvoicesMove
  <2>1. Later(invoices', invoices)
    BY <1>8 DEF Later
  <2>2. \A i \in DOMAIN invoices' :
          /\ invoices'[i].status \in {"paid", "redeemed"} <=> invoices'[i].on # 0
          /\ invoices'[i].on # 0 => i \in DOMAIN invoices /\ invoices[i].on # 0
    BY <1>3, <1>7, <1>8 DEF LegsInv, RailInv
  <2> QED
    BY <2>1, <2>2 DEF InvoicesMove
<1> QED
  BY <1>3, <1>4, <1>5, <1>6, <1>9 DEF Issued, NoInvoice

LEMMA ChallengedStep ==
    ASSUME LegsInv, NEW c \in Chains, Challenged(c)
    PROVE  LegsInv'
<1> DEFINE k == Key(c)
           r == [Ask(k) EXCEPT !.invoice = Issued]
           w == [at |-> "pinned", key |-> k]
<1>1. /\ pc[c].at = "challenge" /\ pc[c].key = k /\ k \in Keys /\ Asks(pc[c], k)
      /\ pc[c].at \notin Waiting /\ pc[c].at # "paying" /\ WorldRests
  BY AtKey, Rests DEF Challenged, At, Waiting, Asking
<1>2. /\ Issue(1, k) /\ UNCHANGED <<channels, clientVars, late>>
      /\ Put(c, mem') /\ mem' = WithAsk(k, r) /\ Takes(c, "pinned", k)
  BY DEF Challenged, Goes, Put
<1>3. PlaceMoves(c, w) /\ w.at = "pinned" /\ w.key = k
  BY <1>1, <1>2, TakesPlace DEF Working, Sending
<1>4. /\ RailTypes' /\ InvoicesMove
      /\ Issued \in Nat /\ Issued # NoInvoice
      /\ Issued \in DOMAIN invoices' /\ invoices'[Issued].for = k
  BY <1>1, <1>2, Issues
<1>5. Ask(k).invoice = NoInvoice /\ Ask(k).status # "none"
  BY <1>1, Standing DEF Begun, Stands, Asking, Ask
<1>6. /\ Ask(k) \in [status : {"none", "asking", "answered"}, invoice : Nat]
      /\ Ask(k).status # "answered"
  BY <1>1, <1>5, AskTypes
<1>7. /\ r \in [status : {"asking", "answered"}, invoice : Nat]
      /\ r.status = "asking" /\ r.invoice = Issued
  BY <1>4, <1>5, <1>6
<1> HIDE DEF r, w, k
<1>8. ~Live(invoices', Ask(k).invoice)
  BY <1>5 DEF Live
<1>9. Later(invoices', invoices) /\ UNCHANGED payouts
  BY <1>1, <1>4 DEF InvoicesMove, WorldRests
<1>10. Edits(c, w)
  BY <1>1, <1>2, <1>3, <1>4, <1>6, <1>7, <1>8, <1>9, AskEdits
<1>11. mem'.ask[k] = r
  BY <1>1, <1>2, <1>7, AskPut
<1>12. Begun(w, mem')
  BY <1>3, <1>7, <1>11 DEF Begun, Sending, Asking, Attesting
<1>13. Fresh(w) /\ Holds(w, mem', mem')
  BY <1>3, <1>4, <1>7, <1>11, <1>12 DEF Fresh, Stands, Holds
<1>14. StoreMoves(c, w)
  BY <1>1, <1>2, <1>3, <1>13 DEF StoreMoves, Waiting
<1>15. call' = call /\ call[c] = Calm
  BY <1>1, <1>2 DEF clientVars, LegsInv, RailInv
<1>16. Rails(c, w)
  BY <1>4, <1>15 DEF Rails
<1> QED
  BY <1>1, <1>3, <1>10, <1>13, <1>14, <1>16, PaysRest, StepKeeps

LEMMA ChallengeThrowsStep ==
    ASSUME LegsInv, NEW c \in Chains, ChallengeThrows(c)
    PROVE  LegsInv'
<1>1. /\ pc[c].at = "challenge" /\ UNCHANGED storeVars /\ RailRests /\ WorldRests /\ Ends(c)
  BY Rests DEF ChallengeThrows, At
<1>2. StoreSettles(c) /\ pc[c].at # "paying"
  BY <1>1, Rests DEF Waiting
<1> QED
  BY <1>1, <1>2, EndsStep

LEMMA PinnedSavedStep ==
    ASSUME LegsInv, NEW c \in Chains, PinnedSaved(c)
    PROVE  LegsInv'
<1> DEFINE k == Key(c)
           w == [at |-> "status", key |-> k]
<1>1. /\ pc[c].at = "pinned" /\ pc[c].key = k /\ k \in Keys /\ Asks(pc[c], k)
      /\ StoreSettles(c) /\ Settle(c) /\ RailRests /\ WorldRests /\ pc[c].at # "paying"
  BY AtKey, Rests DEF PinnedSaved, At, Waiting, Asking
<1>2. PlaceMoves(c, w) /\ w.at = "status" /\ w.key = k
  BY <1>1, TakesPlace DEF PinnedSaved, Goes, Working, Sending
<1> HIDE DEF w
<1>3. mem' \in Versions
  BY <1>1, SettledFile DEF LegsInv, StoreTypes
<1>4. disk'.ask[k].invoice = mem.ask[k].invoice
  BY <1>1, <1>3, WrittenHolds DEF LegsInv
<1>5. mem.ask[k].status # "none" /\ mem.ask[k].invoice # NoInvoice
  BY <1>1, Standing DEF Begun, Stands, Asking
<1>6. invoices[mem.ask[k].invoice].for = k
  BY <1>1, <1>5, AskTypes DEF Ask
<1>7. Pinned(invoices, disk', mem.ask[k].invoice)
  BY <1>4, <1>6 DEF Pinned
<1>8. Begun(w, mem) /\ w.at \notin Waiting
  BY <1>2, <1>5 DEF Begun, Sending, Asking, Attesting, Waiting
<1>9. Stands(w, mem, disk', treasury, tardy, invoices)
  BY <1>2, <1>5, <1>7 DEF Stands
<1> QED
  BY <1>1, <1>2, <1>8, <1>9, QuietStep

(* A payment that lands is for a pinned invoice, which stays pinned.       *)
LEMMA LandsMoves ==
    ASSUME LegsInv, NEW post \in Posts, post.invoice \in DOMAIN invoices,
           Pinned(invoices, disk, post.invoice), Lands(post)
    PROVE  /\ invoices' \in Seq(Invoices) /\ channels' \in Seq(States)
           /\ Len(channels') = Len(channels)
           /\ Later(invoices', invoices)
           /\ \A i \in DOMAIN invoices' :
                /\ invoices'[i].status \in {"paid", "redeemed"} <=> invoices'[i].on # 0
                /\ invoices'[i].on # 0 =>
                     i \in DOMAIN invoices /\ (invoices[i].on # 0 \/ Pinned(invoices, disk, i))
<1> DEFINE n == post.invoice
           new == [[invoices[n] EXCEPT !.status = "paid"] EXCEPT !.on = post.channel]
           s == [index |-> post.index, peer |-> post.peer]
<1>1. /\ invoices \in Seq(Invoices) /\ channels \in Seq(States)
      /\ \A i \in DOMAIN invoices : invoices[i].status \in {"paid", "redeemed"} <=> invoices[i].on # 0
  BY DEF LegsInv, RailTypes, RailInv
<1>2. CASE UNCHANGED lspVars
  BY <1>1, <1>2 DEF lspVars, Later
<1>3. CASE Accepts(post)
  <2>1. /\ channels' = [channels EXCEPT ![post.channel] = s]
        /\ invoices' = [invoices EXCEPT ![n].status = "paid", ![n].on = post.channel]
        /\ invoices[n].status = "pending"
    BY <1>3 DEF Lands, Accepts, Status
  <2>2. invoices' = [invoices EXCEPT ![n] = new]
    BY <1>1, <2>1
  <2>3. invoices[n] \in Invoices /\ n \in DOMAIN invoices
    BY <1>1
  <2>4. s \in States /\ post.channel \in Nat \ {0}
    BY DEF States, Posts
  <2>5. new \in Invoices /\ new.status = "paid" /\ new.for = invoices[n].for /\ new.on # 0
    BY <2>3, <2>4 DEF Invoices
  <2> HIDE DEF new, s
  <2>6. channels' \in Seq(States) /\ Len(channels') = Len(channels)
    <3>1. channels \in [1 .. Len(channels) -> States] /\ Len(channels) \in Nat
      BY <1>1
    <3>2. channels' \in [1 .. Len(channels) -> States]
      BY <2>1, <2>4, <3>1
    <3>3. channels' \in Seq(States)
      BY <3>1, <3>2
    <3> QED
      BY <3>1, <3>2, <3>3
  <2>7. /\ invoices' \in Seq(Invoices) /\ DOMAIN invoices' = DOMAIN invoices
        /\ invoices'[n] = new
        /\ \A i \in DOMAIN invoices : i # n => invoices'[i] = invoices[i]
    BY <1>1, <2>2, <2>3, <2>5
  <2>8. Later(invoices', invoices)
    BY <2>1, <2>5, <2>7 DEF Later
  <2> QED
    BY <1>1, <2>5, <2>6, <2>7, <2>8
<1> QED
  BY <1>2, <1>3 DEF Lands

(* A paid invoice is redeemed once.                                        *)
LEMMA RedeemMoves ==
    ASSUME LegsInv, NEW n, Redeem(n), UNCHANGED <<clientVars, late>>
    PROVE  /\ RailTypes' /\ InvoicesMove
           /\ n \in DOMAIN invoices =>
                n \in DOMAIN invoices' /\ invoices'[n].status = "redeemed"
                /\ invoices'[n].for = invoices[n].for
<1> DEFINE new == [invoices[n] EXCEPT !.status = "redeemed"]
<1>1. /\ RailTypes /\ invoices \in Seq(Invoices)
      /\ \A i \in DOMAIN invoices : invoices[i].status \in {"paid", "redeemed"} <=> invoices[i].on # 0
  BY DEF LegsInv, RailTypes, RailInv
<1>2. invoices[n].status = "paid" /\ invoices' = [invoices EXCEPT ![n] = new] /\ channels' = channels
  BY DEF Redeem, Redeemable, Status
<1>3. CASE n \in DOMAIN invoices
  <2>1. invoices[n] \in Invoices
    BY <1>1, <1>3
  <2>2. /\ new \in Invoices /\ new.status = "redeemed" /\ new.for = invoices[n].for
        /\ new.on = invoices[n].on
    BY <2>1 DEF Invoices
  <2> HIDE DEF new
  <2>3. /\ invoices' \in Seq(Invoices) /\ DOMAIN invoices' = DOMAIN invoices
        /\ invoices'[n] = new
        /\ \A i \in DOMAIN invoices : i # n => invoices'[i] = invoices[i]
    BY <1>1, <1>2, <1>3, <2>2
  <2>4. RailTypes'
    BY <1>1, <1>2, <2>3 DEF RailTypes, clientVars
  <2>5. Later(invoices', invoices)
    BY <1>2, <2>2, <2>3 DEF Later
  <2>6. \A i \in DOMAIN invoices' :
          /\ invoices'[i].status \in {"paid", "redeemed"} <=> invoices'[i].on # 0
          /\ invoices'[i].on # 0 => i \in DOMAIN invoices /\ invoices[i].on # 0
    BY <1>1, <1>2, <1>3, <2>2, <2>3
  <2> QED
    BY <1>3, <2>2, <2>3, <2>4, <2>5, <2>6 DEF InvoicesMove
<1>4. CASE n \notin DOMAIN invoices
  <2>1. invoices' = invoices
    BY <1>1, <1>2, <1>4
  <2> QED
    BY <1>1, <1>2, <1>4, <2>1 DEF RailTypes, clientVars, InvoicesMove, Later
<1> QED
  BY <1>3, <1>4

(* What a chain that is paying, or about to, stands on.                    *)
LEMMA AskStands ==
    ASSUME LegsInv, NEW c \in Chains, NEW l \in {"status", "paying", "redeem"}, At(c, l)
    PROVE  /\ pc[c].at = l /\ pc[c].key = Key(c) /\ Key(c) \in Keys /\ Asks(pc[c], Key(c))
           /\ pc[c].at \notin Waiting
           /\ Invoice(c) = mem.ask[Key(c)].invoice /\ mem.ask[Key(c)].status # "none"
           /\ Invoice(c) # NoInvoice /\ Pinned(invoices, disk, Invoice(c))
           /\ Invoice(c) \in Nat /\ Invoice(c) \in DOMAIN invoices
           /\ invoices[Invoice(c)].for = Key(c)
<1>1. /\ pc[c].at = l /\ pc[c].key = Key(c) /\ Key(c) \in Keys /\ Asks(pc[c], Key(c))
      /\ pc[c].at \notin Waiting
  BY AtKey DEF Asking, Waiting
<1>2. Invoice(c) = mem.ask[Key(c)].invoice
  BY DEF Invoice, Ask
<1>3. /\ mem.ask[Key(c)].status # "none"
      /\ mem.ask[Key(c)].invoice # NoInvoice /\ Pinned(invoices, disk, mem.ask[Key(c)].invoice)
  BY <1>1, Standing DEF Begun, Stands, Asking
<1>4. /\ mem.ask[Key(c)].invoice \in DOMAIN invoices
      /\ invoices[mem.ask[Key(c)].invoice].for = Key(c)
  BY <1>1, <1>3, AskTypes DEF Ask
<1>5. mem.ask[Key(c)].invoice \in Nat
  <2>1. mem \in Versions
    BY DEF LegsInv, StoreTypes
  <2> QED
    BY <1>1, <2>1, VersionTypes
<1> QED
  BY <1>1, <1>2, <1>3, <1>4, <1>5

(* It goes on to redeem what it stands on.                                 *)
LEMMA RedeemsNext ==
    ASSUME LegsInv, NEW c \in Chains, NEW l \in {"status", "paying"}, At(c, l), Goes(c, "redeem"),
           NEW w, w = [at |-> "redeem", key |-> Key(c)]
    PROVE  /\ PlaceMoves(c, w) /\ w.at = "redeem" /\ w.key = Key(c) /\ w.at \notin Waiting
           /\ Begun(w, mem) /\ Stands(w, mem, disk, treasury, tardy, invoices)
<1>1. /\ Key(c) \in Keys /\ Asks(pc[c], Key(c))
      /\ Invoice(c) = mem.ask[Key(c)].invoice /\ mem.ask[Key(c)].status # "none"
      /\ Invoice(c) # NoInvoice /\ Pinned(invoices, disk, Invoice(c))
  BY AskStands
<1>2. PlaceMoves(c, w) /\ w.at = "redeem" /\ w.key = Key(c)
  BY <1>1, TakesPlace DEF Goes, Working, Sending
<1>3. Begun(w, mem) /\ w.at \notin Waiting
  BY <1>1, <1>2 DEF Begun, Waiting, Sending, Asking, Attesting
<1>4. Stands(w, mem, disk, treasury, tardy, invoices)
  BY <1>1, <1>2 DEF Stands
<1> QED
  BY <1>2, <1>3, <1>4

(* A step that leaves the file and the records alone, and goes on.         *)
LEMMA RailStepKeeps ==
    ASSUME LegsInv, NEW c \in Chains, NEW w, PlaceMoves(c, w), UNCHANGED storeVars,
           pc[c].at \notin Waiting, w.at \notin Waiting, WorldRests, Rails(c, w),
           Begun(w, mem), Stands(w, mem, disk, treasury, tardy, invoices)
    PROVE  LegsInv'
<1>1. mem' = mem /\ disk' = disk
  BY DEF storeVars
<1>2. StoreMoves(c, w) /\ Pays(c)
  BY PaysRest DEF StoreMoves
<1>3. Edits(c, w)
  BY <1>1, <1>2, EditsRest DEF Rails, InvoicesMove, Pays
<1>4. w \in Places /\ Begun(w, mem')
  BY <1>1 DEF PlaceMoves
<1>5. After(invoices', disk', disk)
  BY <1>1, KeepsOrder
<1>6. ASSUME w.at \in {"status", "paying", "redeem"}, Pinned(invoices, disk, mem.ask[w.key].invoice)
      PROVE  Pinned(invoices', disk', mem.ask[w.key].invoice)
  <2>1. w.key \in Keys
    BY <1>4, <1>6, PlaceTypes
  <2>2. mem.ask[w.key].invoice # NoInvoice
    BY <1>6 DEF Stands
  <2>3. mem.ask[w.key].invoice \in DOMAIN invoices
    BY <2>1, <2>2, AskTypes DEF Ask
  <2>4. invoices \in Seq(Invoices) /\ Later(invoices', invoices)
    BY DEF LegsInv, RailTypes, Rails, InvoicesMove
  <2> QED
    BY <1>5, <1>6, <2>3, <2>4, PinnedKeeps
<1>7. treasury' = treasury /\ tardy' = tardy
  BY DEF WorldRests
<1>8. Stands(w, mem, disk', treasury, tardy, invoices')
  <2>1. \A k : disk.convert[k].sent # 0 => disk'.convert[k].sent # 0
    BY <1>1
  <2> QED
    BY <1>4, <1>6, <2>1, StandsKeeps
<1>9. Fresh(w)
  BY <1>1, <1>4, <1>7, <1>8 DEF Fresh
<1> QED
  BY <1>2, <1>3, <1>9, StepKeeps

(* What a call of payInvoice changes, apart from what lands.               *)
LEMMA CallMoves ==
    ASSUME LegsInv, NEW c \in Chains, NEW x \in {Calm} \cup Begins \cup Readings \cup Postings,
           Calling(c, x)
    PROVE  /\ call' \in [Chains -> {Calm} \cup Begins \cup Readings \cup Postings]
           /\ call'[c] = x /\ \A d \in Chains : d # c => call'[d] = call[d]
<1>1. call \in [Chains -> {Calm} \cup Begins \cup Readings \cup Postings]
  BY DEF LegsInv, RailTypes
<1> QED
  BY <1>1 DEF Calling

(* The kinds of call.                                                      *)
LEMMA CallTypes ==
    ASSUME LegsInv, NEW c \in Chains
    PROVE  /\ call[c] \in {Calm} \cup Begins \cup Readings \cup Postings
           /\ call[c].at \in {"loading", "faucet", "plain"} => call[c] \in Begins
           /\ call[c].at = "reading" => call[c] \in Readings /\ call[c].channel <= Len(channels)
           /\ call[c].at = "posting" => call[c] \in Postings /\ call[c].post \in Posts
           /\ Calm \in {Calm} \cup Begins \cup Readings \cup Postings
           /\ Calm.at \notin {"loading", "faucet", "plain", "reading", "posting"}
<1>1. /\ call[c] \in {Calm} \cup Begins \cup Readings \cup Postings
      /\ call[c].at = "reading" => call[c].channel <= Len(channels)
  BY DEF LegsInv, RailTypes
<1>2. \A x \in Begins : x.at \in {"loading", "faucet", "plain"}
  BY DEF Begins
<1>3. \A x \in Readings : x.at = "reading"
  BY DEF Readings
<1>4. \A x \in Postings : x.at = "posting" /\ x.post \in Posts
  BY DEF Postings
<1>5. Calm.at = "calm"
  BY DEF Calm
<1>6. \/ call[c].at = "calm"
      \/ call[c].at \in {"loading", "faucet", "plain"} /\ call[c] \in Begins
      \/ call[c].at = "reading" /\ call[c] \in Readings
      \/ call[c].at = "posting" /\ call[c] \in Postings
  BY <1>1, <1>2, <1>3, <1>4, <1>5
<1> QED
  BY <1>1, <1>4, <1>5, <1>6

(* The rail when the provider's invoices rest: channels are only opened.   *)
LEMMA RailsCall ==
    ASSUME LegsInv, NEW c \in Chains, NEW x \in {Calm} \cup Begins \cup Readings \cup Postings,
           Calling(c, x), UNCHANGED <<invoices, late>>,
           channels' \in Seq(States), Len(channels) <= Len(channels'),
           cached' \in 0 .. Len(channels'), saved' \in 0 .. Len(channels'),
           x.at = "reading" => x.channel <= Len(channels'),
           NEW w, x # Calm => w.at = "paying" /\ Tries(x) = mem'.ask[w.key].invoice
    PROVE  Rails(c, w)
<1>1. /\ call' \in [Chains -> {Calm} \cup Begins \cup Readings \cup Postings]
      /\ call'[c] = x /\ \A d \in Chains : d # c => call'[d] = call[d]
  BY CallMoves
<1>2. ASSUME NEW d \in Chains, call'[d].at = "reading"
      PROVE  call'[d].channel <= Len(channels')
  <2>1. CASE d = c
    BY <1>1, <1>2, <2>1
  <2>2. CASE d # c
    <3>1. call[d] \in Readings /\ call[d].channel <= Len(channels) /\ call'[d] = call[d]
      BY <1>1, <1>2, <2>2, CallTypes
    <3>2. call[d].channel \in Nat
      BY <3>1 DEF Readings
    <3>3. Len(channels) \in Nat /\ Len(channels') \in Nat
      BY DEF LegsInv, RailTypes
    <3> QED
      BY <3>1, <3>2, <3>3
  <2> QED
    BY <2>1, <2>2
<1>3. RailTypes'
  <2>1. invoices' \in Seq(Invoices) /\ late' \subseteq Posts
    BY DEF LegsInv, RailTypes
  <2> QED
    BY <1>1, <1>2, <2>1 DEF RailTypes
<1>4. InvoicesMove
  BY DEF InvoicesMove, Later, LegsInv, RailInv
<1> QED
  BY <1>1, <1>3, <1>4 DEF Rails

LEMMA StatusReadStep ==
    ASSUME LegsInv, NEW c \in Chains, StatusRead(c)
    PROVE  LegsInv'
<1> DEFINE k == Key(c)
           i == Invoice(c)
<1>1. /\ At(c, "status") /\ pc[c].at = "status" /\ pc[c].key = k /\ k \in Keys /\ Asks(pc[c], k)
      /\ pc[c].at \notin Waiting /\ pc[c].at # "paying"
      /\ i = mem.ask[k].invoice /\ mem.ask[k].status # "none"
      /\ i # NoInvoice /\ Pinned(invoices, disk, i)
      /\ i \in Nat /\ i \in DOMAIN invoices /\ invoices[i].for = k
  BY AskStands DEF StatusRead
<1>2. WorldRests
  BY Rests DEF StatusRead
<1> HIDE DEF i
<1>3. ASSUME Status(i) = "expired", Put(c, Dropped(c)), Goes(c, "dropped"), UNCHANGED railVars
      PROVE  LegsInv'
  <2> DEFINE r == [Ask(k) EXCEPT !.invoice = NoInvoice]
             w == [at |-> "dropped", key |-> k]
  <2>1. Put(c, mem') /\ mem' = WithAsk(k, r) /\ Takes(c, "dropped", k)
    BY <1>3 DEF Goes, Put, Dropped
  <2>2. PlaceMoves(c, w) /\ w.at = "dropped" /\ w.key = k
    BY <1>1, <2>1, TakesPlace DEF Working, Sending
  <2>3. /\ Ask(k) \in [status : {"none", "asking", "answered"}, invoice : Nat]
        /\ Ask(k).status = "asking" /\ Ask(k).invoice = i
    BY <1>1, <1>3, AskTypes DEF Ask
  <2>4. /\ r \in [status : {"asking", "answered"}, invoice : Nat]
        /\ r.status = "asking" /\ r.invoice = NoInvoice
    BY <2>3 DEF NoInvoice
  <2> HIDE DEF r, w, k
  <2>5. RailRests
    BY <1>3, Rests
  <2>6. ~Live(invoices', Ask(k).invoice)
    BY <1>3, <2>3, <2>5 DEF Live, Status, RailRests
  <2>7. Later(invoices', invoices) /\ UNCHANGED payouts
    BY <1>2, <2>5 DEF RailRests, WorldRests, Later
  <2>8. Edits(c, w)
    BY <1>1, <2>1, <2>3, <2>4, <2>6, <2>7, AskEdits
  <2>9. mem'.ask[k] = r
    BY <1>1, <2>1, <2>4, AskPut
  <2>10. Begun(w, mem') /\ Holds(w, mem', mem') /\ w.at \in Waiting /\ w.at # "pinned"
    BY <2>2, <2>4, <2>9 DEF Begun, Holds, Waiting, Sending, Asking, Attesting
  <2> QED
    BY <1>1, <1>2, <2>1, <2>2, <2>5, <2>8, <2>10, PutStep
<1>4. ASSUME PayBegins(c, i), Goes(c, "paying"), UNCHANGED <<storeVars, invoices, faults>>
      PROVE  LegsInv'
  <2> DEFINE x == IF cached = 0 THEN [at |-> "loading", invoice |-> i]
                  ELSE [at |-> "reading", invoice |-> i, channel |-> cached]
             w == [at |-> "paying", key |-> k]
  <2>1. /\ Calling(c, x) /\ UNCHANGED <<channels, cached, saved, late, invoices>>
        /\ UNCHANGED storeVars
    BY <1>4 DEF PayBegins
  <2>2. channels \in Seq(States) /\ cached \in 0 .. Len(channels) /\ saved \in 0 .. Len(channels)
    BY DEF LegsInv, RailTypes
  <2>3. /\ x \in {Calm} \cup Begins \cup Readings \cup Postings /\ Tries(x) = i
        /\ x.at = "reading" => x.channel <= Len(channels)
    <3>1. CASE cached = 0
      <4>1. x = [at |-> "loading", invoice |-> i]
        BY <3>1
      <4> QED
        BY <1>1, <4>1 DEF Begins, Tries
    <3>2. CASE cached # 0
      <4>1. x = [at |-> "reading", invoice |-> i, channel |-> cached]
        BY <3>2
      <4>2. cached \in Nat \ {0} /\ cached <= Len(channels)
        BY <2>2, <3>2
      <4> QED
        BY <1>1, <4>1, <4>2 DEF Readings, Tries
    <3> QED
      BY <3>1, <3>2
  <2>4. PlaceMoves(c, w) /\ w.at = "paying" /\ w.key = k
    BY <1>1, <1>4, TakesPlace DEF Goes, Working, Sending
  <2> HIDE DEF x, w
  <2>5. mem' = mem
    BY <2>1 DEF storeVars
  <2>6. Len(channels) <= Len(channels)
    BY <2>2
  <2>7. Rails(c, w)
    <3>1. channels' \in Seq(States) /\ Len(channels) <= Len(channels')
      BY <2>1, <2>2, <2>6
    <3>2. cached' \in 0 .. Len(channels') /\ saved' \in 0 .. Len(channels')
      BY <2>1, <2>2
    <3>3. x.at = "reading" => x.channel <= Len(channels')
      BY <2>1, <2>3
    <3>4. Tries(x) = mem'.ask[w.key].invoice
      BY <1>1, <2>3, <2>4, <2>5
    <3> QED
      BY <2>1, <2>3, <2>4, <3>1, <3>2, <3>3, <3>4, RailsCall
  <2>8. Begun(w, mem) /\ w.at \notin Waiting
    BY <1>1, <2>4 DEF Begun, Waiting, Sending, Asking, Attesting
  <2>9. Stands(w, mem, disk, treasury, tardy, invoices)
    BY <1>1, <2>4 DEF Stands
  <2> QED
    BY <1>1, <1>2, <2>1, <2>4, <2>7, <2>8, <2>9, RailStepKeeps
<1>5. ASSUME Goes(c, "redeem"), UNCHANGED <<railVars, storeVars>>
      PROVE  LegsInv'
  <2> DEFINE w == [at |-> "redeem", key |-> k]
  <2>1. /\ PlaceMoves(c, w) /\ w.at \notin Waiting
        /\ Begun(w, mem) /\ Stands(w, mem, disk, treasury, tardy, invoices)
    BY <1>1, <1>5, RedeemsNext
  <2> HIDE DEF w
  <2>2. RailRests /\ UNCHANGED storeVars /\ disk' = disk
    BY <1>5, Rests DEF storeVars
  <2> QED
    BY <1>1, <1>2, <2>1, <2>2, RailsRest, RailStepKeeps
<1> QED
  BY <1>3, <1>4, <1>5 DEF StatusRead, i

(* What is posted is for the invoice the chain stands on.                  *)
LEMMA PostIsPinned ==
    ASSUME LegsInv, NEW c \in Chains, Posted(c)
    PROVE  /\ call[c].post \in Posts /\ call[c].post.invoice \in DOMAIN invoices
           /\ Pinned(invoices, disk, call[c].post.invoice)
           /\ pc[c].at = "paying"
<1>1. call[c].post \in Posts /\ call[c].at = "posting" /\ call[c] # Calm
  BY CallTypes DEF Posted
<1>2. pc[c].at = "paying" /\ call[c].post.invoice = Ask(pc[c].key).invoice
  BY <1>1 DEF LegsInv, RailInv, Tries
<1>3. /\ Invoice(c) \in DOMAIN invoices /\ Pinned(invoices, disk, Invoice(c))
      /\ Invoice(c) = mem.ask[Key(c)].invoice
  BY <1>2, AskStands DEF At
<1> QED
  BY <1>1, <1>2, <1>3 DEF Ask, Key

LEMMA PostsRails ==
    ASSUME LegsInv, NEW c \in Chains, Posted(c), Lands(call[c].post) \/ UNCHANGED lspVars,
           Calling(c, Calm), UNCHANGED <<cached, saved>>,
           late' = late \/ late' = late \cup {call[c].post}, NEW w
    PROVE  Rails(c, w)
<1> DEFINE post == call[c].post
<1>1. post \in Posts /\ post.invoice \in DOMAIN invoices /\ Pinned(invoices, disk, post.invoice)
  BY PostIsPinned
<1>2. /\ call' \in [Chains -> {Calm} \cup Begins \cup Readings \cup Postings]
      /\ call'[c] = Calm /\ \A d \in Chains : d # c => call'[d] = call[d]
      /\ Calm.at # "reading"
  BY CallMoves, CallTypes
<1>3. RailTypes
  BY DEF LegsInv
<1> HIDE DEF post
<1>4. /\ invoices' \in Seq(Invoices) /\ channels' \in Seq(States)
      /\ Len(channels') = Len(channels)
      /\ Later(invoices', invoices)
      /\ \A i \in DOMAIN invoices' :
           /\ invoices'[i].status \in {"paid", "redeemed"} <=> invoices'[i].on # 0
           /\ invoices'[i].on # 0 =>
                i \in DOMAIN invoices /\ (invoices[i].on # 0 \/ Pinned(invoices, disk, i))
  <2>1. CASE Lands(post)
    BY <1>1, <2>1, LandsMoves
  <2>2. CASE UNCHANGED lspVars
    BY <1>3, <2>2 DEF lspVars, Later, RailTypes, LegsInv, RailInv
  <2> QED
    BY <2>1, <2>2 DEF post
<1>5. late' \subseteq Posts
  BY <1>1, <1>3 DEF RailTypes, post
<1>6. RailTypes'
  <2>1. cached' \in 0 .. Len(channels') /\ saved' \in 0 .. Len(channels')
    BY <1>3, <1>4 DEF RailTypes
  <2>2. ASSUME NEW d \in Chains, call'[d].at = "reading" PROVE call'[d].channel <= Len(channels')
    BY <1>2, <1>3, <1>4, <2>2 DEF RailTypes
  <2> QED
    BY <1>2, <1>4, <1>5, <2>1, <2>2 DEF RailTypes
<1>7. \A p \in late' :
        p \in late \/ (p.invoice \in DOMAIN invoices /\ Pinned(invoices, disk, p.invoice))
  BY <1>1 DEF post
<1>8. InvoicesMove
  BY <1>4, <1>7 DEF InvoicesMove
<1> QED
  BY <1>2, <1>6, <1>8 DEF Rails

LEMMA AskPaidStep ==
    ASSUME LegsInv, NEW c \in Chains, AskPaid(c)
    PROVE  LegsInv'
<1> DEFINE w == [at |-> "redeem", key |-> Key(c)]
<1>1. /\ At(c, "paying") /\ pc[c].at = "paying" /\ pc[c].at \notin Waiting
      /\ UNCHANGED storeVars /\ WorldRests
  BY Rests DEF AskPaid, At, Waiting
<1>2. \A v : Rails(c, v)
  <2>1. CASE FoundPaid(c)
    <3>1. /\ Calling(c, Calm) /\ UNCHANGED <<invoices, late>>
          /\ UNCHANGED <<channels, cached, saved>>
      BY <2>1 DEF FoundPaid, lspVars
    <3>2. /\ channels \in Seq(States) /\ cached \in 0 .. Len(channels)
          /\ saved \in 0 .. Len(channels) /\ Len(channels) <= Len(channels)
      BY DEF LegsInv, RailTypes
    <3>3. Calm \in {Calm} \cup Begins \cup Readings \cup Postings /\ Calm.at # "reading"
      BY CallTypes
    <3>4. channels' \in Seq(States) /\ Len(channels) <= Len(channels')
          /\ cached' \in 0 .. Len(channels') /\ saved' \in 0 .. Len(channels')
      BY <3>1, <3>2
    <3> QED
      BY <3>1, <3>3, <3>4, RailsCall
  <2>2. CASE PostAnswered(c)
    BY <2>2, PostsRails DEF PostAnswered
  <2> QED
    BY <2>1, <2>2 DEF AskPaid
<1>3. CASE Goes(c, "redeem")
  <2>1. /\ PlaceMoves(c, w) /\ w.at \notin Waiting
        /\ Begun(w, mem) /\ Stands(w, mem, disk, treasury, tardy, invoices)
    BY <1>1, <1>3, RedeemsNext
  <2> HIDE DEF w
  <2> QED
    BY <1>1, <1>2, <2>1, RailStepKeeps
<1>4. CASE Ends(c)
  BY <1>1, <1>2, <1>4, PaysRest, EndsWith
<1> QED
  BY <1>3, <1>4 DEF AskPaid

LEMMA AskPayThrowsStep ==
    ASSUME LegsInv, NEW c \in Chains, AskPayThrows(c)
    PROVE  LegsInv'
<1>1. /\ At(c, "paying") /\ pc[c].at = "paying" /\ pc[c].at \notin Waiting
      /\ UNCHANGED storeVars /\ WorldRests /\ Ends(c)
  BY Rests DEF AskPayThrows, At, Waiting
<1>2. Rails(c, Idle)
  <2>1. CASE PayThrows(c)
    <3>1. /\ Calling(c, Calm) /\ UNCHANGED <<invoices, late>> /\ UNCHANGED <<cached, saved>>
          /\ OpenChannel \/ UNCHANGED channels
      BY <2>1 DEF PayThrows
    <3>2. /\ channels \in Seq(States) /\ cached \in 0 .. Len(channels)
          /\ saved \in 0 .. Len(channels) /\ Len(channels) \in Nat
      BY DEF LegsInv, RailTypes
    <3>3. Calm \in {Calm} \cup Begins \cup Readings \cup Postings /\ Calm.at # "reading"
      BY CallTypes
    <3>4. channels' \in Seq(States) /\ Len(channels) <= Len(channels')
      <4>1. CASE OpenChannel
        BY <3>2, <4>1 DEF OpenChannel, States
      <4>2. CASE UNCHANGED channels
        BY <3>2, <4>2
      <4> QED
        BY <3>1, <4>1, <4>2
    <3>5. cached' \in 0 .. Len(channels') /\ saved' \in 0 .. Len(channels')
      BY <3>1, <3>2, <3>4
    <3> QED
      BY <3>1, <3>3, <3>4, <3>5, RailsCall
  <2>2. CASE PostThrows(c)
    <3>1. /\ Posted(c) /\ Calling(c, Calm) /\ UNCHANGED <<cached, saved>>
          /\ \/ Lands(call[c].post) /\ late' = late
             \/ UNCHANGED lspVars /\ late' = late
             \/ UNCHANGED lspVars /\ late' = late \cup {call[c].post}
      BY <2>2 DEF PostThrows
    <3> QED
      BY <3>1, PostsRails
  <2> QED
    BY <2>1, <2>2 DEF AskPayThrows
<1> QED
  BY <1>1, <1>2, PaysRest, EndsWith

LEMMA AskAnsweredStep ==
    ASSUME LegsInv, NEW c \in Chains, AskAnswered(c)
    PROVE  LegsInv'
<1> DEFINE k == Key(c)
           i == Invoice(c)
           r == [Ask(k) EXCEPT !.status = "answered"]
           w == [at |-> "answered", key |-> k]
<1>1. /\ pc[c].at = "redeem" /\ pc[c].key = k /\ k \in Keys /\ Asks(pc[c], k)
      /\ pc[c].at \notin Waiting /\ pc[c].at # "paying"
      /\ i = mem.ask[k].invoice /\ mem.ask[k].status # "none"
      /\ i # NoInvoice /\ i \in DOMAIN invoices /\ invoices[i].for = k
  BY AskStands DEF AskAnswered
<1>2. WorldRests
  BY Rests DEF AskAnswered
<1>3. /\ Redeem(i) /\ UNCHANGED <<clientVars, late>>
      /\ Put(c, mem') /\ mem' = WithAsk(k, r) /\ Takes(c, "answered", k)
  BY DEF AskAnswered, Goes, Put
<1>4. PlaceMoves(c, w) /\ w.at = "answered" /\ w.key = k
  BY <1>1, <1>3, TakesPlace DEF Working, Sending
<1> HIDE DEF i
<1>5. /\ RailTypes' /\ InvoicesMove
      /\ i \in DOMAIN invoices' /\ invoices'[i].status = "redeemed" /\ invoices'[i].for = k
  BY <1>1, <1>3, RedeemMoves
<1>6. /\ Ask(k) \in [status : {"none", "asking", "answered"}, invoice : Nat]
      /\ Ask(k).invoice = i
  BY <1>1, AskTypes DEF Ask
<1>7. /\ r \in [status : {"asking", "answered"}, invoice : Nat]
      /\ r.status = "answered" /\ r.invoice = i
  BY <1>6
<1> HIDE DEF r, w, k
<1>8. Later(invoices', invoices) /\ UNCHANGED payouts
  BY <1>2, <1>5 DEF InvoicesMove, WorldRests
<1>9. Edits(c, w)
  BY <1>1, <1>3, <1>5, <1>6, <1>7, <1>8, AskEdits
<1>10. mem'.ask[k] = r
  BY <1>1, <1>3, <1>7, AskPut
<1>11. Begun(w, mem')
  BY <1>4, <1>7, <1>10 DEF Begun, Sending, Asking, Attesting
<1>12. Fresh(w) /\ Holds(w, mem', mem')
  BY <1>4, <1>11 DEF Fresh, Stands, Holds
<1>13. StoreMoves(c, w)
  BY <1>1, <1>3, <1>4, <1>12 DEF StoreMoves, Waiting
<1>14. call' = call /\ call[c] = Calm
  BY <1>1, <1>3 DEF clientVars, LegsInv, RailInv
<1>15. Rails(c, w)
  BY <1>5, <1>14 DEF Rails
<1> QED
  BY <1>2, <1>4, <1>9, <1>12, <1>13, <1>15, PaysRest, StepKeeps

LEMMA RedeemThrowsStep ==
    ASSUME LegsInv, NEW c \in Chains, RedeemThrows(c)
    PROVE  LegsInv'
<1>1. /\ pc[c].at = "redeem" /\ pc[c].at \notin Waiting /\ pc[c].at # "paying"
      /\ UNCHANGED storeVars /\ WorldRests /\ Ends(c) /\ UNCHANGED <<clientVars, late>>
  BY Rests DEF RedeemThrows, At, Waiting
<1>2. Rails(c, Idle)
  <2>1. CASE UNCHANGED lspVars
    BY <1>1, <2>1, Rests, RailsRest
  <2>2. CASE Redeem(Invoice(c))
    <3>1. RailTypes' /\ InvoicesMove
      BY <1>1, <2>2, RedeemMoves
    <3>2. call' = call /\ call[c] = Calm
      BY <1>1 DEF clientVars, LegsInv, RailInv
    <3> QED
      BY <3>1, <3>2 DEF Rails
  <2> QED
    BY <2>1, <2>2 DEF RedeemThrows
<1> QED
  BY <1>1, <1>2, PaysRest, EndsWith

(* The steps of payInvoice, between which others run.                      *)
LEMMA RailStepStep ==
    ASSUME LegsInv, NEW c \in Chains, RailStep(c), UNCHANGED <<storeVars, pc, aged, worldVars>>
    PROVE  LegsInv'
<1> DEFINE w == pc[c]
           i == call[c].invoice
           Calls == {Calm} \cup Begins \cup Readings \cup Postings
<1>1. call[c].at \in {"loading", "faucet", "plain", "reading"}
  BY DEF RailStep, ChannelLoads, FaucetFails, ChannelOpens, ViewIsRead, Reads
<1>2. /\ call[c] # Calm /\ call[c] \in Begins \cup Readings /\ Tries(call[c]) = i /\ i \in Nat
      /\ call[c].at # "reading" => call[c] \in Begins
      /\ call[c].at = "reading" => call[c].channel \in 1 .. Len(channels)
  <2>1. call[c] \in Begins \/ (call[c] \in Readings /\ call[c].channel <= Len(channels))
    BY <1>1, CallTypes
  <2>2. Len(channels) \in Nat
    BY DEF LegsInv, RailTypes
  <2> QED
    BY <1>1, <2>1, <2>2, CallTypes DEF Begins, Readings, Tries
<1>3. w.at = "paying" /\ i = mem.ask[w.key].invoice
  BY <1>2 DEF LegsInv, RailInv, Ask
<1>4. /\ w.at \notin Waiting /\ PlaceMoves(c, w)
      /\ Begun(w, mem) /\ Stands(w, mem, disk, treasury, tardy, invoices)
      /\ WorldRests /\ mem' = mem /\ UNCHANGED storeVars
  <2>1. w \in Places /\ pc' \in [Chains -> Places] /\ pc' = pc
    BY DEF LegsInv, WorldTypes
  <2> QED
    BY <1>3, <2>1, Standing DEF Waiting, PlaceMoves, OthersStay, WorldRests, worldVars, storeVars
<1>5. /\ channels \in Seq(States) /\ Len(channels) \in Nat
      /\ cached \in 0 .. Len(channels) /\ saved \in 0 .. Len(channels)
  BY DEF LegsInv, RailTypes
<1> HIDE DEF w, i
<1>6. ASSUME NEW x \in Calls, Calling(c, x), UNCHANGED <<invoices, late>>,
             OpenChannel \/ UNCHANGED channels,
             cached' \in 0 .. Len(channels'), saved' \in 0 .. Len(channels'),
             x.at = "reading" => x.channel <= Len(channels'), Tries(x) = i
      PROVE  LegsInv'
  <2>1. channels' \in Seq(States) /\ Len(channels) <= Len(channels')
    <3>1. CASE OpenChannel
      BY <1>5, <3>1 DEF OpenChannel, States
    <3>2. CASE UNCHANGED channels
      BY <1>5, <3>2
    <3> QED
      BY <1>6, <3>1, <3>2
  <2>2. Rails(c, w)
    BY <1>3, <1>4, <1>6, <2>1, RailsCall
  <2> QED
    BY <1>4, <2>2, RailStepKeeps DEF w
<1>7. CASE ChannelLoads(c)
  <2>1. CASE saved # 0 /\ Reading(c, saved) /\ cached' = saved
    <3> DEFINE x == [at |-> "reading", invoice |-> i, channel |-> saved]
    <3>1. x \in Calls /\ x.at = "reading" /\ x.channel = saved /\ Tries(x) = i
      BY <1>2, <1>5, <2>1 DEF Readings, Tries
    <3>2. Calling(c, x) /\ UNCHANGED <<invoices, channels, late, saved>>
      BY <1>7, <2>1 DEF Reading, ChannelLoads, lspVars, i
    <3> HIDE DEF x
    <3> QED
      BY <1>5, <1>6, <2>1, <3>1, <3>2
  <2>2. CASE Calling(c, [call[c] EXCEPT !.at = "faucet"]) /\ UNCHANGED cached
    <3> DEFINE x == [call[c] EXCEPT !.at = "faucet"]
    <3>1. x \in Calls /\ x.at = "faucet" /\ Tries(x) = i
      <4>1. call[c] \in Begins
        BY <1>2, <1>7 DEF ChannelLoads
      <4> QED
        BY <4>1 DEF Begins, Tries, i
    <3>2. Calling(c, x) /\ UNCHANGED <<invoices, channels, late, saved>>
      BY <1>7, <2>2 DEF ChannelLoads, lspVars
    <3> HIDE DEF x
    <3> QED
      BY <1>5, <1>6, <2>2, <3>1, <3>2
  <2> QED
    BY <1>7, <2>1, <2>2 DEF ChannelLoads
<1>8. CASE FaucetFails(c)
  <2> DEFINE x == [call[c] EXCEPT !.at = "plain"]
  <2>1. x \in Calls /\ x.at = "plain" /\ Tries(x) = i
    <3>1. call[c] \in Begins
      BY <1>2, <1>8 DEF FaucetFails
    <3> QED
      BY <3>1 DEF Begins, Tries, i
  <2>2. /\ Calling(c, x) /\ UNCHANGED <<invoices, late, cached, saved>>
        /\ OpenChannel \/ UNCHANGED channels
    BY <1>8 DEF FaucetFails
  <2> HIDE DEF x
  <2>3. cached' \in 0 .. Len(channels') /\ saved' \in 0 .. Len(channels')
    <3>1. CASE OpenChannel
      <4>1. Len(channels') = Len(channels) + 1
        BY <1>5, <3>1 DEF OpenChannel
      <4> QED
        BY <1>5, <2>2, <4>1
    <3>2. CASE UNCHANGED channels
      BY <1>5, <2>2, <3>2
    <3> QED
      BY <2>2, <3>1, <3>2
  <2> QED
    BY <1>6, <2>1, <2>2, <2>3
<1>9. CASE ChannelOpens(c)
  <2> DEFINE n == Len(channels) + 1
             x == [at |-> "reading", invoice |-> i, channel |-> n]
  <2>1. x \in Calls /\ x.channel = n /\ Tries(x) = i
    BY <1>2, <1>5 DEF Readings, Tries
  <2>2. /\ Calling(c, x) /\ UNCHANGED <<invoices, late>> /\ OpenChannel
        /\ cached' = n /\ saved' = n
    BY <1>9 DEF ChannelOpens, Reading, i
  <2>3. Len(channels') = n /\ n \in Nat
    BY <1>5, <2>2 DEF OpenChannel
  <2> HIDE DEF n, x
  <2> QED
    BY <1>6, <2>1, <2>2, <2>3
<1>10. CASE ViewIsRead(c)
  <2> DEFINE d == call[c].channel
             x == [at |-> "posting", post |-> Post(i, invoices[i].price, d, View(d))]
  <2>1. Calling(c, x) /\ UNCHANGED <<invoices, channels, cached, saved, late>>
    BY <1>10 DEF ViewIsRead, Posting, lspVars, i
  <2>2. i # NoInvoice /\ d \in 1 .. Len(channels)
    BY <1>2, <1>10 DEF ViewIsRead, Reads, i
  <2>3. i \in DOMAIN invoices
    <3>1. w.key \in Keys
      BY <1>3, PlaceTypes DEF LegsInv, WorldTypes, w, Idle
    <3> QED
      BY <1>3, <2>2, <3>1, AskTypes DEF Ask
  <2>4. invoices[i].price \in Nat
    <3>1. invoices \in Seq(Invoices)
      BY DEF LegsInv, RailTypes
    <3>2. invoices[i] \in Invoices
      BY <2>3, <3>1
    <3> QED
      BY <3>2 DEF Invoices
  <2>5. channels[d] \in States
    BY <1>5, <2>2
  <2>6. Post(i, invoices[i].price, d, View(d)) \in Posts
    <3>1. channels[d].index + 1 \in Nat /\ channels[d].peer + invoices[i].price \in Nat
      BY <2>4, <2>5 DEF States
    <3>2. d \in Nat \ {0}
      BY <1>5, <2>2
    <3> QED
      BY <1>2, <3>1, <3>2 DEF Post, View, Posts
  <2>7. x \in Calls /\ x.at = "posting" /\ Tries(x) = i
    BY <2>6 DEF Postings, Tries, Post
  <2> HIDE DEF x
  <2> QED
    BY <1>5, <1>6, <2>1, <2>7
<1> QED
  BY <1>7, <1>8, <1>9, <1>10 DEF RailStep

-----------------------------------------------------------------------------
(* The world's own steps, and the crash.                                   *)

LEMMA EnvKeeps ==
    ASSUME LegsInv, InvoicesMove, RailTypes',
           UNCHANGED <<storeVars, pc, treasury, tardy, payouts, call>>
    PROVE  LegsInv'
<1>1. /\ mem' = mem /\ disk' = disk /\ saveChain' = saveChain /\ pc' = pc /\ call' = call
      /\ treasury' = treasury /\ tardy' = tardy /\ payouts' = payouts
      /\ Later(invoices', invoices) /\ invoices \in Seq(Invoices)
  BY DEF storeVars, InvoicesMove, LegsInv, RailTypes
<1>2. After(invoices', disk', disk)
  BY <1>1, KeepsOrder
<1>3. ASSUME NEW i \in DOMAIN invoices, Pinned(invoices, disk, i)
      PROVE  Pinned(invoices', disk', i)
  BY <1>1, <1>2, <1>3, PinnedKeeps
<1>4. StoreTypes' /\ WorldTypes' /\ FlightInv' /\ MoneyInv' /\ WriteInv'
  <2>1. StoreTypes' /\ WorldTypes' /\ MoneyInv'
    BY <1>1 DEF LegsInv, StoreTypes, WorldTypes, MoneyInv
  <2>2. FlightInv'
    BY <1>1 DEF LegsInv, FlightInv
  <2>3. WriteInv'
    BY <1>1 DEF LegsInv, WriteInv
  <2> QED
    BY <2>1, <2>2, <2>3
<1>5. VersionInv'
  <2>1. Ordered(mem, disk, saveChain, payouts, invoices)
    BY DEF LegsInv, VersionInv
  <2>2. Ordered(mem, disk, saveChain, payouts, invoices')
    BY <1>1, <2>1, OrderedLater
  <2> QED
    BY <1>1, <2>2 DEF VersionInv
<1>6. \A k \in Keys : Ask(k).invoice # NoInvoice /\ Pinned(invoices, disk, Ask(k).invoice)
                        => Pinned(invoices', disk', Ask(k).invoice)
  BY <1>3, AskTypes
<1>7. PlaceInv'
  <2> SUFFICES ASSUME NEW c \in Chains
               PROVE  Begun(pc[c], mem) /\ Stands(pc[c], mem, disk, treasury, tardy, invoices')
    BY <1>1 DEF PlaceInv
  <2>1. /\ Begun(pc[c], mem) /\ Stands(pc[c], mem, disk, treasury, tardy, invoices)
        /\ pc[c] \in Places
    BY Standing DEF LegsInv, WorldTypes
  <2>2. ASSUME pc[c].at \in {"status", "paying", "redeem"},
               Pinned(invoices, disk, mem.ask[pc[c].key].invoice)
        PROVE  Pinned(invoices', disk, mem.ask[pc[c].key].invoice)
    <3>1. pc[c].key \in Keys /\ mem.ask[pc[c].key].invoice # NoInvoice
      BY <2>1, <2>2, PlaceTypes DEF Stands
    <3> QED
      BY <1>1, <1>6, <2>2, <3>1 DEF Ask
  <2>3. Stands(pc[c], mem, disk, treasury, tardy, invoices')
    BY <2>1, <2>2, StandsKeeps
  <2> QED
    BY <2>1, <2>3
<1>8. SavedInv'
  <2> SUFFICES ASSUME NEW k \in Keys
               PROVE  /\ Convert(k).sent = 0 \/ disk.convert[k].sent # 0
                           \/ \E c \in Chains : pc[c].at = "sent" /\ pc[c].key = k
                      /\ Ask(k).invoice = NoInvoice \/ Pinned(invoices', disk', Ask(k).invoice)
                           \/ \E c \in Chains : pc[c].at = "pinned" /\ pc[c].key = k
    BY <1>1 DEF SavedInv, Convert, Ask
  <2> QED
    BY <1>6 DEF LegsInv, SavedInv
<1>9. RailInv'
  <2>1. /\ \A post \in late' : post.invoice \in DOMAIN invoices'
                               /\ Pinned(invoices', disk', post.invoice)
        /\ \A i \in DOMAIN invoices' :
             /\ invoices'[i].status \in {"paid", "redeemed"} <=> invoices'[i].on # 0
             /\ invoices'[i].on # 0 => Pinned(invoices', disk', i)
    BY <1>2, StepBooks
  <2>2. \A c \in Chains : call'[c] # Calm =>
          pc'[c].at = "paying" /\ Tries(call'[c]) = mem'.ask[pc'[c].key].invoice
    BY <1>1 DEF LegsInv, RailInv, Ask
  <2> QED
    BY <2>1, <2>2 DEF RailInv, Ask
<1> QED
  BY <1>4, <1>5, <1>7, <1>8, <1>9 DEF LegsInv

LEMMA InvoiceExpiresStep ==
    ASSUME LegsInv, InvoiceExpires
    PROVE  LegsInv'
<1>1. PICK n \in DOMAIN invoices : Expire(n)
  BY DEF InvoiceExpires
<1> DEFINE new == [invoices[n] EXCEPT !.status = "expired"]
<1>2. /\ UNCHANGED <<storeVars, pc, treasury, tardy, payouts, call>>
      /\ UNCHANGED <<channels, cached, saved, late>>
  BY <1>1 DEF InvoiceExpires, Expire, clientVars, worldVars
<1>3. /\ RailTypes /\ invoices \in Seq(Invoices) /\ invoices[n] \in Invoices
      /\ \A i \in DOMAIN invoices : invoices[i].status \in {"paid", "redeemed"} <=> invoices[i].on # 0
  BY DEF LegsInv, RailTypes, RailInv
<1>4. invoices[n].status = "pending" /\ invoices' = [invoices EXCEPT ![n] = new]
  BY <1>1 DEF Expire, Status
<1>5. new \in Invoices /\ new.status = "expired" /\ new.for = invoices[n].for /\ new.on = invoices[n].on
  BY <1>3 DEF Invoices
<1> HIDE DEF new
<1>6. /\ invoices' \in Seq(Invoices) /\ DOMAIN invoices' = DOMAIN invoices
      /\ invoices'[n] = new
      /\ \A i \in DOMAIN invoices : i # n => invoices'[i] = invoices[i]
  BY <1>3, <1>4, <1>5
<1>7. RailTypes'
  BY <1>2, <1>3, <1>6 DEF RailTypes
<1>8. Later(invoices', invoices)
  BY <1>4, <1>5, <1>6 DEF Later
<1>9. \A i \in DOMAIN invoices' :
        /\ invoices'[i].status \in {"paid", "redeemed"} <=> invoices'[i].on # 0
        /\ invoices'[i].on # 0 => i \in DOMAIN invoices /\ invoices[i].on # 0
  BY <1>3, <1>4, <1>5, <1>6
<1>10. InvoicesMove
  BY <1>2, <1>8, <1>9 DEF InvoicesMove
<1> QED
  BY <1>2, <1>7, <1>10, EnvKeeps

LEMMA OthersPayStep ==
    ASSUME LegsInv, OthersPay
    PROVE  LegsInv'
<1> DEFINE paid == [index |-> channels[cached].index + 1, peer |-> channels[cached].peer + 1]
<1>1. /\ UNCHANGED <<storeVars, pc, treasury, tardy, payouts, call>>
      /\ UNCHANGED <<invoices, cached, saved, late>>
      /\ cached # 0 /\ channels' = [channels EXCEPT ![cached] = paid]
  BY DEF OthersPay, clientVars, worldVars
<1>2. RailTypes
  BY DEF LegsInv
<1>3. channels \in Seq(States) /\ cached \in 1 .. Len(channels)
  BY <1>1, <1>2 DEF RailTypes
<1>4. paid \in States
  <2>1. channels[cached] \in States
    BY <1>3
  <2> QED
    BY <2>1 DEF States
<1> HIDE DEF paid
<1>5. channels' \in Seq(States) /\ Len(channels') = Len(channels)
  BY <1>1, <1>3, <1>4
<1>6. RailTypes'
  BY <1>1, <1>2, <1>5 DEF RailTypes
<1>7. InvoicesMove
  BY <1>1 DEF LegsInv, RailInv, InvoicesMove, Later
<1> QED
  BY <1>1, <1>6, <1>7, EnvKeeps

LEMMA LateLandsStep ==
    ASSUME LegsInv, LateLands, UNCHANGED <<storeVars, pc, aged, worldVars>>
    PROVE  LegsInv'
<1>1. PICK post \in late : Lands(post) /\ late' = late \ {post}
  BY DEF LateLands
<1>2. /\ UNCHANGED <<storeVars, pc, treasury, tardy, payouts, call>>
      /\ UNCHANGED <<cached, saved>>
  BY DEF LateLands, clientVars, worldVars
<1>3. RailTypes /\ post \in Posts
  BY DEF LegsInv, RailTypes
<1>4. post.invoice \in DOMAIN invoices /\ Pinned(invoices, disk, post.invoice)
  BY DEF LegsInv, RailInv
<1>5. /\ invoices' \in Seq(Invoices) /\ channels' \in Seq(States)
      /\ Len(channels') = Len(channels)
      /\ Later(invoices', invoices)
      /\ \A i \in DOMAIN invoices' :
           /\ invoices'[i].status \in {"paid", "redeemed"} <=> invoices'[i].on # 0
           /\ invoices'[i].on # 0 =>
                i \in DOMAIN invoices /\ (invoices[i].on # 0 \/ Pinned(invoices, disk, i))
  BY <1>1, <1>3, <1>4, LandsMoves
<1>6. RailTypes'
  BY <1>1, <1>2, <1>3, <1>5 DEF RailTypes
<1>7. InvoicesMove
  BY <1>1, <1>5 DEF InvoicesMove
<1> QED
  BY <1>2, <1>6, <1>7, EnvKeeps

(* A send the signer still held pays the treasury once more.               *)
LEMMA TardyLandsStep ==
    ASSUME LegsInv, NEW k \in Keys, TardyLands(k)
    PROVE  LegsInv'
<1>1. /\ mem' = mem /\ disk' = disk /\ saveChain' = saveChain /\ pc' = pc /\ payouts' = payouts
      /\ invoices' = invoices /\ channels' = channels /\ cached' = cached /\ saved' = saved
      /\ call' = call /\ late' = late
  BY DEF TardyLands, storeVars, railVars, lspVars, clientVars
<1>2. tardy[k] \in {"under way", "astray"} /\ tardy' = [tardy EXCEPT ![k] = "landed"] /\ TreasuryPaid(k)
  BY DEF TardyLands
<1>3. /\ pc \in [Chains -> Places] /\ treasury \in [Keys -> Nat] /\ payouts \in [Keys -> SUBSET Nat]
      /\ tardy \in [Keys -> {"none", "under way", "astray", "landed"}]
  BY DEF LegsInv, WorldTypes
<1>4. /\ treasury' \in [Keys -> Nat] /\ treasury[k] \in Nat /\ treasury'[k] = treasury[k] + 1
      /\ \A j \in Keys : j # k => treasury'[j] = treasury[j]
  BY <1>2, TreasuryGrows
<1>5. /\ tardy' \in [Keys -> {"none", "under way", "astray", "landed"}] /\ tardy'[k] = "landed"
      /\ \A j \in Keys : j # k => tardy'[j] = tardy[j]
  BY <1>2, <1>3
<1>6. \A j \in Keys : /\ treasury[j] \in Nat /\ treasury'[j] \in Nat
                      /\ \/ treasury'[j] = treasury[j] /\ Landed(tardy'[j]) = Landed(tardy[j])
                         \/ /\ treasury'[j] = treasury[j] + 1
                            /\ Landed(tardy'[j]) = 1 /\ Landed(tardy[j]) = 0
  <2>1. Landed(tardy[k]) = 0 /\ Landed(tardy'[k]) = 1
    BY <1>2, <1>5 DEF Landed
  <2>2. \A j \in Keys : j # k => Landed(tardy'[j]) = Landed(tardy[j])
    BY <1>5
  <2> QED
    BY <1>3, <1>4, <2>1, <2>2
<1>7. StoreTypes' /\ RailTypes' /\ VersionInv' /\ WriteInv' /\ FlightInv' /\ SavedInv' /\ RailInv'
  BY <1>1 DEF LegsInv, StoreTypes, RailTypes, VersionInv, WriteInv, FlightInv, SavedInv, RailInv,
              Convert, Ask
<1>8. WorldTypes'
  BY <1>1, <1>3, <1>4, <1>5 DEF WorldTypes
<1>9. MoneyInv'
  <2>1. \A j \in Keys : treasury'[j] <= 1 + Landed(tardy'[j])
    BY <1>6 DEF LegsInv, MoneyInv
  <2> QED
    BY <1>1, <2>1 DEF LegsInv, MoneyInv
<1>10. PlaceInv'
  <2> SUFFICES ASSUME NEW c \in Chains
               PROVE  Begun(pc[c], mem) /\ Stands(pc[c], mem, disk, treasury', tardy', invoices)
    BY <1>1 DEF PlaceInv
  <2>1. /\ Begun(pc[c], mem) /\ Stands(pc[c], mem, disk, treasury, tardy, invoices)
        /\ pc[c] \in Places
    BY <1>3, Standing
  <2>2. ASSUME pc[c].at = "send" PROVE treasury'[pc[c].key] <= Landed(tardy'[pc[c].key])
    <3>1. pc[c].key \in Keys /\ treasury[pc[c].key] <= Landed(tardy[pc[c].key])
      BY <2>1, <2>2, PlaceTypes DEF Stands
    <3> QED
      BY <1>6, <3>1
  <2>3. Stands(pc[c], mem, disk, treasury', tardy', invoices)
    BY <2>1, <2>2 DEF Stands
  <2> QED
    BY <2>1, <2>3
<1> QED
  BY <1>7, <1>8, <1>9, <1>10 DEF LegsInv

(* A crash: each request under way is served or not, a post under way may  *)
(* still arrive, and the loops go on from the file.                        *)
LEMMA CrashStep ==
    ASSUME LegsInv, Crash
    PROVE  LegsInv'
<1>1. PICK S \in SUBSET {c \in Chains : pc[c].at \in {"send", "execute", "redeem"}} :
        LET served(k, label) == \E c \in S : At(c, label) /\ Key(c) = k IN
        /\ treasury' = [k \in Keys |-> IF served(k, "send") THEN treasury[k] + 1 ELSE treasury[k]]
        /\ payouts' = [k \in Keys |-> IF served(k, "execute")
                                      THEN payouts[k] \cup {Convert(k).sent} ELSE payouts[k]]
        /\ invoices' = [i \in DOMAIN invoices |->
                          IF Redeemable(i) /\ \E c \in S : At(c, "redeem") /\ Invoice(c) = i
                          THEN [invoices[i] EXCEPT !.status = "redeemed"] ELSE invoices[i]]
  BY DEF Crash
<1>2. /\ mem' = disk /\ disk' = disk /\ saveChain' = <<>> /\ pc' = [c \in Chains |-> Idle]
      /\ cached' = 0 /\ saved' = saved /\ channels' = channels
      /\ call' = [p \in Payers |-> Calm]
  BY DEF Crash, Reload, RailForgets
<1>3. /\ mem \in Versions /\ disk \in Versions
      /\ Truthful(disk, payouts, invoices)
      /\ WorldTypes /\ RailTypes /\ Payers = Chains
  BY LegsAssumption DEF LegsInv, StoreTypes, VersionInv, Ordered
<1>4. \A c \in Chains : pc'[c] = Idle /\ call'[c] = Calm
  BY <1>2, <1>3
(* A send that becomes a late one has not landed.                          *)
<1>4a. /\ tardy' \in [Keys -> {"none", "under way", "astray", "landed"}]
       /\ \A k \in Keys : Landed(tardy'[k]) = Landed(tardy[k])
  <2>1. tardy \in [Keys -> {"none", "under way", "astray", "landed"}]
    BY <1>3 DEF WorldTypes
  <2>2. \E L \in SUBSET {k \in Keys : tardy[k] = "none"}, fate \in {"under way", "astray"} :
          Delays(L, fate)
    BY DEF Crash
  <2>3. ASSUME NEW k \in Keys
        PROVE  \/ tardy'[k] = tardy[k]
               \/ tardy[k] # "landed" /\ tardy'[k] \in {"astray", "under way"}
    BY <2>2 DEF Delays
  <2>4. tardy' = [k \in Keys |-> tardy'[k]]
    BY <2>2 DEF Delays
  <2> QED
    BY <2>1, <2>3, <2>4 DEF Landed
(* The provider's books.                                                   *)
<1>5. /\ invoices' \in Seq(Invoices) /\ DOMAIN invoices' = DOMAIN invoices
      /\ \A i \in DOMAIN invoices :
           \/ invoices'[i] = invoices[i]
           \/ /\ invoices[i].status = "paid" /\ invoices'[i].status = "redeemed"
              /\ invoices'[i].for = invoices[i].for /\ invoices'[i].on = invoices[i].on
  <2>1. invoices \in Seq(Invoices) /\ Len(invoices) \in Nat
    BY <1>3 DEF RailTypes
  <2>2. DOMAIN invoices = 1 .. Len(invoices) /\ DOMAIN invoices' = DOMAIN invoices
    BY <1>1, <2>1
  <2>3. ASSUME NEW i \in DOMAIN invoices
        PROVE  /\ invoices'[i] \in Invoices
               /\ \/ invoices'[i] = invoices[i]
                  \/ /\ invoices[i].status = "paid" /\ invoices'[i].status = "redeemed"
                     /\ invoices'[i].for = invoices[i].for /\ invoices'[i].on = invoices[i].on
    <3>1. invoices[i] \in Invoices
      BY <2>1
    <3>2. \/ invoices'[i] = invoices[i]
          \/ /\ invoices[i].status = "paid"
             /\ invoices'[i] = [invoices[i] EXCEPT !.status = "redeemed"]
      BY <1>1 DEF Redeemable, Status
    <3>3. /\ [invoices[i] EXCEPT !.status = "redeemed"] \in Invoices
          /\ [invoices[i] EXCEPT !.status = "redeemed"].status = "redeemed"
          /\ [invoices[i] EXCEPT !.status = "redeemed"].for = invoices[i].for
          /\ [invoices[i] EXCEPT !.status = "redeemed"].on = invoices[i].on
      BY <3>1 DEF Invoices
    <3> QED
      BY <3>1, <3>2, <3>3, Zenon
  <2>4. invoices' = [i \in 1 .. Len(invoices) |-> invoices'[i]]
    BY <1>1, <2>2
  <2>5. invoices' \in [1 .. Len(invoices) -> Invoices]
    BY <2>2, <2>3, <2>4
  <2>6. invoices' \in Seq(Invoices)
    BY <2>1, <2>5
  <2> QED
    BY <2>2, <2>3, <2>6
<1>6. /\ Later(invoices', invoices)
      /\ \A i \in DOMAIN invoices' :
           /\ invoices'[i].status \in {"paid", "redeemed"} <=> invoices'[i].on # 0
           /\ invoices'[i].on # 0 => i \in DOMAIN invoices /\ invoices[i].on # 0
  <2>1. \A i \in DOMAIN invoices : invoices[i].status \in {"paid", "redeemed"} <=> invoices[i].on # 0
    BY DEF LegsInv, RailInv
  <2> QED
    BY <1>5, <2>1 DEF Later
<1>7. \A post \in late' :
        post \in late \/ (post \in Posts /\ post.invoice \in DOMAIN invoices
                          /\ Pinned(invoices, disk, post.invoice))
  <2>1. PICK T \in SUBSET {call[p].post : p \in {q \in Payers : Posted(q)}} : late' = late \cup T
    BY DEF Crash, RailForgets
  <2>2. ASSUME NEW post \in T
        PROVE  post \in Posts /\ post.invoice \in DOMAIN invoices
               /\ Pinned(invoices, disk, post.invoice)
    <3>1. PICK p \in Chains : Posted(p) /\ post = call[p].post
      BY <1>3, <2>1
    <3> QED
      BY <3>1, PostIsPinned
  <2> QED
    BY <2>1, <2>2
<1>8. InvoicesMove
  BY <1>6, <1>7 DEF InvoicesMove
<1>9. RailTypes'
  <2>1. cached' \in 0 .. Len(channels') /\ saved' \in 0 .. Len(channels') /\ channels' \in Seq(States)
    BY <1>2, <1>3 DEF RailTypes
  <2>2. late' \subseteq Posts
    BY <1>3, <1>7 DEF RailTypes
  <2>3. call' \in [Chains -> {Calm}] /\ \A c \in Chains : call'[c].at # "reading"
    BY <1>2, <1>3, <1>4 DEF Calm
  <2> QED
    BY <1>5, <2>1, <2>2, <2>3 DEF RailTypes
(* What was sent and paid out.                                             *)
<1>10. ASSUME NEW k \in Keys
       PROVE  /\ treasury'[k] \in Nat /\ treasury'[k] <= 1 + Landed(tardy[k])
              /\ payouts'[k] \subseteq Nat /\ payouts[k] \subseteq payouts'[k]
              /\ \A tx \in payouts'[k] : tx # 0 /\ tx = disk.convert[k].sent
  <2>1. /\ treasury[k] \in Nat /\ treasury[k] <= 1 + Landed(tardy[k]) /\ Landed(tardy[k]) \in Nat
        /\ payouts[k] \subseteq Nat
        /\ \A tx \in payouts[k] : tx # 0 /\ tx = disk.convert[k].sent
    BY <1>3 DEF WorldTypes, LegsInv, MoneyInv, Landed
  <2>2. ASSUME NEW c \in Chains, At(c, "send"), Key(c) = k PROVE treasury[k] <= Landed(tardy[k])
    BY <2>2, Standing DEF Stands, At, Key
  <2>3. ASSUME NEW c \in Chains, At(c, "execute"), Key(c) = k
        PROVE  Convert(k).sent # 0 /\ Convert(k).sent = disk.convert[k].sent
    <3>1. disk.convert[k].sent # 0
      BY <2>3, Standing DEF Stands, At, Key
    <3> QED
      BY <3>1, ConvertTypes
  <2>4. Convert(k).sent \in Nat
    BY <1>3, VersionTypes DEF Convert
  <2>5. \/ treasury'[k] = treasury[k]
        \/ treasury'[k] = treasury[k] + 1 /\ \E c \in Chains : At(c, "send") /\ Key(c) = k
    BY <1>1
  <2>6. \/ payouts'[k] = payouts[k]
        \/ /\ payouts'[k] = payouts[k] \cup {Convert(k).sent}
           /\ \E c \in Chains : At(c, "execute") /\ Key(c) = k
    BY <1>1
  <2>7. treasury'[k] \in Nat /\ treasury'[k] <= 1 + Landed(tardy[k])
    <3>1. CASE treasury'[k] = treasury[k]
      BY <2>1, <3>1
    <3>2. CASE treasury'[k] = treasury[k] + 1 /\ \E c \in Chains : At(c, "send") /\ Key(c) = k
      <4>1. treasury[k] <= Landed(tardy[k])
        BY <2>2, <3>2
      <4> QED
        BY <2>1, <3>2, <4>1
    <3> QED
      BY <2>5, <3>1, <3>2
  <2>8. /\ payouts'[k] \subseteq Nat /\ payouts[k] \subseteq payouts'[k]
        /\ \A tx \in payouts'[k] : tx # 0 /\ tx = disk.convert[k].sent
    <3>1. CASE payouts'[k] = payouts[k]
      BY <2>1, <3>1
    <3>2. CASE /\ payouts'[k] = payouts[k] \cup {Convert(k).sent}
               /\ \E c \in Chains : At(c, "execute") /\ Key(c) = k
      <4>1. Convert(k).sent # 0 /\ Convert(k).sent = disk.convert[k].sent
        BY <2>3, <3>2
      <4> QED
        BY <2>1, <2>4, <3>2, <4>1
    <3> QED
      BY <2>6, <3>1, <3>2
  <2> QED
    BY <2>7, <2>8
<1>11. WorldTypes' /\ MoneyInv'
  <2>1. treasury' = [k \in Keys |-> treasury'[k]] /\ payouts' = [k \in Keys |-> payouts'[k]]
    BY <1>1
  <2>2. treasury' \in [Keys -> Nat] /\ payouts' \in [Keys -> SUBSET Nat]
    BY <1>10, <2>1
  <2>3. pc' \in [Chains -> Places]
    BY <1>2, IdleIsFresh
  <2>4. tardy' \in [Keys -> {"none", "under way", "astray", "landed"}]
    BY <1>4a
  <2>5. WorldTypes'
    BY <2>2, <2>3, <2>4 DEF WorldTypes
  <2>6. MoneyInv'
    BY <1>2, <1>4a, <1>10 DEF MoneyInv
  <2> QED
    BY <2>5, <2>6
(* The file, and the chains that start again.                              *)
<1>12. Truthful(disk, payouts', invoices')
  BY <1>3, <1>6, <1>10, TruthfulLater
<1>13. Ordered(disk, disk, <<>>, payouts', invoices') /\ Len(<<>>) = 0
  <2>1. Len(<<>>) = 0 /\ 1 .. 0 = {}
    OBVIOUS
  <2>2. After(invoices', disk, disk)
    BY KeepsOrder
  <2> QED
    BY <1>12, <2>1, <2>2 DEF Ordered
<1>14. StoreTypes' /\ VersionInv' /\ WriteInv'
  <2>1. StoreTypes'
    BY <1>2, <1>3 DEF StoreTypes
  <2>2. VersionInv'
    BY <1>2, <1>13 DEF VersionInv
  <2>3. WriteInv'
    BY <1>2, <1>13 DEF WriteInv
  <2> QED
    BY <2>1, <2>2, <2>3
<1>15. FlightInv' /\ PlaceInv'
  <2>1. FlightInv'
    BY <1>4, IdleIsFresh DEF FlightInv
  <2>2. PlaceInv'
    BY <1>4, IdleIsFresh DEF PlaceInv
  <2> QED
    BY <2>1, <2>2
<1>16. SavedInv'
  <2>1. ASSUME NEW k \in Keys, disk.ask[k].invoice # NoInvoice
        PROVE  Pinned(invoices', disk, disk.ask[k].invoice)
    <3>1. invoices'[disk.ask[k].invoice].for = k
      BY <1>12, <2>1 DEF Truthful
    <3> QED
      BY <3>1 DEF Pinned
  <2> QED
    BY <1>2, <2>1 DEF SavedInv, Convert, Ask
<1>17. RailInv'
  <2>1. After(invoices', disk', disk)
    BY <1>2, KeepsOrder
  <2>2. /\ \A post \in late' : post.invoice \in DOMAIN invoices'
                               /\ Pinned(invoices', disk', post.invoice)
        /\ \A i \in DOMAIN invoices' :
             /\ invoices'[i].status \in {"paid", "redeemed"} <=> invoices'[i].on # 0
             /\ invoices'[i].on # 0 => Pinned(invoices', disk', i)
    BY <1>8, <2>1, StepBooks
  <2> QED
    BY <1>4, <2>2 DEF RailInv
<1> QED
  BY <1>9, <1>11, <1>14, <1>15, <1>16, <1>17 DEF LegsInv

LEMMA InitLegs == Init => LegsInv
<1> SUFFICES ASSUME Init PROVE LegsInv
  OBVIOUS
<1>1. /\ invoices = <<>> /\ channels = <<>> /\ cached = 0 /\ saved = 0 /\ late = {}
      /\ call = [c \in Chains |-> Calm] /\ pc = [c \in Chains |-> Idle]
      /\ mem = Contents /\ disk = Contents /\ saveChain = <<>>
      /\ treasury = [k \in Keys |-> 0] /\ tardy = [k \in Keys |-> "none"]
      /\ payouts = [k \in Keys |-> {}]
  BY LegsAssumption DEF Init, RailInit, StoreInit
<1>2. /\ Contents \in Versions
      /\ \A k \in Keys : /\ Contents.convert[k].status = "none" /\ Contents.convert[k].sent = 0
                         /\ Contents.ask[k].status = "none" /\ Contents.ask[k].invoice = NoInvoice
      /\ \A e \in Events : Contents.att[e] = "none"
  BY DEF Contents, Versions, NoInvoice, Events
<1>3. Len(<<>>) = 0 /\ 1 .. 0 = {} /\ DOMAIN <<>> = {}
  OBVIOUS
<1>4. StoreTypes
  BY <1>1, <1>2 DEF StoreTypes
<1>5. WorldTypes
  BY <1>1, IdleIsFresh DEF WorldTypes
<1>6. RailTypes
  <2>1. Calm.at # "reading" /\ call \in [Chains -> {Calm}]
    BY <1>1 DEF Calm
  <2> QED
    BY <1>1, <1>3, <2>1 DEF RailTypes
<1>7. VersionInv
  <2>1. Truthful(Contents, payouts, invoices)
    BY <1>2 DEF Truthful
  <2>2. After(invoices, Contents, Contents)
    BY KeepsOrder
  <2> QED
    BY <1>1, <1>3, <2>1, <2>2 DEF VersionInv, Ordered
<1>8. WriteInv
  BY <1>1, <1>3 DEF WriteInv
<1>9. \A c \in Chains : pc[c] = Idle /\ call[c] = Calm
  BY <1>1
<1>10. FlightInv
  BY <1>9, IdleIsFresh DEF FlightInv
<1>11. PlaceInv
  BY <1>9, IdleIsFresh DEF PlaceInv
<1>12. SavedInv
  BY <1>1, <1>2 DEF SavedInv, Convert, Ask
<1>13. MoneyInv
  <2>1. \A k \in Keys : treasury[k] = 0 /\ tardy[k] = "none" /\ payouts[k] = {}
    BY <1>1
  <2>2. Landed("none") = 0
    BY DEF Landed
  <2> QED
    BY <2>1, <2>2 DEF MoneyInv
<1>14. RailInv
  BY <1>1, <1>3, <1>9 DEF RailInv
<1> QED
  BY <1>4, <1>5, <1>6, <1>7, <1>8, <1>10, <1>11, <1>12, <1>13, <1>14 DEF LegsInv

-----------------------------------------------------------------------------
LEMMA ChainStepKeeps ==
    ASSUME LegsInv, NEW c \in Chains, ChainStep(c)
    PROVE  LegsInv'
<1>1. CASE ConvertStep(c)
  BY <1>1, MintSavedStep, ConvertClaimsStep, ConvertClaimedStep, SentIsLookedForStep,
     LookThrowsStep, SendAnsweredStep, SendThrowsStep, SentSavedStep, ExecutedStep, ExecuteThrowsStep
     DEF ConvertStep
<1>2. CASE AttestStep(c)
  BY <1>2, EventSavedStep, AttestationSavedStep, SignedStep, SignThrowsStep, SignedSavedStep,
     SavedStep DEF AttestStep
<1>3. CASE AskStep(c)
  <2>1. CASE RailStep(c) /\ UNCHANGED <<storeVars, pc, aged, worldVars, unattested>>
    BY <2>1, RailStepStep
  <2> QED
    BY <1>3, <2>1, AskStartsStep, AskClaimedStep, ChallengedStep, ChallengeThrowsStep,
       PinnedSavedStep, StatusReadStep, AskPaidStep, AskPayThrowsStep, AskAnsweredStep,
       RedeemThrowsStep DEF AskStep
<1> QED
  BY <1>1, <1>2, <1>3 DEF ChainStep

LEMMA NextKeeps == LegsInv /\ [Next]_vars => LegsInv'
<1> SUFFICES ASSUME LegsInv, [Next]_vars PROVE LegsInv'
  OBVIOUS
<1>1. ASSUME NEW k \in Keys, MintLands(k) \/ Sweeps(k) \/ TardyLands(k) PROVE LegsInv'
  <2>1. ASSUME NEW kind \in Kinds, TickSigns(<<kind, k>>) PROVE LegsInv'
    BY <2>1, TickSignsStep DEF Events
  <2> QED
    BY <1>1, <2>1, MintLandsStep, TardyLandsStep, TickConvertsStep, TickDrivesConvertStep,
       TickAsksStep, TickDrivesAskStep DEF Sweeps
<1>2. CASE \E c \in Chains : ChainStep(c)
  BY <1>2, ChainStepKeeps
<1>3. ASSUME UNCHANGED <<railVars, storeVars, pc, worldVars>> PROVE LegsInv'
  <2>1. UNCHANGED <<storeVars, pc, treasury, tardy, payouts, call>> /\ RailRests
    BY <1>3, Rests DEF railVars, clientVars, worldVars
  <2>2. RailTypes' /\ InvoicesMove
    BY <2>1 DEF RailRests, RailTypes, LegsInv, InvoicesMove, RailInv, Later
  <2> QED
    BY <2>1, <2>2, EnvKeeps
<1>4. CASE DayPasses
  BY <1>3, <1>4 DEF DayPasses
<1>5. CASE LateLands /\ UNCHANGED <<storeVars, pc, aged, worldVars, unattested>>
  BY <1>5, LateLandsStep
<1>6. CASE UNCHANGED vars
  BY <1>3, <1>6 DEF vars
<1> QED
  BY <1>1, <1>2, <1>4, <1>5, <1>6, ResignedStep, InvoiceExpiresStep, OthersPayStep,
     CrashStep DEF Next

(* Whatever the hooks, the tick and the next process do in which order, a  *)
(* loop is in one chain's hands at a time, and what it sends, pays out or  *)
(* pays is on disk, or was looked for outside, before it acts              *)
(* (gateway.ts:682 and 860).                                               *)
THEOREM LegsInvHolds == Spec => []LegsInv
<1>1. Init => LegsInv
  BY InitLegs
<1>2. LegsInv /\ [Next]_vars => LegsInv'
  BY NextKeeps
<1> QED
  BY <1>1, <1>2, PTL DEF Spec

(* The treasury is paid once for a loop, but for a send the signer still   *)
(* held, and the engine pays out for one deposit, which the record names   *)
(* (gateway.ts:682, store.ts:99).                                          *)
THEOREM LoopsConvertOnce == Spec => []PaidOnce
<1>1. LegsInv => PaidOnce
  <2> SUFFICES ASSUME LegsInv, NEW k \in Keys
               PROVE  /\ treasury[k] <= 1 + (IF tardy[k] = "landed" THEN 1 ELSE 0)
                      /\ Cardinality(payouts[k]) <= 1
                      /\ Convert(k).status = "converted" => payouts[k] = {Convert(k).sent}
    BY DEF PaidOnce
  <2>1. treasury[k] <= 1 + Landed(tardy[k]) /\ \A tx \in payouts[k] : tx = disk.convert[k].sent
    BY DEF LegsInv, MoneyInv
  <2>2. Cardinality(payouts[k]) <= 1
    <3>1. payouts[k] \subseteq {disk.convert[k].sent}
      BY <2>1
    <3>2. IsFiniteSet({disk.convert[k].sent}) /\ Cardinality({disk.convert[k].sent}) = 1
      BY FS_Singleton
    <3> QED
      BY <3>1, <3>2, FS_Subset
  <2>3. Convert(k).status = "converted" => payouts[k] = {Convert(k).sent}
    <3>1. Convert(k).status = "converted" => Convert(k).sent \in payouts[k]
      BY DEF LegsInv, VersionInv, Ordered, Truthful, Convert
    <3> QED
      BY <2>1, <3>1
  <2> QED
    BY <2>1, <2>2, <2>3 DEF Landed
<1> QED
  BY <1>1, LegsInvHolds, PTL

(* No two invoices of a loop are paid, and an answered loop paid the one   *)
(* its record names (gateway.ts:860).                                      *)
THEOREM LoopsPayOnce == Spec => []OneInvoicePaid
<1>1. LegsInv => OneInvoicePaid
  <2> SUFFICES ASSUME LegsInv, NEW k \in Keys,
                      NEW paid, paid = {i \in DOMAIN invoices : invoices[i].for = k /\ invoices[i].on # 0}
               PROVE  /\ Cardinality(paid) <= 1
                      /\ Ask(k).status = "answered" => paid = {Ask(k).invoice}
    BY DEF OneInvoicePaid
  <2>1. \A i \in paid : i = disk.ask[k].invoice
    BY DEF LegsInv, RailInv, Pinned
  <2>2. Cardinality(paid) <= 1
    <3>1. paid \subseteq {disk.ask[k].invoice}
      BY <2>1
    <3>2. IsFiniteSet({disk.ask[k].invoice}) /\ Cardinality({disk.ask[k].invoice}) = 1
      BY FS_Singleton
    <3> QED
      BY <3>1, <3>2, FS_Subset
  <2>3. Ask(k).status = "answered" => Ask(k).invoice \in paid
    <3>1. Ask(k).status = "answered" =>
            /\ Ask(k).invoice \in DOMAIN invoices /\ invoices[Ask(k).invoice].for = k
            /\ invoices[Ask(k).invoice].status = "redeemed"
      BY AskTypes DEF Status
    <3> QED
      BY <3>1 DEF LegsInv, RailInv
  <2> QED
    BY <2>1, <2>2, <2>3
<1> QED
  BY <1>1, LegsInvHolds, PTL

(* A conversion or an answer is attested on disk only after it is done     *)
(* there (gateway.ts:957).                                                 *)
THEOREM AttestedAreDone == Spec => []AttestedIsDone
<1>1. LegsInv => AttestedIsDone
  <2> SUFFICES ASSUME LegsInv, NEW k \in Keys
               PROVE  /\ disk.att[<<"convert", k>>] # "none" => disk.convert[k].status = "converted"
                      /\ disk.att[<<"ask", k>>] # "none" => disk.ask[k].status = "answered"
    BY DEF AttestedIsDone
  <2>1. \A e \in Events : disk.att[e] # "none" => Done(disk, e)
    BY DEF LegsInv, VersionInv, Ordered, Truthful
  <2>2. <<"convert", k>> \in Events /\ <<"ask", k>> \in Events
    BY DEF Events, Kinds
  <2> QED
    BY <2>1, <2>2 DEF Done
<1> QED
  BY <1>1, LegsInvHolds, PTL
====
