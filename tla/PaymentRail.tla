---- MODULE PaymentRail ----
(***************************************************************************)
(* The payment rail of the BTCSOQ line: the hosted lightning channel, its  *)
(* invoices, the sellers that answer for a paid one, and the one client    *)
(* every payer of the gateway shares (relayer/src/btcsoq/ln402.ts).        *)
(*                                                                         *)
(* The provider keeps the books.  A payment names the channel state it     *)
(* makes - the next index, the balances - from the state its payer read    *)
(* before; the provider takes it if the invoice is pending and the index   *)
(* is the next one.  A request can be lost, its answer can be lost, or it  *)
(* can arrive after its payer's 20 s are over.                             *)
(***************************************************************************)
EXTENDS Naturals, Sequences, FiniteSets, Functions

CONSTANTS
    Payers,         \* call chains that pay
    Capacity,       \* a channel's capacity
    MaxInvoices,    \* invoices issued (bound)
    MaxFaults       \* lost and late requests, crashes (bound)

ASSUME RailAssumption == {Capacity, MaxInvoices, MaxFaults} \subseteq Nat

VARIABLES
    invoices,       \* the provider's: price, status, the payer it is for, the channel that paid
    channels,       \* the provider's: state index, the peer's balance
    cached,         \* Ln402Client.channel; 0: null
    saved,          \* ln-channel.json; 0: no file
    call,           \* each payer's payInvoice
    late,           \* payments nobody waits for any more
    faults

lspVars == <<invoices, channels>>
clientVars == <<cached, saved, call>>
railVars == <<lspVars, clientVars, late, faults>>

Calm == [at |-> "calm"]

NoInvoice == 0

RailInit ==
    /\ invoices = <<>>
    /\ channels = <<>>
    /\ cached = 0
    /\ saved = 0
    /\ call = [p \in Payers |-> Calm]
    /\ late = {}
    /\ faults = 0

Fault == faults < MaxFaults /\ faults' = faults + 1

-----------------------------------------------------------------------------
(* The provider and the sellers                                            *)

Status(i) == invoices[i].status

(* A seller's challenge, or createInvoice: a pending invoice.              *)
Issue(price, for) ==
    /\ Len(invoices) < MaxInvoices
    /\ invoices' = Append(invoices, [price |-> price, status |-> "pending", for |-> for, on |-> 0])

Issued == Len(invoices) + 1

Expire(i) ==
    /\ i \in DOMAIN invoices
    /\ Status(i) = "pending"
    /\ invoices' = [invoices EXCEPT ![i].status = "expired"]
    /\ UNCHANGED channels

(* The provider never lets a payment overdraw the payer.                   *)
Accepts(post) ==
    /\ Status(post.invoice) = "pending"
    /\ post.index = channels[post.channel].index + 1
    /\ post.peer <= Capacity

Lands(post) ==
    IF Accepts(post)
    THEN /\ channels' = [channels EXCEPT ![post.channel] = [index |-> post.index, peer |-> post.peer]]
         /\ invoices' = [invoices EXCEPT ![post.invoice].status = "paid",
                                         ![post.invoice].on = post.channel]
    ELSE UNCHANGED lspVars

(* One payment, one inference: the first redemption is answered, any other *)
(* is challenged again.                                                    *)
Redeemable(i) == Status(i) = "paid"

Redeem(i) ==
    /\ Redeemable(i)
    /\ invoices' = [invoices EXCEPT ![i].status = "redeemed"]
    /\ UNCHANGED channels

LateLands ==
    /\ \E post \in late : Lands(post) /\ late' = late \ {post}
    /\ UNCHANGED <<clientVars, faults>>

-----------------------------------------------------------------------------
(* payInvoice                                                              *)

Calling(p, state) == call' = [call EXCEPT ![p] = state]

(* ensureChannel for invoice i, or for NoInvoice: the cached channel, or   *)
(* the saved one, or a new one.                                            *)
PayBegins(p, i) ==
    /\ Calling(p, IF cached = 0 THEN [at |-> "loading", invoice |-> i]
                  ELSE [at |-> "reading", invoice |-> i, channel |-> cached])
    /\ UNCHANGED <<channels, cached, saved, late>>

Reading(p, c) == Calling(p, [at |-> "reading", invoice |-> call[p].invoice, channel |-> c])

(* The saved channel, unless it is not to be had.                          *)
ChannelLoads(p) ==
    /\ call[p].at = "loading"
    /\ \/ saved # 0 /\ Reading(p, saved) /\ cached' = saved /\ UNCHANGED faults
       \/ /\ IF saved = 0 THEN UNCHANGED faults ELSE Fault
          /\ Calling(p, [call[p] EXCEPT !.at = "faucet"])
          /\ UNCHANGED cached
    /\ UNCHANGED <<lspVars, saved, late>>

OpenChannel == channels' = Append(channels, [index |-> 0, peer |-> 0])

(* The faucet declines, or its answer is lost: a plain open is tried.      *)
FaucetFails(p) ==
    /\ call[p].at = "faucet"
    /\ Fault
    /\ OpenChannel \/ UNCHANGED channels
    /\ Calling(p, [call[p] EXCEPT !.at = "plain"])
    /\ UNCHANGED <<invoices, cached, saved, late>>

(* Nothing looks at the cache again: two payers open two channels, and the *)
(* later one is kept.                                                      *)
ChannelOpens(p) ==
    /\ call[p].at \in {"faucet", "plain"}
    /\ OpenChannel
    /\ cached' = Len(channels) + 1
    /\ saved' = Len(channels) + 1
    /\ Reading(p, Len(channels) + 1)
    /\ UNCHANGED <<invoices, late, faults>>

View(c) == channels[c]

Post(i, price, c, view) ==
    [invoice |-> i, channel |-> c, index |-> view.index + 1, peer |-> view.peer + price]

Posting(p, post) == Calling(p, [at |-> "posting", post |-> post])

Reads(p) == call[p].at = "reading" /\ call[p].invoice # NoInvoice

Affords(p) == View(call[p].channel).peer + invoices[call[p].invoice].price <= Capacity

(* The invoice is read, then the channel (one step: the provider looks at  *)
(* the invoice again when it is paid).                                     *)
ViewIsRead(p) ==
    /\ Reads(p)
    /\ Status(call[p].invoice) = "pending"
    /\ Affords(p)
    /\ LET i == call[p].invoice
           c == call[p].channel IN Posting(p, Post(i, invoices[i].price, c, View(c)))
    /\ UNCHANGED <<lspVars, cached, saved, late, faults>>

RailStep(p) == ChannelLoads(p) \/ FaucetFails(p) \/ ChannelOpens(p) \/ ViewIsRead(p)

(* It was paid before: done.                                               *)
WasPaid(p) == Reads(p) /\ Status(call[p].invoice) \in {"paid", "redeemed"}

FoundPaid(p) ==
    /\ WasPaid(p)
    /\ Calling(p, Calm)
    /\ UNCHANGED <<lspVars, cached, saved, late, faults>>

(* payInvoice throws before it posts anything: the invoice or the balance  *)
(* forbids it, or a request fails - perhaps after a channel was opened.    *)
PayThrows(p) ==
    /\ call[p].at \in {"plain", "reading"}
    /\ IF Reads(p) /\ (~Affords(p) \/ Status(call[p].invoice) = "expired")
       THEN UNCHANGED <<channels, faults>>
       ELSE /\ Fault
            /\ IF call[p].at = "plain" THEN OpenChannel \/ UNCHANGED channels
               ELSE UNCHANGED channels
    /\ Calling(p, Calm)
    /\ UNCHANGED <<invoices, cached, saved, late>>

Posted(p) == call[p].at = "posting"

(* The provider's answer, accepted or rejected.                            *)
PostAnswered(p) ==
    /\ Posted(p)
    /\ Lands(call[p].post)
    /\ Calling(p, Calm)
    /\ UNCHANGED <<cached, saved, late, faults>>

(* Its answer is lost, the request is, or it stays under way.              *)
PostThrows(p) ==
    /\ Posted(p)
    /\ Fault
    /\ \/ Lands(call[p].post) /\ UNCHANGED late
       \/ UNCHANGED <<lspVars, late>>
       \/ late' = late \cup {call[p].post} /\ UNCHANGED lspVars
    /\ Calling(p, Calm)
    /\ UNCHANGED <<cached, saved>>

(* The process ends; a payment under way can still arrive.                 *)
RailForgets ==
    /\ Fault
    /\ \E S \in SUBSET {call[p].post : p \in {q \in Payers : Posted(q)}} : late' = late \cup S
    /\ cached' = 0
    /\ call' = [p \in Payers |-> Calm]
    /\ UNCHANGED <<channels, saved>>

-----------------------------------------------------------------------------
Prices == [i \in DOMAIN invoices |-> invoices[i].price]

PaidOn(c) == {i \in DOMAIN invoices : invoices[i].on = c}

(* The channel's books: whatever payers read and posted in between, lost   *)
(* or late, the peer holds the price of the invoices paid on the channel,  *)
(* each paid once (ln402.ts:170, 300).                                     *)
BooksBalance ==
    \A c \in DOMAIN channels :
        /\ channels[c].peer = SumFunctionOnSet(Prices, PaidOn(c))
        /\ channels[c].index = Cardinality(PaidOn(c))
====
