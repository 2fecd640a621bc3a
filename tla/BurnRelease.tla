---- MODULE BurnRelease ----
(***************************************************************************)
(* The Solana lane: the adapter (relayer/src/cea/solana-cea.ts) finds the  *)
(* bridge program's burns and the router releases them, under crashes of   *)
(* the relayer, of the lane manager, and a node that fails to answer.      *)
(*                                                                         *)
(* The program's finalized signatures are numbered in their order; not     *)
(* every one is a burn's.  A poll is two awaits on the node and then a     *)
(* handler per burn; setInterval starts polls without waiting for the one  *)
(* before.  The webhook names a signature at any time and any number of    *)
(* times, or never; before the signature is final it parses to nothing.    *)
(* `healthy' is reported only and left out.                                *)
(***************************************************************************)
EXTENDS DuaRouter, FiniteSetsExt

CONSTANTS
    Signatures,     \* 1 .. n: what the program ever processes
    Blocks,         \* the last signature of each block
    PageLimit,      \* getSignaturesForAddress answers the newest 20
    Polls,          \* polls that may overlap (bound)
    MaxUpsets       \* restarts of the relayer, transactions the node fails to
                    \* deliver and halts, together (bound)

ASSUME BurnAssumption ==
    /\ MaxUpsets \in Nat
    /\ Burns \cup Blocks \subseteq Signatures
    /\ PageLimit \in Nat \ {0}

VARIABLES
    final,          \* the newest finalized signature
    up,             \* the adapter started: it polls, and takes webhooks
    last,           \* lastSignature; 0: null
    pollRef,        \* the router's pollRef; 0: null
    polls,          \* where each poll is
    upsets,         \* ... so far
    \* history
    passed,         \* burns a start skipped or that failed as their batch's oldest
    cut             \* burns older than the page a poll was given

ceaVars == <<final, up, last, pollRef, polls, passed, cut>>
vars == <<paulVars, routerVars, ceaVars, upsets>>

Free == [at |-> "free"]

Init ==
    /\ PaulInit
    /\ RouterInit
    /\ final = 0
    /\ up = TRUE
    /\ last = 0
    /\ pollRef = 0
    /\ polls = [p \in Polls |-> Free]
    /\ upsets = 0
    /\ passed = {}
    /\ cut = {}

(* A block is finalized with all it has of the program's.                  *)
Finalize ==
    /\ \E b \in Blocks : b > final /\ final' = b
    /\ UNCHANGED <<paulVars, routerVars, up, last, pollRef, polls, passed, cut, upsets>>

(* processWebhookPayload: what parses is handed to the router.             *)
Webhook(b) ==
    /\ up
    /\ b <= final
    /\ OnBurnDetected(b, 3)
    /\ UNCHANGED <<ceaVars, upsets>>

Ref == IF pollRef # 0 THEN pollRef ELSE last

PollBegin(p) ==
    /\ up
    /\ polls[p] = Free
    /\ polls' = [polls EXCEPT ![p] = [at |-> "asked", ref |-> Ref]]
    /\ UNCHANGED <<paulVars, routerVars, final, up, last, pollRef, passed, cut, upsets>>

(* Nothing is new, or the node fails: the reference asked for comes back.  *)
PollEmpty(p) ==
    /\ polls[p].at = "asked"
    /\ pollRef' = polls[p].ref
    /\ polls' = [polls EXCEPT ![p] = Free]
    /\ UNCHANGED <<paulVars, routerVars, final, up, last, passed, cut, upsets>>

(* The newest PageLimit signatures above the reference; what is older than *)
(* the page is asked for by no later poll, whose reference is past it.     *)
PollListed(p) ==
    /\ polls[p].at = "asked"
    /\ polls[p].ref < final
    /\ polls' = [polls EXCEPT ![p] =
         [at |-> "listed", hi |-> final, ref |-> polls[p].ref,
          lo |-> Max({polls[p].ref + 1, final - PageLimit + 1})]]
    /\ UNCHANGED <<paulVars, routerVars, final, up, last, pollRef, passed, cut, upsets>>

(* Mutant: the next reference is the newest signature of the batch.        *)
NewestOf(poll) == poll.hi

(* sigs[0] after sigs.reverse(), which reverses in place: the oldest.      *)
NextRef(poll) == poll.lo

(* Each transaction is fetched and parsed; one that cannot be is skipped   *)
(* like one that is no burn.  A poll without a burn ends here.             *)
Batch(p) == (polls[p].lo .. polls[p].hi) \cap Burns

PollParsed(p) ==
    /\ polls[p].at = "listed"
    /\ \E missed \in SUBSET Batch(p) :
         /\ upsets' = upsets + Cardinality(missed)
         /\ upsets' <= MaxUpsets
         /\ passed' = passed \cup (missed \cap {polls[p].lo})
         /\ polls' = [polls EXCEPT ![p] =
              IF Batch(p) = missed THEN Free
              ELSE [at |-> "handing", on |-> 0, todo |-> Batch(p) \ missed]]
    /\ cut' = cut \cup (((polls[p].ref + 1) .. (polls[p].lo - 1)) \cap Burns)
    /\ last' = NextRef(polls[p])
    /\ pollRef' = NextRef(polls[p])
    /\ UNCHANGED <<paulVars, routerVars, final, up>>

(* A poll hands its burns over one by one, oldest first, each awaited.     *)
HandledLast(p) ==
    /\ polls[p].at = "handing"
    /\ polls[p].on \in Burns => Handled(polls[p].on)

PollHands(p) ==
    /\ HandledLast(p)
    /\ \E b \in polls[p].todo :
         /\ \A c \in polls[p].todo : b <= c
         /\ OnBurnDetected(b, 3)
         /\ polls' = [polls EXCEPT ![p] =
              [at |-> "handing", on |-> b, todo |-> polls[p].todo \ {b}]]
    /\ UNCHANGED <<final, up, last, pollRef, passed, cut, upsets>>

PollEnds(p) ==
    /\ HandledLast(p)
    /\ polls[p].todo = {}
    /\ polls' = [polls EXCEPT ![p] = Free]
    /\ UNCHANGED <<paulVars, routerVars, final, up, last, pollRef, passed, cut, upsets>>

(* The relayer restarts.  start() skips to the newest signature; if the    *)
(* node does not name it, the first poll asks from the beginning; if it    *)
(* does not answer at all, the adapter stays down.                         *)
Restart ==
    /\ upsets < MaxUpsets
    /\ upsets' = upsets + 1
    /\ RouterForgets
    /\ \/ up' = TRUE /\ last' \in {0, final}
       \/ up' = FALSE /\ last' = 0
    /\ pollRef' = 0
    /\ polls' = [p \in Polls |-> Free]
    /\ passed' = passed \cup {b \in Burns : ~up' \/ b <= last'}
    /\ UNCHANGED <<final, cut, paul>>

Halt ==
    /\ ~halted
    /\ upsets < MaxUpsets
    /\ upsets' = upsets + 1
    /\ SetHalted(TRUE)
    /\ UNCHANGED ceaVars

Resume == halted /\ SetHalted(FALSE) /\ UNCHANGED <<ceaVars, upsets>>

Route(b) == RouterStep(b) /\ UNCHANGED <<ceaVars, upsets>>

Lanes == LaneStep /\ UNCHANGED <<ceaVars, upsets>>

Next ==
    \/ Finalize \/ Restart \/ Halt \/ Resume \/ Lanes
    \/ \E b \in Burns : Webhook(b) \/ Route(b)
    \/ \E p \in Polls : \/ PollBegin(p) \/ PollEmpty(p) \/ PollListed(p)
                        \/ PollParsed(p) \/ PollHands(p) \/ PollEnds(p)

Spec == Init /\ [][Next]_vars

(* Timers fire, every await ends (the aborts see to the releases'), and a  *)
(* node asked again and again lists the new signatures at last.            *)
Fairness ==
    /\ \A b \in Burns : WF_vars(Route(b))
    /\ \A p \in Polls :
         /\ WF_vars(PollBegin(p))
         /\ SF_vars(PollListed(p))
         /\ WF_vars(PollParsed(p))
         /\ WF_vars(PollHands(p))
         /\ WF_vars(PollEnds(p))

FairSpec == Spec /\ Fairness

(* A burn is paid for a second time only after a release of it was given   *)
(* up with its outcome unknown (an abort, a lost answer) or forgotten by a *)
(* restart, and once for each of these: webhook, overlapping polls and     *)
(* repeated listings alone never pay twice.                                *)
PaidOncePerDoubt == \A b \in Burns : Paid(b) <= 1 + doubts[b]

(* The audit trail tells the truth: a record that names a method was paid  *)
(* by it, one that is pending was not, doubts aside, and what was seen is   *)
(* recorded or being released.                                             *)
RecordTells ==
    \A b \in Burns :
       /\ releases[b] # NoRecord =>
            CASE releases[b].method = "paul" -> paul[b] > 0
              [] releases[b].method = "direct" -> direct[b] > 0
              [] OTHER -> Paid(b) <= doubts[b]
       /\ b \notin seen => Paid(b) <= doubts[b]
       /\ Status.seenSetSize = Status.total + Cardinality({c \in Burns : ~Handled(c)})

(* The poll channel takes up what the webhook never names: every final     *)
(* burn reaches the router, whatever polls overlap and whichever fail,     *)
(* with three exceptions: a start skipped it, it failed to parse as the    *)
(* oldest of its batch, or the page a poll was given, the newest PageLimit *)
(* signatures, ended above it (solana-cea.ts:139, 174).                    *)
PollTakesUp == \A b \in Burns : b <= final ~> b \in seen \cup passed \cup cut

====
