---- MODULE Theater ----
(***************************************************************************)
(* The public terminal of the BTCSOQ line (relayer/src/btcsoq/theater.ts): *)
(* the paid programs a visitor starts - an ask, a duel, a race - and the   *)
(* heartbeat that runs them on its own clock, all of them on the gateway's *)
(* one payment channel.                                                    *)
(*                                                                         *)
(* An ask pays through payInvoice; a race keeps the channel's state itself *)
(* from lap to lap and pays with one request, on the assumption that       *)
(* nobody else writes on the channel meanwhile.  What is streamed, taped   *)
(* or rendered is left out, and so is the cooldown of one address.         *)
(***************************************************************************)
EXTENDS PaymentRail

CONSTANTS
    Visitors,       \* visitors of the terminal
    Turns,          \* asks of a duel
    Laps,           \* laps of a race
    Cap             \* BUDGETS: programs started a day; a behaviour is one day

ASSUME TheaterAssumption ==
    /\ Payers = Visitors \cup {"heartbeat"} /\ "heartbeat" \notin Visitors
    /\ {Turns, Laps} \subseteq Nat \ {0}
    /\ Cap \in [{"ask", "duel", "race"} -> Nat]

VARIABLES
    act,            \* the program each payer has under way
    used,           \* `daily': programs started today
    settled,        \* session.shorsSettled
    demos           \* heartbeatN, modulo HEARTBEAT_RACE_EVERY

sessionVars == <<used, settled, demos>>
theaterVars == <<railVars, act, sessionVars>>

Programs == {"ask", "duel", "race"}
AskPrice == 1
LapPrice == 2
RaceEvery == 2

Off == [at |-> "off"]

TheaterInit ==
    /\ RailInit
    /\ act = [p \in Payers |-> Off]
    /\ used = [r \in Programs |-> 0]
    /\ settled = 0
    /\ demos = 0

Acts(p, state) == act' = [act EXCEPT ![p] = state]

-----------------------------------------------------------------------------
(* What starts a program                                                   *)

Opening(program) ==
    [at |-> IF program = "race" THEN "channel" ELSE "turn",
     left |-> IF program = "race" THEN Laps ELSE IF program = "duel" THEN Turns ELSE 1]

TakeBudget(program) ==
    /\ used[program] < Cap[program]
    /\ used' = [used EXCEPT ![program] = @ + 1]

RecordSettle(amount) == settled' = settled + amount

(* gate: the day's budget is taken before the request is looked at; a      *)
(* question nobody can read ends it there.                                 *)
VisitorStarts(p, program) ==
    /\ act[p] = Off
    /\ TakeBudget(program)
    /\ \/ Acts(p, Opening(program))
       \/ program # "race" /\ UNCHANGED act
    /\ UNCHANGED <<railVars, settled, demos>>

(* Every so often the demonstration is the race.                           *)
HeartbeatStarts ==
    /\ act["heartbeat"] = Off
    /\ demos' = (demos + 1) % RaceEvery
    /\ Acts("heartbeat", Opening(IF demos' = 0 THEN "race" ELSE "ask"))
    /\ UNCHANGED <<railVars, used, settled>>

-----------------------------------------------------------------------------
(* performPaidAsk                                                          *)

Challenged(p) ==
    /\ act[p].at = "turn"
    /\ Issue(AskPrice, p)
    /\ PayBegins(p, Issued)
    /\ Acts(p, [at |-> "paying", left |-> act[p].left, invoice |-> Issued])
    /\ UNCHANGED <<faults, sessionVars>>

Redeems(p) == Acts(p, [act[p] EXCEPT !.at = "redeem"])

TurnPaid(p) ==
    /\ act[p].at = "paying"
    /\ \/ FoundPaid(p) /\ Redeems(p)
       \/ /\ PostAnswered(p)
          /\ IF Accepts(call[p].post) THEN Redeems(p) ELSE Acts(p, Off)
    /\ UNCHANGED sessionVars

(* recordSettle, once the answer is there.                                 *)
Answered(p) ==
    /\ act[p].at = "redeem"
    /\ Redeem(act[p].invoice)
    /\ RecordSettle(AskPrice)
    /\ Acts(p, IF act[p].left = 1 THEN Off ELSE [at |-> "turn", left |-> act[p].left - 1])
    /\ UNCHANGED <<clientVars, late, faults, used, demos>>

-----------------------------------------------------------------------------
(* The race, and the heartbeat's                                           *)

RaceEntered(p) ==
    /\ act[p].at = "channel"
    /\ PayBegins(p, NoInvoice)
    /\ Acts(p, [act[p] EXCEPT !.at = "view"])
    /\ UNCHANGED <<invoices, faults, sessionVars>>

(* ensureChannel, then channelView.                                        *)
RaceViewed(p) ==
    /\ act[p].at = "view"
    /\ call[p].at = "reading"
    /\ LET c == call[p].channel IN
         Acts(p, [at |-> "lap", left |-> act[p].left, channel |-> c, view |-> View(c)])
    /\ Calling(p, Calm)
    /\ UNCHANGED <<lspVars, cached, saved, late, faults, sessionVars>>

(* A lap under way, on the view it was posted from.                        *)
Lap(p, at, i, view) ==
    [at |-> at, left |-> act[p].left, invoice |-> i, channel |-> act[p].channel, view |-> view]

(* payInvoiceFast: one request, from the view the race keeps.              *)
LapPosts(p, i, view) ==
    /\ Posting(p, Post(i, LapPrice, act[p].channel, view))
    /\ UNCHANGED <<channels, cached, saved, late, faults, sessionVars>>

LapInvoiced(p) ==
    /\ act[p].at = "lap"
    /\ Issue(LapPrice, p)
    /\ LapPosts(p, Issued, act[p].view)
    /\ Acts(p, Lap(p, "first", Issued, act[p].view))

(* Mutant: the view's balance is not kept.                                 *)
ViewAfterIndexOnly(p) == [act[p].view EXCEPT !.index = @ + 1]

ViewAfter(p) == [index |-> act[p].view.index + 1, peer |-> act[p].view.peer + LapPrice]

LapOver(p) ==
    IF act[p].left = 1 THEN Off
    ELSE [at |-> "lap", left |-> act[p].left - 1,
          channel |-> act[p].channel, view |-> ViewAfter(p)]

(* Mutant: the catch takes a rejected lap for a settled one.               *)
LapPaidAnyway(p) ==
    /\ act[p].at \in {"first", "again"}
    /\ PostAnswered(p)
    /\ RecordSettle(LapPrice)
    /\ Acts(p, LapOver(p))
    /\ UNCHANGED <<used, demos>>

LapPaid(p) ==
    /\ act[p].at \in {"first", "again"}
    /\ Accepts(call[p].post)
    /\ PostAnswered(p)
    /\ RecordSettle(LapPrice)
    /\ Acts(p, LapOver(p))
    /\ UNCHANGED <<used, demos>>

(* Mutant: a lap is tried until it is accepted.                            *)
CatchUntilAccepted(p) == Acts(p, [act[p] EXCEPT !.at = "reread"])

(* The first throw is caught; the second one ends the race.                *)
Catch(p) == Acts(p, IF act[p].at = "first" THEN [act[p] EXCEPT !.at = "reread"] ELSE Off)

LapThrows(p) ==
    /\ act[p].at \in {"first", "again"}
    /\ \/ ~Accepts(call[p].post) /\ PostAnswered(p)
       \/ PostThrows(p)
    /\ Catch(p)
    /\ UNCHANGED sessionVars

LapRereads(p) ==
    /\ act[p].at = "reread"
    /\ LET view == View(act[p].channel) IN
         /\ LapPosts(p, act[p].invoice, view)
         /\ Acts(p, Lap(p, "again", act[p].invoice, view))
    /\ UNCHANGED invoices

-----------------------------------------------------------------------------
(* Any other throw ends the program; a bound reached is one.               *)

Unanswered(p) ==
    /\ act[p].at \in {"turn", "redeem", "lap", "reread"}
    /\ \/ act[p].at \in {"turn", "lap"} /\ Len(invoices) = MaxInvoices /\ UNCHANGED <<lspVars, faults>>
       \/ Fault /\ UNCHANGED lspVars
       \/ Fault /\ act[p].at = "redeem" /\ Redeem(act[p].invoice)
    /\ UNCHANGED <<clientVars, late>>

ActThrows(p) ==
    /\ \/ Unanswered(p)
       \/ PayThrows(p)
       \/ act[p].at = "paying" /\ PostThrows(p)
    /\ Acts(p, Off)
    /\ UNCHANGED sessionVars

Restart ==
    /\ RailForgets
    /\ UNCHANGED invoices
    /\ act' = [p \in Payers |-> Off]
    /\ used' = [r \in Programs |-> 0]
    /\ settled' = 0
    /\ demos' = 0

-----------------------------------------------------------------------------
ActStep(p) ==
    \/ RailStep(p) /\ UNCHANGED <<act, sessionVars>>
    \/ Challenged(p) \/ TurnPaid(p) \/ Answered(p)
    \/ RaceEntered(p) \/ RaceViewed(p) \/ LapInvoiced(p) \/ LapPaid(p) \/ LapThrows(p)
    \/ LapRereads(p)
    \/ ActThrows(p)

TheaterNext ==
    \/ \E v \in Visitors, r \in Programs : VisitorStarts(v, r)
    \/ \E p \in Payers : ActStep(p)
    \/ \E i \in 1 .. MaxInvoices : Expire(i) /\ UNCHANGED <<clientVars, late, faults, act, sessionVars>>
    \/ LateLands /\ UNCHANGED <<act, sessionVars>>
    \/ HeartbeatStarts \/ Restart

(* A request ends, answered or timed out; the clock starts demonstrations. *)
TheaterFairness ==
    /\ \A p \in Payers : WF_theaterVars(ActStep(p))
    /\ WF_theaterVars(HeartbeatStarts)

TheaterSpec == TheaterInit /\ [][TheaterNext]_theaterVars /\ TheaterFairness

-----------------------------------------------------------------------------

PaidInvoices == {i \in DOMAIN invoices : Status(i) \in {"paid", "redeemed"}}

Paid == SumFunctionOnSet(Prices, PaidInvoices)

(* The session's meter (theater.ts:162): it never tells more than the rail *)
(* was paid, and when nothing was lost and nothing is under way it tells   *)
(* exactly that, whoever else wrote on the channel during a race.          *)
MeterIsPaid ==
    /\ settled <= Paid
    /\ faults = 0 /\ (\A p \in Payers : act[p] = Off) => settled = Paid

(* The demonstration never stops (theater.ts:20): neither a rejected nor   *)
(* a lost lap, nor what visitors do, keeps the heartbeat from ending.      *)
HeartbeatGoesOn == []<>(act["heartbeat"] = Off)
====
