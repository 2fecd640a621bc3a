---- MODULE PaulService ----
(***************************************************************************)
(* What the lane manager promises to those who ask it for a release, and   *)
(* how the router's releasePAUL waits for it (relayer/lane-manager.py, the *)
(* POST /bridge handler; cea/router.ts, releasePAUL).                      *)
(*                                                                         *)
(* The server is single-threaded: requests wait in the order they came and *)
(* each is served to its end, whether or not its caller still listens.     *)
(* Serving a request pays at most once; two requests for one burn are two  *)
(* requests.  LaneManager is shown to implement this.                      *)
(***************************************************************************)
EXTENDS Naturals, Sequences

CONSTANTS
    Burns,          \* burn ids the callers name
    NoRequest       \* `serving' of an idle server

ASSUME PaulAssumption == NoRequest \notin [burn : Burns, live : BOOLEAN, paid : BOOLEAN]

VARIABLES
    call,           \* the caller's side: idle, asked, ok, error
    waiting,        \* connections not yet accepted, oldest first
    serving,        \* the request in do_bridge_release, and whether it paid
    paul            \* history: how often each burn was paid from a lane

paulVars == <<call, waiting, serving, paul>>

Request(b) == [burn |-> b, live |-> TRUE]

PaulInit ==
    /\ call = [b \in Burns |-> "idle"]
    /\ waiting = <<>>
    /\ serving = NoRequest
    /\ paul = [b \in Burns |-> 0]

(* A caller posts; its connection may be refused.                          *)
Ask(b) ==
    /\ call[b] = "idle"
    /\ \/ /\ call' = [call EXCEPT ![b] = "asked"]
          /\ waiting' = Append(waiting, Request(b))
       \/ /\ call' = [call EXCEPT ![b] = "error"]
          /\ UNCHANGED waiting
    /\ UNCHANGED <<serving, paul>>

Serve ==
    /\ serving = NoRequest
    /\ waiting # <<>>
    /\ serving' = [burn |-> Head(waiting).burn, live |-> Head(waiting).live,
                   paid |-> FALSE]
    /\ waiting' = Tail(waiting)
    /\ UNCHANGED <<call, paul>>

Pay ==
    /\ serving # NoRequest
    /\ ~serving.paid
    /\ serving' = [serving EXCEPT !.paid = TRUE]
    /\ paul' = [paul EXCEPT ![serving.burn] = @ + 1]
    /\ UNCHANGED <<call, waiting>>

Reply(outcome) ==
    /\ call' = IF serving.live THEN [call EXCEPT ![serving.burn] = outcome] ELSE call
    /\ serving' = NoRequest
    /\ UNCHANGED <<waiting, paul>>

(* An answer of ok names a transaction that was sent ...                   *)
AnswerOk == serving # NoRequest /\ serving.paid /\ Reply("ok")

(* ... an error does not say that none was.                                *)
AnswerError == serving # NoRequest /\ Reply("error")

(* A caller in H stops waiting; what it asked is served all the same.      *)
HangUp(H) ==
    /\ call' = [b \in Burns |-> IF b \in H THEN "idle" ELSE call[b]]
    /\ waiting' = [i \in DOMAIN waiting |->
                    [waiting[i] EXCEPT !.live = @ /\ waiting[i].burn \notin H]]
    /\ serving' = IF serving = NoRequest THEN NoRequest
                  ELSE [serving EXCEPT !.live = @ /\ serving.burn \notin H]
    /\ UNCHANGED paul

(* The caller has its answer.                                              *)
Collect(b) ==
    /\ call[b] \in {"ok", "error"}
    /\ call' = [call EXCEPT ![b] = "idle"]
    /\ UNCHANGED <<waiting, serving, paul>>

(* The server's process ends: every open connection fails.                 *)
Vanish ==
    /\ call' = [b \in Burns |-> IF call[b] = "asked" THEN "error" ELSE call[b]]
    /\ waiting' = <<>>
    /\ serving' = NoRequest
    /\ UNCHANGED paul

PaulNext ==
    \/ \E b \in Burns : Ask(b) \/ Collect(b) \/ HangUp({b})
    \/ Serve \/ Pay \/ AnswerOk \/ AnswerError \/ Vanish

PaulSpec == PaulInit /\ [][PaulNext]_paulVars
====
