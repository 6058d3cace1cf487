---------------------------- MODULE SheetsClient ----------------------------
(***************************************************************************)
(* SheetsClient._run (sheets/client.py): every operation on the Sheets API *)
(* runs in a worker thread under a retry loop. The coroutine that awaits   *)
(* it can be cancelled and the process can stop; neither calls back the    *)
(* request already on its way, which the API may carry out late.           *)
(*                                                                         *)
(* The API itself is external: an attempt reaches it, may take effect, and *)
(* is answered with some status. What it has answered it has settled.      *)
(***************************************************************************)
EXTENDS Integers, FiniteSets

CONSTANTS Ops,         \* operations, each run once
          MaxAttempts  \* _MAX_ATTEMPTS

ASSUME AttemptAssumption == MaxAttempts \in Nat \ {0}

Attempts == 1..MaxAttempts

Retryable == {"429", "5xx"}
Statuses == Retryable \cup {"200", "400", "401", "403", "404", "other"}

VARIABLES phase,    \* where the operation's coroutine is
          attempt,  \* the attempt it is making or made last
          request,  \* request[o][a]: what became of attempt a at the API
          outcome   \* how _run ended

vars == <<phase, attempt, request, outcome>>

\* How _run ends when the API has answered, and when it has not.
AnswerOutcomes == {"ok", "rate_limited", "upstream", "permission_denied", "not_found",
                   "tab_not_found", "bad_request"}
OtherOutcomes == {"raised", "cancelled", "crashed"}

TypeOK ==
  /\ phase \in [Ops -> {"idle", "awaiting", "sleeping", "over"}]
  /\ attempt \in [Ops -> 0..MaxAttempts]
  /\ request \in [Ops -> [Attempts -> {"unsent", "pending", "applied", "settled"}]]
  /\ outcome \in [Ops -> {"none"} \cup AnswerOutcomes \cup OtherOutcomes]

Init ==
  /\ phase = [o \in Ops |-> "idle"]
  /\ attempt = [o \in Ops |-> 0]
  /\ request = [o \in Ops |-> [a \in Attempts |-> "unsent"]]
  /\ outcome = [o \in Ops |-> "none"]

-----------------------------------------------------------------------------
(* The retry loop.                                                         *)

\* Fault: a repeated attempt is not counted.
SendUncounted(o) ==
  /\ phase[o] \in {"idle", "sleeping"}
  /\ attempt' = [attempt EXCEPT ![o] = 1]
  /\ request' = [request EXCEPT ![o][1] = "pending"]
  /\ phase' = [phase EXCEPT ![o] = "awaiting"]
  /\ UNCHANGED outcome

\* The next attempt is handed to a worker thread.
Send(o) ==
  /\ phase[o] \in {"idle", "sleeping"}
  /\ attempt' = [attempt EXCEPT ![o] = attempt[o] + 1]
  /\ request' = [request EXCEPT ![o][attempt[o] + 1] = "pending"]
  /\ phase' = [phase EXCEPT ![o] = "awaiting"]
  /\ UNCHANGED outcome

End(o, how) ==
  /\ phase' = [phase EXCEPT ![o] = "over"]
  /\ outcome' = [outcome EXCEPT ![o] = how]

\* The API answers the attempt in flight: 200 only when it took effect; an
\* answer other than 200 or 5xx to this attempt means that it did not.
Answered(o, status) ==
  LET a == attempt[o]
  IN /\ phase[o] = "awaiting"
     /\ status = "200" => request[o][a] = "applied"
     /\ status \notin {"200", "5xx"} => request[o][a] = "pending"
     /\ request' = [request EXCEPT ![o][a] = IF @ = "pending" THEN "settled" ELSE @]

Return(o) ==
  /\ Answered(o, "200")
  /\ End(o, "ok")
  /\ UNCHANGED attempt

\* _translate: what a status that is never retried may be reported as. A 400
\* is about a range if the operation names one, and about its tab if the text
\* of the answer says so.
Translations(status) ==
  CASE status \in {"401", "403"} -> {"permission_denied"}
    [] status = "404" -> {"not_found"}
    [] status = "400" -> {"tab_not_found", "bad_request", "upstream"}
    [] OTHER -> {"upstream"}

Reject(o) ==
  /\ \E status \in Statuses \ (Retryable \cup {"200"}) :
       /\ Answered(o, status)
       /\ \E how \in Translations(status) : End(o, how)
  /\ UNCHANGED attempt

\* Fault: one attempt too many.
BackoffOnceMore(o) ==
  /\ attempt[o] <= MaxAttempts
  /\ \E status \in Retryable : Answered(o, status)
  /\ phase' = [phase EXCEPT ![o] = "sleeping"]
  /\ UNCHANGED <<attempt, outcome>>

Backoff(o) ==
  /\ attempt[o] < MaxAttempts
  /\ \E status \in Retryable : Answered(o, status)
  /\ phase' = [phase EXCEPT ![o] = "sleeping"]
  /\ UNCHANGED <<attempt, outcome>>

GiveUp(o) ==
  /\ attempt[o] = MaxAttempts
  /\ \E status \in Retryable :
       /\ Answered(o, status)
       /\ End(o, IF status = "429" THEN "rate_limited" ELSE "upstream")
  /\ UNCHANGED attempt

\* Fault: a broken connection is retried like a 5xx.
RaiseRetried(o) ==
  /\ phase[o] = "awaiting"
  /\ IF attempt[o] < MaxAttempts
     THEN phase' = [phase EXCEPT ![o] = "sleeping"] /\ UNCHANGED outcome
     ELSE End(o, "raised")
  /\ UNCHANGED <<attempt, request>>

\* Fault: a broken connection is reported like an answer of the API.
RaiseAsAnswer(o) ==
  /\ phase[o] = "awaiting"
  /\ End(o, "upstream")
  /\ UNCHANGED <<attempt, request>>

\* An exception that is no HttpError (a timeout, a broken connection) leaves
\* the loop at once, with the request possibly still on its way.
Raise(o) ==
  /\ phase[o] = "awaiting"
  /\ End(o, "raised")
  /\ UNCHANGED <<attempt, request>>

-----------------------------------------------------------------------------
(* What happens around the loop.                                           *)

\* The coroutine is cancelled while it awaits the thread or sleeps.
Cancel(o) ==
  /\ phase[o] \in {"awaiting", "sleeping"}
  /\ End(o, "cancelled")
  /\ UNCHANGED <<attempt, request>>

Running(o) == phase[o] \in {"awaiting", "sleeping"}

\* The process stops; nothing of an operation survives it but its requests.
Crash ==
  /\ \E o \in Ops : Running(o)
  /\ phase' = [o \in Ops |-> IF Running(o) THEN "over" ELSE phase[o]]
  /\ outcome' = [o \in Ops |-> IF Running(o) THEN "crashed" ELSE outcome[o]]
  /\ UNCHANGED <<attempt, request>>

\* The API carries out a request, or never will.
Apply(o, a) ==
  /\ request[o][a] = "pending"
  /\ request' = [request EXCEPT ![o][a] = "applied"]
  /\ UNCHANGED <<phase, attempt, outcome>>

Vanish(o, a) ==
  /\ phase[o] = "over"
  /\ request[o][a] = "pending"
  /\ request' = [request EXCEPT ![o][a] = "settled"]
  /\ UNCHANGED <<phase, attempt, outcome>>

-----------------------------------------------------------------------------
Attempt(o) == Return(o) \/ Reject(o) \/ Backoff(o) \/ GiveUp(o) \/ Raise(o)

Api(o) == \E a \in Attempts : Apply(o, a) \/ Vanish(o, a)

Quiet ==
  /\ \A o \in Ops : phase[o] = "over" /\ \A a \in Attempts : request[o][a] # "pending"
  /\ UNCHANGED vars

Next ==
  \/ \E o \in Ops : Send(o) \/ Attempt(o) \/ Cancel(o) \/ Api(o)
  \/ Crash
  \/ Quiet

Spec == Init /\ [][Next]_vars

\* Every attempt ends (the transport has a timeout) and every sleep is over
\* some time; that an operation starts, is cancelled or is carried out by the
\* API is nobody's duty.
Fairness ==
  \A o \in Ops : WF_vars(Attempt(o)) /\ WF_vars(phase[o] = "sleeping" /\ Send(o))

FairSpec == Spec /\ Fairness

-----------------------------------------------------------------------------
(* Properties.                                                             *)

Pending(o) == {a \in Attempts : request[o][a] = "pending"}
Applied(o) == {a \in Attempts : request[o][a] = "applied"}

\* Because only an answered attempt is retried, the loop never has two requests
\* on their way, and an answer it passes on leaves none: no earlier attempt can
\* overwrite the sheet behind the back of a caller who was answered.
AnswersAreFinal ==
  \A o \in Ops :
    /\ Cardinality(Pending(o)) <= 1
    /\ outcome[o] \in AnswerOutcomes => Pending(o) = {}
    /\ phase[o] = "sleeping" => Pending(o) = {}

\* Every operation that starts is over some time.
EveryOperationEnds == \A o \in Ops : (phase[o] = "awaiting") ~> (phase[o] = "over")

\* The loop gives the tools the contract they are written against.
StatusOf(o) ==
  IF phase[o] = "idle" THEN "new"
  ELSE IF phase[o] # "over" THEN "waiting"
  ELSE IF outcome[o] = "ok" THEN "done"
  ELSE IF outcome[o] \in AnswerOutcomes THEN "error"
  ELSE IF Pending(o) # {} THEN "loose"
  ELSE "closed"

Contract == INSTANCE RemoteCall WITH
  status <- [o \in Ops |-> StatusOf(o)],
  effects <- [o \in Ops |-> Cardinality(Applied(o))]

KeepsTheContract == Contract!Spec
=============================================================================
