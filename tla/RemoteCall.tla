----------------------------- MODULE RemoteCall -----------------------------
(***************************************************************************)
(* What the tools may assume of one operation on the Sheets API: it has    *)
(* taken effect if it is reported done, possibly several times while its   *)
(* caller waited, and it never takes effect once its caller has been given *)
(* an answer. Only an operation whose caller was left without one may      *)
(* still take effect, and then once at most.                               *)
(***************************************************************************)
EXTENDS Integers

CONSTANTS Ops,         \* operations, each run once
          MaxAttempts  \* how often one may take effect

VARIABLES status,  \* how each operation stands with its caller
          effects  \* how often it has taken effect

vars == <<status, effects>>

Init ==
  /\ status = [o \in Ops |-> "new"]
  /\ effects = [o \in Ops |-> 0]

Become(o, s) == status' = [status EXCEPT ![o] = s]

TakesEffect(o) ==
  /\ effects[o] < MaxAttempts
  /\ effects' = [effects EXCEPT ![o] = effects[o] + 1]

Open(o) == status[o] = "new" /\ Become(o, "waiting") /\ UNCHANGED effects

Effect(o) == status[o] = "waiting" /\ TakesEffect(o) /\ UNCHANGED status

Done(o) ==
  status[o] = "waiting" /\ effects[o] > 0 /\ Become(o, "done") /\ UNCHANGED effects

\* An error promises nothing about what has been: an attempt before the one
\* that was refused may have taken effect.
Refused(o) == status[o] = "waiting" /\ Become(o, "error") /\ UNCHANGED effects

\* The caller is gone, with a request still on its way ("loose") or not.
Abandoned(o) ==
  status[o] = "waiting" /\ (Become(o, "loose") \/ Become(o, "closed")) /\ UNCHANGED effects

LateEffect(o) == status[o] = "loose" /\ TakesEffect(o) /\ Become(o, "closed")

NoEffect(o) == status[o] = "loose" /\ Become(o, "closed") /\ UNCHANGED effects

\* A crash abandons every operation at once.
Crash ==
  /\ \A o \in Ops : status'[o] # status[o] =>
       status[o] = "waiting" /\ status'[o] \in {"loose", "closed"}
  /\ status' \in [Ops -> {"new", "waiting", "done", "error", "loose", "closed"}]
  /\ UNCHANGED effects

Next ==
  \/ \E o \in Ops : \/ Open(o) \/ Effect(o) \/ Done(o) \/ Refused(o)
                    \/ Abandoned(o) \/ LateEffect(o) \/ NoEffect(o)
  \/ Crash

Spec == Init /\ [][Next]_vars
=============================================================================
