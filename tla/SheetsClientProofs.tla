------------------------- MODULE SheetsClientProofs -------------------------
(***************************************************************************)
(* Proofs about SheetsClient, for any number of operations and attempts:   *)
(* its invariants, and that it keeps the contract of RemoteCall.           *)
(***************************************************************************)
EXTENDS SheetsClient, FiniteSetTheorems, TLAPS

\* Where each request can be, given where its operation is.
RequestFine(o) ==
  /\ phase[o] = "idle" => attempt[o] = 0
  /\ phase[o] \in {"awaiting", "sleeping"} => attempt[o] > 0
  /\ phase[o] = "sleeping" => attempt[o] < MaxAttempts
  /\ phase[o] = "over" <=> outcome[o] # "none"
  /\ \A a \in Attempts :
       /\ a > attempt[o] => request[o][a] = "unsent"
       /\ request[o][a] = "pending" =>
            /\ a = attempt[o]
            /\ phase[o] \in {"awaiting", "over"}
            /\ outcome[o] \notin AnswerOutcomes
  /\ outcome[o] = "ok" => \E a \in Attempts : request[o][a] = "applied"

RequestsOK == \A o \in Ops : RequestFine(o)

IInv == TypeOK /\ RequestsOK

\* What the proofs need to know of the outcomes.
LEMMA OutcomeNames ==
  /\ {"ok", "rate_limited", "upstream"} \subseteq AnswerOutcomes
  /\ \A status : Translations(status) \subseteq AnswerOutcomes \ {"ok"}
  /\ OtherOutcomes = {"raised", "cancelled", "crashed"}
  /\ OtherOutcomes \cap AnswerOutcomes = {}
  /\ "none" \notin AnswerOutcomes \cup OtherOutcomes
BY DEF AnswerOutcomes, OtherOutcomes, Translations

LEMMA InitIInv == Init => IInv
BY AttemptAssumption, OutcomeNames DEF Init, IInv, TypeOK, RequestsOK, RequestFine, Attempts

\* What an answer does to the records of the API: it settles the attempt.
LEMMA AnsweredSettles ==
  ASSUME IInv, NEW o \in Ops, NEW status, Answered(o, status)
  PROVE  /\ phase[o] = "awaiting" /\ attempt[o] \in Attempts
         /\ request' \in [Ops -> [Attempts -> {"unsent", "pending", "applied", "settled"}]]
         /\ \A p \in Ops \ {o} : request'[p] = request[p]
         /\ \A a \in Attempts : request'[o][a] # "pending"
         /\ \A a \in Attempts : request'[o][a] = "applied" <=> request[o][a] = "applied"
         /\ \A a \in Attempts : a > attempt[o] => request'[o][a] = "unsent"
<1> USE DEF IInv, TypeOK, RequestsOK, RequestFine
<1>1. phase[o] = "awaiting" /\ attempt[o] \in Attempts
  BY AttemptAssumption DEF Answered, Attempts
<1>2. request' = [request EXCEPT ![o][attempt[o]] =
                    IF request[o][attempt[o]] = "pending" THEN "settled"
                    ELSE request[o][attempt[o]]]
  BY DEF Answered
<1>3. \A a \in Attempts \ {attempt[o]} : request'[o][a] = request[o][a]
  BY <1>1, <1>2
<1>4. request'[o][attempt[o]] = IF request[o][attempt[o]] = "pending" THEN "settled"
                                ELSE request[o][attempt[o]]
  BY <1>1, <1>2
<1>5. request' \in [Ops -> [Attempts -> {"unsent", "pending", "applied", "settled"}]]
  BY <1>1, <1>2
<1>6. \A p \in Ops \ {o} : request'[p] = request[p]
  BY <1>2
<1>7. \A a \in Attempts : request'[o][a] # "pending"
  <2> SUFFICES ASSUME NEW a \in Attempts PROVE request'[o][a] # "pending"
    OBVIOUS
  <2>1. CASE a = attempt[o]
    BY <2>1, <1>4
  <2>2. CASE a # attempt[o]
    BY <2>2, <1>3
  <2> QED BY <2>1, <2>2
<1>8. \A a \in Attempts : request'[o][a] = "applied" <=> request[o][a] = "applied"
  <2> SUFFICES ASSUME NEW a \in Attempts
               PROVE  request'[o][a] = "applied" <=> request[o][a] = "applied"
    OBVIOUS
  <2>1. CASE a = attempt[o]
    BY <2>1, <1>4
  <2>2. CASE a # attempt[o]
    BY <2>2, <1>3
  <2> QED BY <2>1, <2>2
<1>9. \A a \in Attempts : a > attempt[o] => request'[o][a] = "unsent"
  BY <1>1, <1>3, AttemptAssumption DEF Attempts
<1> QED BY <1>1, <1>5, <1>6, <1>7, <1>8, <1>9

\* An answer that is passed on leaves the operation over, with no request.
LEMMA EndOnAnswer ==
  ASSUME IInv, NEW o \in Ops, NEW status, Answered(o, status),
         NEW how \in AnswerOutcomes, End(o, how), attempt' = attempt,
         how = "ok" => \E a \in Attempts : request[o][a] = "applied"
  PROVE  IInv'
<1>1. /\ phase' = [phase EXCEPT ![o] = "over"] /\ outcome' = [outcome EXCEPT ![o] = how]
      /\ how # "none"
  BY OutcomeNames DEF End
<1>2. TypeOK'
  BY <1>1, AnsweredSettles DEF IInv, TypeOK
<1>3. RequestFine(o)'
  <2>1. phase'[o] = "over" /\ outcome'[o] = how /\ attempt'[o] \in Int
    BY <1>1, <1>2 DEF IInv, TypeOK
  <2>2. \A a \in Attempts : a > attempt'[o] => request'[o][a] = "unsent"
    BY AnsweredSettles
  <2>3. \A a \in Attempts : request'[o][a] # "pending"
    BY AnsweredSettles
  <2>4. how = "ok" => \E a \in Attempts : request'[o][a] = "applied"
    BY AnsweredSettles
  <2> QED BY <1>1, <2>1, <2>2, <2>3, <2>4 DEF RequestFine
<1>4. ASSUME NEW p \in Ops \ {o}
      PROVE  RequestFine(p)'
  <2>1. /\ request'[p] = request[p] /\ phase'[p] = phase[p]
        /\ attempt'[p] = attempt[p] /\ outcome'[p] = outcome[p]
    BY <1>1, AnsweredSettles DEF IInv, TypeOK
  <2> QED BY <2>1 DEF IInv, RequestsOK, RequestFine
<1> QED BY <1>2, <1>3, <1>4 DEF IInv, RequestsOK

LEMMA NextIInv == IInv /\ [Next]_vars => IInv'
<1> SUFFICES ASSUME IInv, [Next]_vars
             PROVE  IInv'
  OBVIOUS
<1> USE AttemptAssumption, OutcomeNames DEF IInv, TypeOK, RequestsOK, RequestFine, Attempts
<1>1. ASSUME NEW o \in Ops, Send(o)
      PROVE  IInv'
  <2>1. attempt[o] + 1 \in Attempts
    BY <1>1 DEF Send
  <2>2. \A p \in Ops \ {o} : /\ request'[p] = request[p] /\ phase'[p] = phase[p]
                             /\ attempt'[p] = attempt[p] /\ outcome'[p] = outcome[p]
    BY <1>1 DEF Send
  <2>3. /\ \A a \in Attempts \ {attempt[o] + 1} : request'[o][a] = request[o][a]
        /\ request'[o][attempt[o] + 1] = "pending"
        /\ request' \in [Ops -> [Attempts -> {"unsent", "pending", "applied", "settled"}]]
    BY <1>1, <2>1 DEF Send
  <2>4. phase'[o] = "awaiting" /\ attempt'[o] = attempt[o] + 1 /\ outcome'[o] = outcome[o]
    BY <1>1 DEF Send
  <2>5. outcome[o] = "none" /\ outcome'[o] = "none"
    BY <1>1, <2>4 DEF Send
  <2>6. TypeOK'
    BY <1>1, <2>1, <2>3 DEF Send
  <2>7. \A a \in Attempts : request[o][a] # "pending"
    BY <1>1 DEF Send
  <2>8. \A a \in Attempts :
          /\ a > attempt'[o] => request'[o][a] = "unsent"
          /\ request'[o][a] = "pending" => a = attempt'[o]
    BY <2>1, <2>3, <2>4, <2>7
  <2>9. RequestsOK'
    BY <2>1, <2>2, <2>4, <2>5, <2>8
  <2> QED BY <2>6, <2>9
<1>2. ASSUME NEW o \in Ops, Return(o)
      PROVE  IInv'
  <2>1. request[o][attempt[o]] = "applied" /\ attempt[o] \in Attempts
    BY <1>2, AnsweredSettles DEF Return, Answered
  <2>2. \E a \in Attempts : request[o][a] = "applied"
    BY <2>1
  <2>3. Answered(o, "200") /\ End(o, "ok") /\ attempt' = attempt
    BY <1>2 DEF Return
  <2> QED BY <2>2, <2>3, OutcomeNames, EndOnAnswer
<1>3. ASSUME NEW o \in Ops, Reject(o)
      PROVE  IInv'
  <2>1. PICK status \in Statuses \ (Retryable \cup {"200"}) :
               Answered(o, status) /\ \E how \in Translations(status) : End(o, how)
    BY <1>3 DEF Reject
  <2>2. PICK how \in Translations(status) : End(o, how)
    BY <2>1
  <2>3. how \in AnswerOutcomes \ {"ok"}
    BY <2>2, OutcomeNames
  <2>4. attempt' = attempt
    BY <1>3 DEF Reject
  <2> QED BY <2>1, <2>2, <2>3, <2>4, EndOnAnswer
<1>4. ASSUME NEW o \in Ops, Backoff(o)
      PROVE  IInv'
  <2>1. PICK status \in Retryable : Answered(o, status)
    BY <1>4 DEF Backoff
  <2> QED BY <1>4, <2>1, AnsweredSettles DEF Backoff
<1>5. ASSUME NEW o \in Ops, GiveUp(o)
      PROVE  IInv'
  <2> DEFINE told(status) == IF status = "429" THEN "rate_limited" ELSE "upstream"
  <2>1. PICK status \in Retryable : Answered(o, status) /\ End(o, told(status))
    BY <1>5 DEF GiveUp
  <2>2. told(status) \in AnswerOutcomes \ {"ok"}
    BY OutcomeNames
  <2>3. attempt' = attempt
    BY <1>5 DEF GiveUp
  <2> HIDE DEF told
  <2> QED BY <2>1, <2>2, <2>3, EndOnAnswer
<1>6. ASSUME NEW o \in Ops, Raise(o)
      PROVE  IInv'
  BY <1>6 DEF Raise, End
<1>7. ASSUME NEW o \in Ops, Cancel(o)
      PROVE  IInv'
  BY <1>7 DEF Cancel, End
<1>8. ASSUME Crash
      PROVE  IInv'
  BY <1>8 DEF Crash, Running
<1>9. ASSUME NEW o \in Ops, NEW a \in Attempts, Apply(o, a)
      PROVE  IInv'
  BY <1>9 DEF Apply
<1>10. ASSUME NEW o \in Ops, NEW a \in Attempts, Vanish(o, a)
       PROVE  IInv'
  BY <1>10 DEF Vanish
<1>11. CASE Quiet \/ UNCHANGED vars
  BY <1>11 DEF Quiet, vars
<1> QED
  BY <1>1, <1>2, <1>3, <1>4, <1>5, <1>6, <1>7, <1>8, <1>9, <1>10, <1>11
  DEF Next, Attempt, Api

LEMMA Invariance == Spec => []IInv
BY InitIInv, NextIInv, PTL DEF Spec

\* Every variable keeps its type.
THEOREM ClientTypeCorrect == Spec => []TypeOK
<1>1. IInv => TypeOK
  BY DEF IInv
<1> QED BY <1>1, Invariance, PTL

\* At most one request of an operation is on its way, and none once the caller
\* has been given the API's answer.
THEOREM AnswersStayFinal == Spec => []AnswersAreFinal
<1>1. IInv => AnswersAreFinal
  <2> SUFFICES ASSUME IInv, NEW o \in Ops
               PROVE  /\ Cardinality(Pending(o)) <= 1
                      /\ outcome[o] \in AnswerOutcomes => Pending(o) = {}
                      /\ phase[o] = "sleeping" => Pending(o) = {}
    BY DEF AnswersAreFinal
  <2>1. Pending(o) \subseteq {attempt[o]}
    BY DEF IInv, RequestsOK, RequestFine, Pending
  <2>2. Pending(o) = {} \/ Pending(o) = {attempt[o]}
    BY <2>1
  <2>3. Cardinality(Pending(o)) <= 1
    BY <2>2, FS_EmptySet, FS_Singleton
  <2> QED BY <2>3 DEF IInv, RequestsOK, RequestFine, Pending
<1> QED BY <1>1, Invariance, PTL

-----------------------------------------------------------------------------
(* The contract: every step of the loop, its callers and the API is a step *)
(* of RemoteCall or leaves the contract's variables alone.                 *)

\* Nothing the contract can see of an operation has changed.
Untouched(o) == StatusOf(o)' = StatusOf(o) /\ Applied(o)' = Applied(o)

LEMMA SameRecords ==
  ASSUME NEW o \in Ops, phase'[o] = phase[o], outcome'[o] = outcome[o],
         request'[o] = request[o]
  PROVE  Untouched(o)
BY DEF Untouched, StatusOf, Applied, Pending

LEMMA AllUntouched ==
  ASSUME \A o \in Ops : Untouched(o)
  PROVE  UNCHANGED Contract!vars
BY DEF Untouched, Contract!vars

LEMMA SameEffects ==
  ASSUME \A o \in Ops : Applied(o)' = Applied(o)
  PROVE  UNCHANGED [o \in Ops |-> Cardinality(Applied(o))]
OBVIOUS

LEMMA BecomeBy ==
  ASSUME NEW o \in Ops, NEW s, StatusOf(o)' = s,
         \A p \in Ops \ {o} : StatusOf(p)' = StatusOf(p)
  PROVE  Contract!Become(o, s)
BY DEF Contract!Become

\* One more attempt applied is one more effect, within the bound.
LEMMA OneMoreEffect ==
  ASSUME NEW o \in Ops, NEW a \in Attempts, a \notin Applied(o),
         Applied(o)' = Applied(o) \cup {a},
         \A p \in Ops \ {o} : Applied(p)' = Applied(p)
  PROVE  Contract!TakesEffect(o)
<1>1. IsFiniteSet(Attempts) /\ Cardinality(Attempts) = MaxAttempts
  BY FS_Interval, AttemptAssumption DEF Attempts
<1>2. Applied(o) \subseteq Attempts
  BY DEF Applied
<1>3. IsFiniteSet(Applied(o)) /\ Cardinality(Applied(o)) \in Nat
  BY <1>1, <1>2, FS_Subset, FS_CardinalityType
<1>4. Cardinality(Applied(o) \cup {a}) = Cardinality(Applied(o)) + 1
  BY <1>3, FS_AddElement
<1>5. Cardinality(Applied(o) \cup {a}) <= MaxAttempts
  BY <1>1, <1>2, FS_Subset
<1>6. Cardinality(Applied(o)) < MaxAttempts
  BY <1>3, <1>4, <1>5, AttemptAssumption
<1>7. Cardinality(Applied(o)') = Cardinality(Applied(o)) + 1
  BY <1>4
<1> QED BY <1>6, <1>7 DEF Contract!TakesEffect

\* A step of one operation's loop leaves the others alone.
LEMMA OthersUntouched ==
  ASSUME NEW o \in Ops, IInv,
         \/ Send(o) \/ Attempt(o) \/ Cancel(o)
         \/ \E a \in Attempts : Apply(o, a) \/ Vanish(o, a)
  PROVE  \A p \in Ops \ {o} : Untouched(p)
<1> SUFFICES ASSUME NEW p \in Ops \ {o} PROVE Untouched(p)
  OBVIOUS
<1>1. phase'[p] = phase[p] /\ outcome'[p] = outcome[p] /\ request'[p] = request[p]
  BY DEF Send, Attempt, Return, Reject, Backoff, GiveUp, Raise, Cancel, Answered, End,
         Apply, Vanish, IInv, TypeOK
<1> QED BY <1>1, SameRecords

\* An answer changes nothing about what has been applied.
LEMMA AnswersApplyNothing ==
  ASSUME IInv, NEW o \in Ops, NEW status, Answered(o, status)
  PROVE  Applied(o)' = Applied(o) /\ Pending(o)' = {}
BY AnsweredSettles DEF Applied, Pending

LEMMA InitIsContract == Init => Contract!Init
<1> SUFFICES ASSUME Init PROVE Contract!Init
  OBVIOUS
<1>1. \A o \in Ops : StatusOf(o) = "new"
  BY DEF Init, StatusOf
<1>2. \A o \in Ops : Applied(o) = {}
  BY DEF Init, Applied
<1>3. \A o \in Ops : Cardinality(Applied(o)) = 0
  BY <1>2, FS_EmptySet
<1> QED BY <1>1, <1>3 DEF Contract!Init

LEMMA StepIsContract ==
  ASSUME IInv, [Next]_vars
  PROVE  [Contract!Next]_Contract!vars
<1> USE DEF Contract!Next
<1>1. ASSUME NEW o \in Ops, Send(o)
      PROVE  [Contract!Next]_Contract!vars
  <2>1. \A a \in Attempts : request[o][a] = "applied" <=> request'[o][a] = "applied"
    BY <1>1, AttemptAssumption DEF Send, IInv, TypeOK, RequestsOK, RequestFine, Attempts
  <2>2. \A p \in Ops : Applied(p)' = Applied(p)
    BY <1>1, <2>1, OthersUntouched DEF Applied, Untouched
  <2>3. StatusOf(o)' = "waiting"
    BY <1>1 DEF Send, StatusOf, IInv, TypeOK
  <2>4. CASE phase[o] = "idle"
    <3>1. StatusOf(o) = "new"
      BY <2>4 DEF StatusOf
    <3>2. Contract!Open(o)
      BY <1>1, <2>2, <2>3, <3>1, OthersUntouched, BecomeBy, SameEffects
      DEF Contract!Open, Untouched
    <3> QED BY <3>2
  <2>5. CASE phase[o] = "sleeping"
    <3>1. StatusOf(o) = "waiting"
      BY <2>5 DEF StatusOf
    <3> QED BY <1>1, <2>2, <2>3, <3>1, OthersUntouched, AllUntouched DEF Untouched
  <2> QED BY <1>1, <2>4, <2>5 DEF Send
<1>2. ASSUME NEW o \in Ops, Return(o)
      PROVE  Contract!Next
  <2>1. Answered(o, "200") /\ request[o][attempt[o]] = "applied"
    BY <1>2 DEF Return, Answered
  <2>2. attempt[o] \in Applied(o)
    BY <2>1, AnsweredSettles DEF Applied
  <2>3. IsFiniteSet(Applied(o))
    <3>1. IsFiniteSet(Attempts)
      BY FS_Interval, AttemptAssumption DEF Attempts
    <3>2. Applied(o) \subseteq Attempts
      BY DEF Applied
    <3> QED BY <3>1, <3>2, FS_Subset
  <2>4. Cardinality(Applied(o)) > 0
    BY <2>2, <2>3, FS_EmptySet, FS_CardinalityType
  <2>5. \A p \in Ops : Applied(p)' = Applied(p)
    BY <1>2, <2>1, AnswersApplyNothing, OthersUntouched DEF Attempt, Untouched
  <2>6. StatusOf(o) = "waiting" /\ StatusOf(o)' = "done"
    BY <1>2, <2>1, AnsweredSettles DEF Return, End, StatusOf, IInv, TypeOK
  <2>7. Contract!Done(o)
    BY <1>2, <2>4, <2>5, <2>6, OthersUntouched, BecomeBy, SameEffects
    DEF Contract!Done, Attempt, Untouched
  <2> QED BY <2>7
<1>3. ASSUME NEW o \in Ops, Reject(o) \/ GiveUp(o)
      PROVE  Contract!Next
  <2>1. PICK how \in AnswerOutcomes \ {"ok"} :
               End(o, how) /\ \E status : Answered(o, status)
    <3>1. CASE Reject(o)
      <4>1. PICK status \in Statuses :
                   Answered(o, status) /\ \E how \in Translations(status) : End(o, how)
        BY <3>1 DEF Reject
      <4>2. Translations(status) \subseteq AnswerOutcomes \ {"ok"}
        BY OutcomeNames
      <4> QED BY <4>1, <4>2
    <3>2. CASE GiveUp(o)
      <4> DEFINE told(status) == IF status = "429" THEN "rate_limited" ELSE "upstream"
      <4>1. PICK status : Answered(o, status) /\ End(o, told(status))
        BY <3>2 DEF GiveUp
      <4>2. told(status) \in AnswerOutcomes \ {"ok"}
        BY DEF AnswerOutcomes
      <4> HIDE DEF told
      <4> QED BY <4>1, <4>2
    <3> QED BY <1>3, <3>1, <3>2
  <2>2. \A p \in Ops : Applied(p)' = Applied(p)
    BY <1>3, <2>1, AnswersApplyNothing, OthersUntouched DEF Attempt, Untouched
  <2>3. StatusOf(o) = "waiting" /\ StatusOf(o)' = "error"
    BY <2>1, AnsweredSettles DEF End, StatusOf, IInv, TypeOK
  <2>4. Contract!Refused(o)
    BY <1>3, <2>2, <2>3, OthersUntouched, BecomeBy, SameEffects
    DEF Contract!Refused, Attempt, Untouched
  <2> QED BY <2>4
<1>4. ASSUME NEW o \in Ops, Backoff(o)
      PROVE  UNCHANGED Contract!vars
  <2>1. PICK status : Answered(o, status)
    BY <1>4 DEF Backoff
  <2>2. Applied(o)' = Applied(o)
    BY <2>1, AnswersApplyNothing
  <2>3. StatusOf(o) = "waiting" /\ StatusOf(o)' = "waiting"
    BY <1>4, <2>1, AnsweredSettles DEF Backoff, StatusOf, IInv, TypeOK
  <2> QED BY <1>4, <2>2, <2>3, OthersUntouched, AllUntouched DEF Attempt, Untouched
<1>5. ASSUME NEW o \in Ops, Raise(o) \/ Cancel(o)
      PROVE  Contract!Next
  <2>1. Applied(o)' = Applied(o)
    BY <1>5 DEF Raise, Cancel, Applied
  <2>2. \A p \in Ops : Applied(p)' = Applied(p)
    BY <1>5, <2>1, OthersUntouched DEF Attempt, Untouched
  <2>3. StatusOf(o) = "waiting" /\ StatusOf(o)' \in {"loose", "closed"}
    BY <1>5 DEF Raise, Cancel, End, StatusOf, AnswerOutcomes, IInv, TypeOK
  <2>4. Contract!Abandoned(o)
    BY <1>5, <2>2, <2>3, OthersUntouched, BecomeBy, SameEffects
    DEF Contract!Abandoned, Attempt, Untouched
  <2> QED BY <2>4
<1>6. ASSUME Crash
      PROVE  Contract!Next
  <2>1. \A p \in Ops : Applied(p)' = Applied(p)
    BY <1>6 DEF Crash, Applied
  <2>2. ASSUME NEW p \in Ops, Running(p)
        PROVE  StatusOf(p) = "waiting" /\ StatusOf(p)' \in {"loose", "closed"}
    BY <1>6, <2>2 DEF Crash, Running, StatusOf, AnswerOutcomes
  <2>3. ASSUME NEW p \in Ops, ~Running(p)
        PROVE  StatusOf(p)' = StatusOf(p)
    <3>1. phase'[p] = phase[p] /\ outcome'[p] = outcome[p] /\ request'[p] = request[p]
      BY <1>6, <2>3 DEF Crash, IInv, TypeOK
    <3> QED BY <3>1, SameRecords DEF Untouched
  <2>4. \A p \in Ops :
          StatusOf(p)' \in {"new", "waiting", "done", "error", "loose", "closed"}
    BY DEF StatusOf
  <2>5. Contract!Crash
    BY <2>1, <2>2, <2>3, <2>4, SameEffects DEF Contract!Crash
  <2> QED BY <2>5
<1>7. ASSUME NEW o \in Ops, NEW a \in Attempts, Apply(o, a)
      PROVE  Contract!Next
  <2>1. /\ a = attempt[o] /\ phase[o] \in {"awaiting", "over"}
        /\ outcome[o] \notin AnswerOutcomes
    BY <1>7 DEF Apply, IInv, RequestsOK, RequestFine
  <2>2. request'[o] = [request[o] EXCEPT ![a] = "applied"]
    BY <1>7 DEF Apply, IInv, TypeOK
  <2>3. a \notin Applied(o) /\ Applied(o)' = Applied(o) \cup {a}
    BY <1>7, <2>2 DEF Apply, Applied, IInv, TypeOK
  <2>4. Contract!TakesEffect(o)
    BY <1>7, <2>3, OthersUntouched, OneMoreEffect DEF Untouched
  <2>5. Pending(o) # {} /\ Pending(o)' = {}
    BY <1>7, <2>2 DEF Apply, Pending, IInv, TypeOK, RequestsOK, RequestFine
  <2>6. CASE phase[o] = "awaiting"
    <3>1. StatusOf(o) = "waiting" /\ StatusOf(o)' = "waiting"
      BY <1>7, <2>6 DEF Apply, StatusOf
    <3>2. Contract!Effect(o)
      BY <1>7, <2>4, <3>1, OthersUntouched DEF Contract!Effect, Untouched
    <3> QED BY <3>2
  <2>7. CASE phase[o] = "over"
    <3>1. StatusOf(o) = "loose" /\ StatusOf(o)' = "closed"
      BY <1>7, <2>1, <2>5, <2>7 DEF Apply, StatusOf, AnswerOutcomes
    <3>2. Contract!LateEffect(o)
      BY <1>7, <2>4, <3>1, OthersUntouched, BecomeBy DEF Contract!LateEffect, Untouched
    <3> QED BY <3>2
  <2> QED BY <2>1, <2>6, <2>7
<1>8. ASSUME NEW o \in Ops, NEW a \in Attempts, Vanish(o, a)
      PROVE  Contract!Next
  <2>1. outcome[o] \notin AnswerOutcomes
    BY <1>8 DEF Vanish, IInv, RequestsOK, RequestFine
  <2>2. request'[o] = [request[o] EXCEPT ![a] = "settled"]
    BY <1>8 DEF Vanish, IInv, TypeOK
  <2>3. Applied(o)' = Applied(o)
    BY <1>8, <2>2 DEF Vanish, Applied, IInv, TypeOK
  <2>4. Pending(o) # {} /\ Pending(o)' = {}
    BY <1>8, <2>2 DEF Vanish, Pending, IInv, TypeOK, RequestsOK, RequestFine
  <2>5. StatusOf(o) = "loose" /\ StatusOf(o)' = "closed"
    BY <1>8, <2>1, <2>4 DEF Vanish, StatusOf, AnswerOutcomes
  <2>6. Contract!NoEffect(o)
    BY <1>8, <2>3, <2>5, OthersUntouched, BecomeBy, SameEffects
    DEF Contract!NoEffect, Untouched
  <2> QED BY <2>6
<1>9. CASE Quiet \/ UNCHANGED vars
  BY <1>9, SameRecords, AllUntouched DEF Quiet, vars
<1> QED
  BY <1>1, <1>2, <1>3, <1>4, <1>5, <1>6, <1>7, <1>8, <1>9 DEF Next, Attempt, Api

\* The retry loop, its callers and the API together keep the contract the
\* tools are written against.
THEOREM ClientKeepsTheContract == Spec => KeepsTheContract
<1>1. IInv /\ [Next]_vars => [Contract!Next]_Contract!vars
  BY StepIsContract
<1> QED BY <1>1, Invariance, InitIsContract, PTL DEF Spec, KeepsTheContract, Contract!Spec
=============================================================================
