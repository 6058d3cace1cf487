----------------------------- MODULE TimeLedger -----------------------------
(***************************************************************************)
(* What a time grid promises its owner: the time recorded under a day and  *)
(* a label changes only because the owner changed it, or because somebody  *)
(* asked for exactly that change, and then nothing else changes with it.   *)
(* Blocks, rows, columns and the passing of days are not visible here.     *)
(***************************************************************************)
EXTENDS Durations, FiniteSetsExt

CONSTANT Step   \* amounts are recorded in multiples of it

VARIABLES ledger,    \* the entries: date, label and quarter hours
          asked,     \* the requests made and not yet answered
          revision   \* the owner's changes so far

ledgerVars == <<ledger, asked, revision>>

\* What is recorded for an amount.
Stored(q) == Max({0, RoundToStep(q, Step)})

Under(date, label) == {e \in ledger : e.date = date /\ e.label = label}

\* An amount replaces what was recorded under a date and a label; nothing is
\* recorded for none.
Record(date, label, amount) ==
  ledger' = (ledger \ Under(date, label))
            \cup {e \in {[date |-> date, label |-> label, hours |-> Stored(amount)]} :
                    e.hours > 0}

\* A request takes effect on its date and one of its labels: the amount is
\* recorded, or added to what is there.
Apply(r) ==
  /\ \E label \in r.labels :
       \/ r.mode = "set" /\ Record(r.date, label, r.amount)
       \/ /\ r.mode = "increment"
          /\ Record(r.date, label,
                    r.amount + MapThenSumSet(LAMBDA e : e.hours, Under(r.date, label)))
  /\ UNCHANGED revision

\* Requests come and are answered.
Ask == UNCHANGED <<ledger, revision>>

Revise == revision' = revision + 1

Init == revision = 0 /\ asked = {} /\ \A e \in ledger : e.hours > 0

Next == Ask \/ Revise \/ \E r \in asked : Apply(r)

Spec == Init /\ [][Next]_ledgerVars
=============================================================================
