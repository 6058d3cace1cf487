---------------------------- MODULE TrainingLog -----------------------------
(***************************************************************************)
(* What a training log promises its owner: a history of entries, each      *)
(* filed under a day, that is only ever extended. A session appears all    *)
(* at once, below everything recorded before it, under a single day that   *)
(* is not earlier than any day already in the log.                         *)
(***************************************************************************)
EXTENDS Integers

VARIABLE log   \* log[position] = [date |-> the day, row |-> the text recorded]

Positions == DOMAIN log

Init == \A p, q \in Positions : p < q => log[p].date <= log[q].date

NewPositions == DOMAIN log' \ Positions

Keeps ==
  /\ Positions \subseteq DOMAIN log'
  /\ \A p \in Positions : log'[p] = log[p]

\* A session of day d is recorded.
Record(d) ==
  /\ Keeps
  /\ \A n \in NewPositions : log'[n].date = d
  /\ \A p \in Positions, n \in NewPositions : p < n /\ log[p].date <= d

Next == \E n \in NewPositions : Record(log'[n].date)

Spec == Init /\ [][Next]_log
=============================================================================
