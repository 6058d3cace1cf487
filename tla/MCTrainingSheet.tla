--------------------------- MODULE MCTrainingSheet --------------------------
(* Small instances of TrainingSheet for TLC. *)
EXTENDS TrainingSheet, TLC

CONSTANTS press, note, extra, log1, edit1

MCWords == {press, note, extra}
MCDates == 1..3
MCReadBack == [d \in MCDates |-> d]

R(head, value) == [c \in 0..1 |-> IF c = 0 THEN head ELSE value]
Tab(top) == [r \in 1..MaxRow |-> IF r \in DOMAIN top THEN top[r] ELSE R(Blank, Blank)]

\* Two sessions with a separator; the second one's entry has no value yet.
MCInitSheets ==
  { Tab(<<R(1, Blank), R(press, note), R(Blank, Blank), R(2, Blank), R(press, Blank)>>) }

\* A value, a name and value at once, and a new date.
MCEdits == { [k \in {1} |-> extra], [k \in {0, 1} |-> extra], [k \in {0} |-> 3] }

MCOwnerText == {Blank, extra}

MCProfiles ==
  << [name |-> "training", aliases |-> {}, layout |-> "dated-block"] >>

\* A session of a later day, and one for the last day whose entry is named
\* like a date.
MCLogRequests ==
  { [profile |-> "training", target |-> d,
     items |-> <<[name |-> n, values |-> <<note>>]>>,
     mode |-> "auto", dryRun |-> FALSE] : <<d, n>> \in {<<3, press>>, <<2, 1>>} }
=============================================================================
