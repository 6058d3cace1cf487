---------------------------- MODULE MCLogSession ----------------------------
(* Small instances of LogSession for TLC. *)
EXTENDS LogSession, TLC

CONSTANTS press, squat, note, c1, c2

MCWords == {press, squat, note}
MCDates == 1..3
MCReadBack == [d \in MCDates |-> d]

R(head, value) == [c \in 0..1 |-> IF c = 0 THEN head ELSE value]
Tab(top) == [r \in 1..MaxRow |-> IF r \in DOMAIN top THEN top[r] ELSE R(Blank, Blank)]

\* An empty tab; a title and a session of day 1; a session of day 2 with a
\* blank row inside its block and a stray value at the bottom.
MCInitSheets ==
  { Tab(<<>>),
    Tab(<<R(press, Blank), R(1, Blank), R(squat, note)>>),
    Tab(<<R(2, Blank), R(Blank, Blank), R(press, Blank), R(Blank, note)>>) }

It(name, values) == [name |-> name, values |-> values]
One == <<It(press, <<note>>)>>
Two == <<It(squat, <<>>), It(press, <<Blank>>)>>

MCProfiles ==
  << [name |-> "training", aliases |-> {"gym"}, layout |-> "dated-block"],
     [name |-> "study", aliases |-> {}, layout |-> "grid"] >>

Req(target, items, mode, dry) ==
  [profile |-> "gym", target |-> target, items |-> items, mode |-> mode,
   dryRun |-> dry]

For(profile, r) == [r EXCEPT !.profile = profile]

\* Every target and mode that plan_session tells apart, a longer session, a
\* dry run, and one request per error before the read.
MCRequests ==
  { Req(d, One, mode, FALSE) : d \in MCDates, mode \in Modes }
  \cup
  { Req(2, Two, "auto", FALSE),
    Req(3, Two, "append-to-existing", FALSE),
    Req(2, One, "auto", TRUE),
    For("study", Req(2, One, "auto", FALSE)),
    For("diary", Req(2, One, "auto", FALSE)),
    Req(2, <<>>, "auto", FALSE),
    Req(2, <<It(Blank, <<note>>)>>, "auto", FALSE),
    Req(2, <<It(press, <<note, note>>)>>, "auto", FALSE),
    Req(2, One, "prepend", FALSE),
    Req(NoTarget, One, "auto", FALSE) }
=============================================================================
