----------------------------- MODULE MCUpdateRow ----------------------------
(* Small instances of UpdateRow for TLC. *)
EXTENDS UpdateRow, TLC

CONSTANTS press, extra, e1, e2

MCWords == {press, extra}
MCDates == 1..3
MCReadBack == [d \in MCDates |-> d]

R(head, value) == [c \in 0..1 |-> IF c = 0 THEN head ELSE value]
Tab(top) == [r \in 1..MaxRow |-> IF r \in DOMAIN top THEN top[r] ELSE R(Blank, Blank)]

MCLayouts == {"dated-block", "table", "grid"}

\* A title, a session of two entries, a separator and the date row of an
\* unfinished session; and a tab with no session at all. As a table, the title
\* is its header.
MCInitSheets ==
  { Tab(<<R(extra, Blank), R(1, Blank), R(press, press), R(press, Blank),
          R(Blank, Blank), R(2, Blank)>>),
    Tab(<<R(extra, extra)>>) }

Cells(f) == [row |-> 3, cells |-> f, expect |-> [k \in {} |-> Blank], dryRun |-> FALSE]
Put(text, k) == [j \in {k} |-> text]

\* Corrections of the name, of the value and of both at once, some expecting
\* what the row held at first; one request per refusal; and a dry run.
MCRequests ==
  { Cells(Put(extra, 0)), Cells(Put(extra, 1)), Cells(Put(Blank, 0)),
    Cells([k \in 0..1 |-> 1]),
    [Cells(Put(Blank, 1)) EXCEPT !.expect = Put(press, 1)],
    [Cells(Put(extra, 1)) EXCEPT !.expect = [k \in 0..1 |-> press], !.dryRun = TRUE],
    [Cells(Put(3, 0)) EXCEPT !.row = 2],
    [Cells([k \in 0..1 |-> 3]) EXCEPT !.row = 2],
    [Cells(Put(extra, 0)) EXCEPT !.row = 5],
    [Cells(Put(extra, 0)) EXCEPT !.row = 1],
    [Cells(Put(extra, 0)) EXCEPT !.row = 7],
    [Cells(Put(extra, 0)) EXCEPT !.row = 0],
    Cells(Put(extra, 2)),
    Cells([k \in {} |-> Blank]) }
=============================================================================
