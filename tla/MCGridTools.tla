---------------------------- MODULE MCGridTools -----------------------------
(* Small instances of GridTools for TLC: a year of two months. *)
EXTENDS GridTools, TLC

CONSTANTS c1, c2

MCHeaderOffset == -2
MCLabelOffset == -1

\* Month 1 has two days, month 2 has one; month 1 of a leap year has three.
MCDaysIn == [p \in (1..3) \X (1..2) |->
              IF p[2] = 2 THEN 1 ELSE IF p[1] = 3 THEN 3 ELSE 2]

Reading == Word(1)
English == Word(2)
Crypto == Word(3)
EnglishKey == Word(12)
Junk == Word(9)
Heading == Word(8)

MCColumns == <<[key |-> Word(11), label |-> Reading, aliases |-> {}],
               [key |-> EnglishKey, label |-> English, aliases |-> {Crypto}]>>

\* Three profiles of one tab, and one of another.
MCProfiles ==
  <<[name |-> "study", aliases |-> {"hours"}, layout |-> "grid",
     valueType |-> "duration-hours"],
    [name |-> "tallies", aliases |-> {}, layout |-> "grid",
     valueType |-> "duration-tally"],
    [name |-> "remarks", aliases |-> {}, layout |-> "grid", valueType |-> "freeform"],
    [name |-> "gym", aliases |-> {}, layout |-> "dated-block"]>>

MCFirstDay == [year |-> 1, month |-> 2, day |-> 1]
MCLastDay == [year |-> 2, month |-> 1, day |-> 1]

Line(texts) == [c \in 0..Width |-> IF c + 1 \in DOMAIN texts THEN texts[c + 1] ELSE Blank]
TabOf(lines) == [r \in Rows |-> IF r \in DOMAIN lines THEN Line(lines[r]) ELSE Line(<<>>)]

\* A note left of a block of month 1 whose label columns are apart, a tally in
\* it, and a stray numbered row below.
OldTab == TabOf(<<<<Blank, Heading, Blank, MonthHeader(1, 0), Blank>>,
                  <<Junk, Blank, English, Blank, Reading>>,
                  <<Blank, Numeral(1), Tally(3), Blank, Blank>>,
                  <<Blank, Numeral(2), Blank, Blank, Hours(1)>>,
                  <<>>,
                  <<Blank, Numeral(2), Numeral(5)>>>>)

\* Month 2, and below it a block under a header that is no month.
NotedTab == TabOf(<<<<Blank, Blank, MonthHeader(2, 0)>>, <<Blank, Blank, Reading>>,
                    <<Blank, Numeral(1), Numeral(1)>>,
                    <<>>,
                    <<Blank, Blank, Junk>>, <<Blank, Blank, Reading>>,
                    <<Blank, Numeral(1), Numeral(1)>>>>)

MCOwnerTexts == {Junk}
MCOwnerLabels == {Crypto}

Ask(column, value, when, mode, dry) ==
  [tool |-> "set", profile |-> "study", column |-> column, value |-> value,
   when |-> when, mode |-> mode, dryRun |-> dry]
New(period, labels, dry) ==
  [tool |-> "create", profile |-> "hours", period |-> period, labels |-> labels,
   dryRun |-> dry]

Num(q) == [kind |-> "number", n |-> q, year |-> 0]

MCInitSheets == {TabOf(<<>>), OldTab, NotedTab}

MCRequests ==
  { Ask(Reading, Num(3), Today, "increment", FALSE),
    Ask(EnglishKey, Hours(6), Yesterday, "set", FALSE),
    Ask(Crypto, Num(5), Today, "set", FALSE),
    Ask(English, Num(-2), Yesterday, "increment", FALSE),
    Ask(Reading, Junk, Yesterday, "set", FALSE),
    [Ask(Reading, Num(5), Yesterday, "increment", FALSE) EXCEPT !.profile = "tallies"],
    [Ask(Reading, Junk, Yesterday, "set", FALSE) EXCEPT !.profile = "remarks"],
    Ask(Reading, Num(4), Today, "set", TRUE),
    [Ask(Reading, Num(4), Today, "set", FALSE) EXCEPT !.profile = "gym"],
    Ask(Reading, Num(4), Unread, "set", FALSE),
    Ask(Reading, Num(4), Today, "add", FALSE),
    New(Today, <<>>, FALSE),
    New(Today, <<Blank>>, FALSE),
    New(Today, <<Blank, Crypto>>, FALSE),
    New(Today, <<Reading, English, Crypto, Junk>>, FALSE),
    New(Today, <<Reading, English, Crypto, Junk, Heading>>, FALSE),
    New(Today, <<>>, TRUE),
    New(Unread, <<>>, FALSE) }

\* Two clients add to the same cell.
OldTabs == {OldTab}
Additions == {Ask(Reading, Num(q), Yesterday, "increment", FALSE) : q \in {4, 6}}

\* A block is asked for a month that has one, or that is still to come.
ThisMonth1 == {New(<<1, 1>>, <<>>, FALSE)}
DecemberTabs == {[OldTab EXCEPT ![1][3] = MonthHeader(2, 0)]}
NextMonth1 == {New(<<2, 1>>, <<>>, FALSE)}

\* More is taken off a day than it has.
Withdrawals == {Ask(English, Num(-8), Yesterday, "increment", FALSE)}
HourTabs == {[OldTab EXCEPT ![4][2] = Hours(4)]}

\* Two clients make the blocks of two months, the first of two days.
EmptyTabs == {TabOf(<<>>)}
BothMonths == {New(<<1, 1>>, <<>>, FALSE), New(<<1, 2>>, <<>>, FALSE)}

-----------------------------------------------------------------------------
\* The requests that may still take effect, by any of the names the profile
\* gives to a label.
Asked ==
  {[date |-> req[c].when, labels |-> {req[c].column} \cup Aliases(req[c].column),
    amount |-> AsHours(req[c].value), mode |-> req[c].mode] :
     c \in {c \in InFlight : req[c].tool = "set" /\ ~req[c].dryRun}}

Ledger == INSTANCE TimeLedger WITH
  ledger <- Recorded(sheet, today), asked <- Asked, revision <- edits

\* The tab is a ledger of time: a value is recorded on the day and under the
\* label it was meant for, new blocks and new years move nothing, and what is
\* not asked for does not change. (Blocks made for the current month only, and
\* last year's headers marked before their month returns.)
ImplementsTimeLedger == Ledger!Spec
=============================================================================
