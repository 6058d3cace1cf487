----------------------------- MODULE GridDates ------------------------------
(***************************************************************************)
(* Which day a row of a grid is (assign_dates of layouts/grid.py), and the *)
(* time recorded for each day and label (query_rows on a grid). A header   *)
(* names a month and rarely a year: the years are inferred from the newest *)
(* block upwards, with the calendar of today.                              *)
(***************************************************************************)
EXTENDS GridBlock

Date == [year : Int, month : Months, day : Nat \ {0}]

MonthOf(p) == IF p.name.kind = "month" THEN p.name.n ELSE 0
ExplicitYear(p) == p.name.year

\* Blocks whose month is not recognised have no date and give none.
Recognised(s) == {p \in Periods(s) : MonthOf(p) # 0}

\* Fault: a month that has just arrived counts as still to come.
SeedYearStrict(month, today) ==
  IF month < today.month THEN today.year ELSE today.year - 1

\* The newest block is of this year unless its month has not arrived yet.
SeedYear(month, today) ==
  IF month <= today.month THEN today.year ELSE today.year - 1

\* The year of each recognised block: its own, or that of the next one below,
\* one less where the months do not ascend.
YearOf(s, today) ==
  LET year[p \in Recognised(s)] ==
        LET below == {q \in DOMAIN year : p.first < q.first}
            next == Topmost(below)
        IN IF ExplicitYear(p) # 0 THEN ExplicitYear(p)
           ELSE IF below = {} THEN SeedYear(MonthOf(p), today)
           ELSE IF MonthOf(p) >= MonthOf(next) THEN year[next] - 1
           ELSE year[next]
  IN year

\* The blocks of a month of a year, however they came by their year.
Dated(s, today, year, month) ==
  LET years == YearOf(s, today)
  IN {p \in Recognised(s) : MonthOf(p) = month /\ years[p] = year}

\* The quarter hours recorded under a label on a day, for every cell that holds
\* any: what query_rows adds up. Unreadable cells are left out of every total,
\* and so are day numbers beyond the month's length.
Recorded(s, today) ==
  LET years == YearOf(s, today)
      dated == {[block |-> p, year |-> years[p]] : p \in Recognised(s)}
      entries(d) ==
        {[date |-> [year |-> d.year, month |-> MonthOf(d.block),
                    day |-> x[1] - d.block.first + 1],
          label |-> s[d.block.label][x[2]], hours |-> Parse(s[x[1]][x[2]])] :
           x \in (d.block.first .. d.block.last) \X LabelColumns(s, d.block)}
  IN {e \in UNION {entries(d) : d \in dated} :
        e.hours > 0 /\ e.date.day <= DaysIn[<<e.date.year, e.date.month>>]}
=============================================================================
