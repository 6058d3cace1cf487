----------------------------- MODULE GridBlock ------------------------------
(***************************************************************************)
(* The grid layout (layouts/grid.py): a tab holds a block per month, each  *)
(* a period header, a row of labels and one row per day, and the server    *)
(* finds them by the runs of day numbers in one column. A tab is a         *)
(* function from rows to rows of texts, as far to the right as the server  *)
(* reads it; letter case and surrounding whitespace, which the code folds  *)
(* away, make no difference to a text.                                     *)
(***************************************************************************)
EXTENDS Durations, Sequences, FiniteSetsExt

CONSTANTS MaxRow,        \* rows of the tab
          Width,         \* the last column read, counted from 0 (N in the code)
          LastColumn,    \* the last column the tab has
          DayColumn,     \* day_column
          HeaderOffset,  \* period_header_offset
          LabelOffset,   \* label_row_offset
          Columns,       \* the profile's columns: key, label and aliases
          MonthsInYear,  \* 12 in the code
          DaysIn         \* DaysIn[<<year, month>>]: the calendar

Rows == 1..MaxRow
Months == 1..MonthsInYear
Tab == [Rows -> [0..Width -> Text]]

\* What GridProfile validates. Labels are any texts, and as many as one likes.
ASSUME GridAssumption ==
  /\ MaxRow \in Nat /\ Width \in Nat /\ DayColumn \in 0..Width
  /\ LastColumn \in Nat /\ Width <= LastColumn
  /\ HeaderOffset \in Int /\ HeaderOffset < 0
  /\ LabelOffset \in Int /\ LabelOffset < 0
  /\ Columns \in Seq([key : Text, label : Text, aliases : SUBSET Text])
  /\ Columns # <<>>
  /\ \A i, j \in DOMAIN Columns : i # j => Columns[i].key # Columns[j].key
  /\ MonthsInYear \in Nat \ {0}
  /\ \A date \in DOMAIN DaysIn : DaysIn[date] \in Nat \ {0}

-----------------------------------------------------------------------------
(* Finding the blocks.                                                     *)

\* The day number in a row; 0 is no day of any run.
Day(s, r) ==
  IF s[r][DayColumn].kind = "numeral" THEN s[r][DayColumn].n ELSE 0

\* Runs start at a 1 and go on while each row counts one more.
RunStarts(s) == {r \in Rows : Day(s, r) = 1}
RunEnd(s, start) ==
  Max({e \in start..MaxRow : \A r \in start..e : Day(s, r) = r - start + 1})

\* The cells that hold something right of the day column.
Filled(s, r) == {c \in DayColumn + 1 .. Width : s[r][c] # Blank}

\* A merged header holds its value in its first cell.
FirstValueAfter(s, r) ==
  IF Filled(s, r) = {} THEN Blank ELSE s[r][Min(Filled(s, r))]

\* Fault: a run below a header is a block, labelled or not.
IsHeaded(s, start) ==
  /\ start + HeaderOffset >= 1
  /\ start + LabelOffset >= 1
  /\ Filled(s, start + HeaderOffset) # {}

\* A run is a block if a header and labels stand where they should.
IsPeriod(s, start) ==
  /\ start + HeaderOffset >= 1
  /\ start + LabelOffset >= 1
  /\ Filled(s, start + HeaderOffset) # {}
  /\ Filled(s, start + LabelOffset) # {}

PeriodAt(s, start) ==
  [name |-> FirstValueAfter(s, start + HeaderOffset),
   header |-> start + HeaderOffset, label |-> start + LabelOffset,
   first |-> start, last |-> RunEnd(s, start)]

Periods(s) == {PeriodAt(s, start) : start \in {r \in RunStarts(s) : IsPeriod(s, r)}}

Topmost(ps) == CHOOSE p \in ps : \A q \in ps : p.first <= q.first
Lowest(ps) == CHOOSE p \in ps : \A q \in ps : q.first <= p.first

\* The blocks a month's plain name finds.
Named(s, month) == {p \in Periods(s) : p.name = MonthHeader(month, 0)}

\* The row of a day, or 0 if the block does not reach it.
DayRow(p, day) == IF p.first + day - 1 <= p.last THEN p.first + day - 1 ELSE 0

-----------------------------------------------------------------------------
(* Finding a column of a block.                                            *)

Spellings(column) == {column.key, column.label} \cup column.aliases

\* What a configured column adds to the label asked for: the first column
\* that knows the word decides.
Aliases(wanted) ==
  LET knowing == {i \in DOMAIN Columns : wanted \in Spellings(Columns[i])}
  IN IF knowing = {} THEN {}
     ELSE LET column == Columns[Min(knowing)]
          IN {column.label} \cup column.aliases

LabelColumns(s, p) == Filled(s, p.label)

\* Fault: the column is the configured one, wherever the labels stand.
ConfiguredColumn(s, p, wanted) ==
  LET knowing == {i \in DOMAIN Columns : wanted \in Spellings(Columns[i])}
  IN IF knowing = {} THEN 0 ELSE DayColumn + Min(knowing)

\* The leftmost live label that is the word or one of its aliases; 0 if none.
ResolveColumn(s, p, wanted) ==
  LET found == {c \in LabelColumns(s, p) :
                  s[p.label][c] \in {wanted} \cup Aliases(wanted)}
  IN IF found = {} THEN 0 ELSE Min(found)

-----------------------------------------------------------------------------
(* Laying out a new block.                                                 *)

Populated(row) == \E c \in DOMAIN row : row[c] # Blank

\* Fault: a row without a day number does not count.
LastDayRow(s) == Max({0} \cup {r \in Rows : s[r][DayColumn] # Blank})

LastPopulatedRow(s) == Max({0} \cup {r \in Rows : Populated(s[r])})

\* The columns of a new block with n labels: those of the newest block if it
\* has as many, else the ones next to the day column.
PlanColumns(s, n) ==
  IF Periods(s) # {} /\ Cardinality(LabelColumns(s, Lowest(Periods(s)))) = n
  THEN LabelColumns(s, Lowest(Periods(s)))
  ELSE DayColumn + 1 .. DayColumn + n

\* The i-th of a sequence of labels goes to the i-th of the columns.
Placed(labels, columns) ==
  [c \in columns |-> labels[Cardinality({d \in columns : d <= c})]]

\* The labels asked for; without any, those of the newest block where they
\* stand; in a tab without blocks, the configured ones.
PlanLabels(s, asked) ==
  IF asked # <<>> THEN Placed(asked, PlanColumns(s, Len(asked)))
  ELSE IF Periods(s) # {}
  THEN LET newest == Lowest(Periods(s))
       IN [c \in LabelColumns(s, newest) |-> s[newest.label][c]]
  ELSE Placed([i \in DOMAIN Columns |-> Columns[i].label],
              PlanColumns(s, Len(Columns)))

\* Whatever the newest block wrote above its day numbers.
DayColumnHeading(s) ==
  IF Periods(s) = {} THEN Blank ELSE s[Lowest(Periods(s)).header][DayColumn]

\* Fault: a day too few.
PlanShortBlock(s, year, month, asked) ==
  LET header == LastPopulatedRow(s) + 2
      first == header - HeaderOffset
  IN [name |-> MonthHeader(month, 0), heading |-> DayColumnHeading(s),
      labels |-> PlanLabels(s, asked),
      header |-> header, label |-> first + LabelOffset,
      first |-> first, last |-> first + DaysIn[<<year, month>>] - 2]

\* plan_period_block: one blank row, then the block.
PlanBlock(s, year, month, asked) ==
  LET header == LastPopulatedRow(s) + 2
      first == header - HeaderOffset
  IN [name |-> MonthHeader(month, 0), heading |-> DayColumnHeading(s),
      labels |-> PlanLabels(s, asked),
      header |-> header, label |-> first + LabelOffset,
      first |-> first, last |-> first + DaysIn[<<year, month>>] - 1]

BlockDays(b) == b.last - b.first + 1

\* The columns whose labels a later reading will see: the blank ones and those
\* right of the last column read are no labels.
Shown(b) == {c \in DOMAIN b.labels : c <= Width /\ b.labels[c] # Blank}

\* The text of the i-th row written, which follow each other whatever the
\* offsets: the header, the labels, then a row per day.
BlockText(b, i, c) ==
  CASE i = 0 /\ c = DayColumn            -> b.heading
    [] i = 0 /\ c = Min(DOMAIN b.labels) -> b.name
    [] i = 1 /\ c \in DOMAIN b.labels    -> b.labels[c]
    [] i > 1 /\ c = DayColumn            -> Numeral(i - 1)
    [] OTHER                             -> Blank

\* Every cell from the day column to the last label, the blank ones too and
\* those right of the last column read.
BlockCells(b) ==
  [x \in (b.header .. b.header + BlockDays(b) + 1)
         \X (DayColumn .. Max(DOMAIN b.labels)) |->
     BlockText(b, x[1] - b.header, x[2])]

\* Google refuses a range beyond the tab, or more rows than the range has.
BlockFits(b) ==
  /\ b.last <= MaxRow
  /\ Max(DOMAIN b.labels) <= LastColumn
  /\ b.header + BlockDays(b) + 1 <= b.last

\* What values.update leaves of the columns that are read.
Overwrite(s, cells) ==
  [r \in Rows |-> [c \in 0..Width |->
     IF <<r, c>> \in DOMAIN cells THEN cells[<<r, c>>] ELSE s[r][c]]]
=============================================================================
