--------------------------- MODULE GridBlockProofs ---------------------------
(***************************************************************************)
(* What the operators of Durations, GridBlock and GridDates return, for    *)
(* every tab and profile: the facts the proofs about the grid tools use.   *)
(***************************************************************************)
EXTENDS GridDates, BoundedSets, FiniteSetTheorems, SequenceTheorems

-----------------------------------------------------------------------------
(* Durations.                                                              *)

LEMMA TextTypes ==
  /\ Blank \in Text
  /\ \A n \in Int : Numeral(n) \in Text /\ Hours(n) \in Text /\ Tally(n) \in Text
  /\ \A n \in Int, y \in Nat : MonthHeader(n, y) \in Text
  /\ \A n \in Int : Numeral(n) # Blank /\ MonthHeader(n, 0) # Blank
BY DEF Text, Kinds, Blank, Numeral, Hours, Tally, MonthHeader

LEMMA ParseType ==
  ASSUME NEW text, text.n \in Int
  PROVE  Parse(text) \in Int
BY DEF Parse, Unreadable

\* Rounding to a step gives a multiple of it.
LEMMA RoundToStepType ==
  ASSUME NEW q \in Int, NEW step \in Nat \ {0}
  PROVE  /\ RoundToStep(q, step) \in Int
         /\ \E k \in Int : RoundToStep(q, step) = k * step
<1>1. q \div step \in Int
  OBVIOUS
<1>2. PICK k \in {q \div step, q \div step + 1} : RoundToStep(q, step) = k * step
  BY DEF RoundToStep
<1>3. k \in Int /\ k * step \in Int
  BY <1>1
<1> QED BY <1>2, <1>3

LEMMA RenderType ==
  ASSUME NEW q \in Int, NEW style
  PROVE  Render(q, style) \in Text
<1>1. RenderTally(q) \in Text
  BY TextTypes DEF RenderTally
<1> QED BY <1>1, TextTypes DEF Render

\* What is rendered reads back as the same amount, and nothing for none; strokes
\* need whole half hours.
LEMMA RenderReadsBack ==
  ASSUME NEW q \in Int, NEW style, style = "duration-tally" => q % 2 = 0
  PROVE  Parse(Render(q, style)) = Max({0, q})
<1>1. Max({0, q}) = IF q > 0 THEN q ELSE 0
  BY MaxWithZero
<1>2. CASE q <= 0
  BY <1>1, <1>2 DEF Render, Parse, Blank
<1>3. CASE q > 0 /\ style # "duration-tally"
  BY <1>1, <1>3 DEF Render, Parse, Hours
<1>4. CASE q > 0 /\ style = "duration-tally"
  <2> DEFINE halves == 2 * (q \div 4) + (IF q % 4 >= 2 THEN 1 ELSE 0)
  <2>1. q % 2 = 0
    BY <1>4
  <2>2. 2 * halves = q /\ halves > 0
    BY <1>4, <2>1
  <2>3. Render(q, style) = Tally(halves)
    BY <1>4, <2>2 DEF Render, RenderTally
  <2> QED BY <1>1, <1>4, <2>2, <2>3 DEF Parse, Tally
<1> QED BY <1>2, <1>3, <1>4

-----------------------------------------------------------------------------
(* Blocks that are found.                                                  *)

LEMMA DayType ==
  ASSUME NEW s \in Tab, NEW r \in Rows
  PROVE  Day(s, r) \in Int
<1>1. s[r][DayColumn] \in Text
  BY GridAssumption DEF Tab
<1> QED BY <1>1 DEF Day, Text

LEMMA FilledType ==
  ASSUME NEW s \in Tab, NEW r \in Rows
  PROVE  /\ Filled(s, r) \subseteq DayColumn + 1 .. Width
         /\ Filled(s, r) \subseteq 0..Width
         /\ \A c \in Filled(s, r) : s[r][c] \in Text \ {Blank}
         /\ Filled(s, r) # {} => Min(Filled(s, r)) \in Filled(s, r)
<1>1. /\ Filled(s, r) \subseteq DayColumn + 1 .. Width
      /\ Filled(s, r) \subseteq 0..Width
      /\ \A c \in Filled(s, r) : s[r][c] \in Text \ {Blank}
  BY GridAssumption DEF Filled, Tab
<1>2. Filled(s, r) # {} => Min(Filled(s, r)) \in Filled(s, r)
  BY <1>1, MinOfBounded, GridAssumption
<1> QED BY <1>1, <1>2

\* A run of day numbers goes on up to some row of the tab.
LEMMA RunEndType ==
  ASSUME NEW s \in Tab, NEW start \in RunStarts(s)
  PROVE  /\ RunEnd(s, start) \in start..MaxRow
         /\ \A r \in start..RunEnd(s, start) : Day(s, r) = r - start + 1
         /\ \A e \in start..MaxRow :
              (\A r \in start..e : Day(s, r) = r - start + 1) => e <= RunEnd(s, start)
<1> DEFINE S == {e \in start..MaxRow : \A r \in start..e : Day(s, r) = r - start + 1}
<1>1. start \in Rows /\ Day(s, start) = 1
  BY DEF RunStarts
<1>2. start \in S
  BY <1>1, GridAssumption DEF Rows
<1>3. S \in SUBSET (0..MaxRow)
  BY <1>1 DEF Rows
<1>4. Max(S) \in S /\ \A x \in S : x <= Max(S)
  BY <1>2, <1>3, MaxOfBounded, GridAssumption
<1> QED BY <1>4 DEF RunEnd

\* The rows of a block are rows of the tab, and some column has a label.
LEMMA PeriodType ==
  ASSUME NEW s \in Tab, NEW p \in Periods(s)
  PROVE  /\ p.first \in RunStarts(s) /\ p = PeriodAt(s, p.first)
         /\ p.header \in Rows /\ p.label \in Rows /\ p.first \in Rows
         /\ p.last \in p.first..MaxRow
         /\ p.name \in Text
         /\ LabelColumns(s, p) # {}
<1>1. PICK start \in RunStarts(s) : IsPeriod(s, start) /\ p = PeriodAt(s, start)
  BY DEF Periods
<1>2. p.first = start /\ p.last = RunEnd(s, start)
      /\ p.header = start + HeaderOffset /\ p.label = start + LabelOffset
      /\ p.name = FirstValueAfter(s, start + HeaderOffset)
  BY <1>1 DEF PeriodAt
<1>3. start \in Rows /\ start + HeaderOffset \in Rows /\ start + LabelOffset \in Rows
  BY <1>1, GridAssumption DEF RunStarts, Rows, IsPeriod
<1>4. p.name \in Text
  BY <1>2, <1>3, FilledType, TextTypes DEF FirstValueAfter
<1>5. LabelColumns(s, p) # {}
  BY <1>1, <1>2 DEF LabelColumns, IsPeriod
<1> QED BY <1>1, <1>2, <1>3, <1>4, <1>5, RunEndType

\* Of some blocks, one is the topmost and one the lowest.
LEMMA TopmostAndLowest ==
  ASSUME NEW s \in Tab, NEW ps \in SUBSET Periods(s), ps # {}
  PROVE  /\ Topmost(ps) \in ps /\ Lowest(ps) \in ps
         /\ \A q \in ps : Topmost(ps).first <= q.first
<1> DEFINE S == {p.first : p \in ps}
<1>1. \A p \in ps : p.first \in Rows
  BY PeriodType
<1>2. S \in SUBSET (0..MaxRow) /\ S # {}
  BY <1>1, GridAssumption DEF Rows
<1>3. PICK p \in ps : \A q \in ps : p.first <= q.first
  <2>1. Min(S) \in S /\ \A x \in S : Min(S) <= x
    BY <1>2, MinOfBounded, GridAssumption
  <2> QED BY <2>1
<1>4. PICK l \in ps : \A q \in ps : q.first <= l.first
  <2>1. Max(S) \in S /\ \A x \in S : x <= Max(S)
    BY <1>2, MaxOfBounded, GridAssumption
  <2> QED BY <2>1
<1>5. Topmost(ps) \in ps /\ \A q \in ps : Topmost(ps).first <= q.first
  BY <1>3 DEF Topmost
<1> QED BY <1>4, <1>5 DEF Lowest

LEMMA DayRowType ==
  ASSUME NEW s \in Tab, NEW p \in Periods(s), NEW day \in Nat \ {0}
  PROVE  DayRow(p, day) # 0 => DayRow(p, day) \in Rows
<1>1. p.first \in Rows /\ p.last \in p.first..MaxRow
  BY PeriodType
<1> QED BY <1>1, GridAssumption DEF DayRow, Rows

\* A column that is resolved carries a label of the block.
LEMMA ResolveColumnType ==
  ASSUME NEW s \in Tab, NEW p \in Periods(s), NEW wanted,
         ResolveColumn(s, p, wanted) # 0
  PROVE  /\ ResolveColumn(s, p, wanted) \in LabelColumns(s, p)
         /\ ResolveColumn(s, p, wanted) \in 0..Width
<1> DEFINE found == {c \in LabelColumns(s, p) :
                       s[p.label][c] \in {wanted} \cup Aliases(wanted)}
<1>1. found # {} /\ ResolveColumn(s, p, wanted) = Min(found)
  BY DEF ResolveColumn
<1>2. found \in SUBSET (0..Width)
  BY PeriodType, FilledType DEF LabelColumns
<1>3. Min(found) \in found
  BY <1>1, <1>2, MinOfBounded, GridAssumption
<1> QED BY <1>1, <1>2, <1>3

-----------------------------------------------------------------------------
(* Blocks that are laid out.                                               *)

\* Some columns right of the day column.
ColumnSets ==
  {columns \in SUBSET Nat :
     columns # {} /\ \E n \in Nat : columns \subseteq DayColumn + 1 .. n}

\* Labels for such columns.
LabelRow == UNION {[columns -> Text] : columns \in ColumnSets}

\* A block laid out, and the rows its parts are meant for.
BlockPlan ==
  [name : Text \ {Blank}, heading : Text, labels : LabelRow,
   header : Nat \ {0}, label : Int, first : Nat, last : Nat]

LEMMA LastPopulatedRowBounds ==
  ASSUME NEW s \in Tab
  PROVE  /\ LastPopulatedRow(s) \in 0..MaxRow
         /\ \A r \in Rows : Populated(s[r]) => r <= LastPopulatedRow(s)
<1> DEFINE S == {0} \cup {r \in Rows : Populated(s[r])}
<1>1. S \in SUBSET (0..MaxRow) /\ S # {}
  BY GridAssumption DEF Rows
<1>2. Max(S) \in S /\ \A x \in S : x <= Max(S)
  BY <1>1, MaxOfBounded, GridAssumption
<1> QED BY <1>1, <1>2 DEF LastPopulatedRow

LEMMA LabelRowIntro ==
  ASSUME NEW n \in Nat, NEW columns \in SUBSET (DayColumn + 1 .. n), columns # {},
         NEW labels \in [columns -> Text]
  PROVE  labels \in LabelRow
<1>1. columns \in SUBSET Nat
  BY GridAssumption
<1>2. columns \in ColumnSets
  BY <1>1 DEF ColumnSets
<1> QED BY <1>2 DEF LabelRow

\* A label row has a first and a last column.
LEMMA LabelRowBounds ==
  ASSUME NEW labels \in LabelRow
  PROVE  /\ labels = [c \in DOMAIN labels |-> labels[c]] /\ DOMAIN labels # {}
         /\ IsFiniteSet(DOMAIN labels)
         /\ DOMAIN labels \in SUBSET Nat
         /\ Min(DOMAIN labels) \in DOMAIN labels
         /\ Max(DOMAIN labels) \in DOMAIN labels
         /\ \A c \in DOMAIN labels : /\ c > DayColumn
                                     /\ Min(DOMAIN labels) <= c
                                     /\ c <= Max(DOMAIN labels)
                                     /\ labels[c] \in Text
<1>1. PICK columns \in ColumnSets : labels \in [columns -> Text]
  <2>1. PICK fs \in {[columns -> Text] : columns \in ColumnSets} : labels \in fs
    BY Zenon DEF LabelRow
  <2> QED BY <2>1, Zenon
<1>2. PICK n \in Nat : columns \subseteq DayColumn + 1 .. n
  BY DEF ColumnSets
<1>3. /\ DOMAIN labels \subseteq DayColumn + 1 .. n /\ DOMAIN labels # {}
      /\ \A c \in DOMAIN labels : labels[c] \in Text
      /\ labels = [c \in DOMAIN labels |-> labels[c]]
  BY <1>1, <1>2 DEF ColumnSets
<1>4. DOMAIN labels \in SUBSET (0..n) /\ \A c \in DOMAIN labels : c > DayColumn
  BY <1>3, GridAssumption
<1>5. IsFiniteSet(DOMAIN labels)
  <2>1. IsFiniteSet(0..n)
    BY FS_Interval
  <2> QED BY <1>4, <2>1, FS_Subset
<1>6. DOMAIN labels \in SUBSET Nat
  BY <1>4
<1> QED BY <1>3, <1>4, <1>5, <1>6, MinOfBounded, MaxOfBounded

\* As many labels as columns: each column gets one of them.
LEMMA PlacedType ==
  ASSUME NEW labels \in Seq(Text), labels # <<>>,
         NEW n \in Nat, NEW columns \in SUBSET (DayColumn + 1 .. n),
         Cardinality(columns) = Len(labels)
  PROVE  Placed(labels, columns) \in LabelRow
<1>1. IsFiniteSet(columns)
  <2>1. DayColumn + 1 \in Int
    BY GridAssumption
  <2>2. IsFiniteSet(DayColumn + 1 .. n)
    BY <2>1, FS_Interval
  <2> QED BY <2>2, FS_Subset
<1>2. ASSUME NEW c \in columns
      PROVE  labels[Cardinality({d \in columns : d <= c})] \in Text
  <2> DEFINE upTo == {d \in columns : d <= c}
  <2>1. IsFiniteSet(upTo) /\ Cardinality(upTo) <= Cardinality(columns)
    BY <1>1, FS_Subset
  <2>2. Cardinality(upTo) \in Nat /\ Cardinality(upTo) # 0
    <3>1. c \in upTo
      BY <1>2, GridAssumption
    <3> QED BY <2>1, <3>1, FS_CardinalityType, FS_EmptySet
  <2>3. Cardinality(upTo) \in 1..Len(labels)
    BY <2>1, <2>2
  <2> QED BY <2>3
<1>3. Placed(labels, columns) \in [columns -> Text]
  BY <1>2 DEF Placed
<1>4. columns # {}
  BY FS_EmptySet, EmptySeq
<1> QED BY <1>3, <1>4, LabelRowIntro

LEMMA PlanColumnsType ==
  ASSUME NEW s \in Tab, NEW n \in Nat
  PROVE  /\ PlanColumns(s, n) \subseteq DayColumn + 1 .. Width + n
         /\ Cardinality(PlanColumns(s, n)) = n
<1>1. CASE Periods(s) # {} /\ Cardinality(LabelColumns(s, Lowest(Periods(s)))) = n
  <2>1. Lowest(Periods(s)) \in Periods(s)
    BY <1>1, TopmostAndLowest
  <2>2. LabelColumns(s, Lowest(Periods(s))) \subseteq DayColumn + 1 .. Width
    BY <2>1, PeriodType, FilledType DEF LabelColumns
  <2> QED BY <1>1, <2>2, GridAssumption DEF PlanColumns
<1>2. CASE ~(Periods(s) # {} /\ Cardinality(LabelColumns(s, Lowest(Periods(s)))) = n)
  <2>1. PlanColumns(s, n) = DayColumn + 1 .. DayColumn + n
    BY <1>2 DEF PlanColumns
  <2>2. DayColumn + 1 \in Int /\ DayColumn + n \in Int
    BY GridAssumption
  <2>3. Cardinality(DayColumn + 1 .. DayColumn + n) = n
    BY <2>2, FS_Interval, GridAssumption
  <2> QED BY <2>1, <2>3, GridAssumption
<1> QED BY <1>1, <1>2

\* The labels of a new block, wherever they come from.
LEMMA PlanLabelsType ==
  ASSUME NEW s \in Tab, NEW asked \in Seq(Text)
  PROVE  PlanLabels(s, asked) \in LabelRow
<1>1. CASE asked # <<>>
  <2>1. Len(asked) \in Nat /\ Width + Len(asked) \in Nat
    BY GridAssumption
  <2> QED BY <1>1, <2>1, PlanColumnsType, PlacedType DEF PlanLabels
<1>2. CASE asked = <<>> /\ Periods(s) # {}
  <2> DEFINE newest == Lowest(Periods(s))
  <2>1. newest \in Periods(s)
    BY <1>2, TopmostAndLowest
  <2>2. /\ LabelColumns(s, newest) \subseteq DayColumn + 1 .. Width
        /\ \A c \in LabelColumns(s, newest) : s[newest.label][c] \in Text
        /\ LabelColumns(s, newest) # {}
    BY <2>1, PeriodType, FilledType DEF LabelColumns
  <2> DEFINE labels == [c \in LabelColumns(s, newest) |-> s[newest.label][c]]
  <2>3. labels \in [LabelColumns(s, newest) -> Text] /\ DOMAIN labels # {}
    BY <2>2
  <2>4. labels \in LabelRow
    BY <2>2, <2>3, LabelRowIntro, GridAssumption
  <2> QED BY <1>2, <2>4 DEF PlanLabels
<1>3. CASE asked = <<>> /\ Periods(s) = {}
  <2> DEFINE labels == [i \in DOMAIN Columns |-> Columns[i].label]
  <2> DEFINE Known == [key : Text, label : Text, aliases : SUBSET Text]
  <2>1. Columns \in Seq(Known) /\ Columns # <<>>
    BY GridAssumption
  <2>2. /\ Len(Columns) \in Nat \ {0} /\ DOMAIN Columns = 1..Len(Columns)
        /\ \A i \in 1..Len(Columns) : Columns[i] \in Known
    <3> HIDE DEF Known
    <3> QED BY <2>1, EmptySeq
  <2>3. labels \in [1..Len(Columns) -> Text]
    BY <2>2
  <2>4. labels \in Seq(Text) /\ Len(labels) = Len(Columns) /\ labels # <<>>
    BY <2>2, <2>3, EmptySeq
  <2>5. /\ PlanColumns(s, Len(Columns)) \subseteq DayColumn + 1 .. Width + Len(Columns)
        /\ Cardinality(PlanColumns(s, Len(Columns))) = Len(Columns)
        /\ Width + Len(Columns) \in Nat
    BY <2>2, PlanColumnsType, GridAssumption
  <2>6. Placed(labels, PlanColumns(s, Len(Columns))) \in LabelRow
    <3> HIDE DEF labels
    <3> QED BY <2>4, <2>5, PlacedType
  <2> QED BY <1>3, <2>6 DEF PlanLabels
<1> QED BY <1>1, <1>2, <1>3

LEMMA PlanBlockType ==
  ASSUME NEW s \in Tab, NEW y, NEW m \in Int, <<y, m>> \in DOMAIN DaysIn,
         NEW asked \in Seq(Text)
  PROVE  LET b == PlanBlock(s, y, m, asked)
         IN /\ b \in BlockPlan
            /\ b.name = MonthHeader(m, 0)
            /\ b.header = LastPopulatedRow(s) + 2
            /\ b.first = b.header - HeaderOffset /\ b.label = b.first + LabelOffset
            /\ b.last - b.first + 1 = DaysIn[<<y, m>>] /\ b.first <= b.last
<1> DEFINE b == PlanBlock(s, y, m, asked)
<1>1. LastPopulatedRow(s) \in Nat
  BY LastPopulatedRowBounds, GridAssumption
<1>2. DaysIn[<<y, m>>] \in Nat \ {0}
  BY GridAssumption
<1>3. PlanLabels(s, asked) \in LabelRow
  BY PlanLabelsType
<1>4. DayColumnHeading(s) \in Text
  <2>1. CASE Periods(s) = {}
    BY <2>1, TextTypes DEF DayColumnHeading
  <2>2. CASE Periods(s) # {}
    <3>1. Lowest(Periods(s)).header \in Rows
      BY <2>2, TopmostAndLowest, PeriodType
    <3> QED BY <2>2, <3>1, GridAssumption DEF DayColumnHeading, Tab
  <2> QED BY <2>1, <2>2
<1>5. MonthHeader(m, 0) \in Text \ {Blank}
  BY TextTypes
<1>6. /\ b.header = LastPopulatedRow(s) + 2
      /\ b.first = b.header - HeaderOffset /\ b.label = b.first + LabelOffset
      /\ b.last = b.first + DaysIn[<<y, m>>] - 1
      /\ b.name = MonthHeader(m, 0) /\ b.heading = DayColumnHeading(s)
      /\ b.labels = PlanLabels(s, asked)
  BY DEF PlanBlock
<1>7. /\ b.header \in Nat \ {0} /\ b.first \in Nat /\ b.label \in Int /\ b.last \in Nat
      /\ b.last - b.first + 1 = DaysIn[<<y, m>>] /\ b.first <= b.last
  <2> HIDE DEF b
  <2>1. /\ HeaderOffset \in Int /\ HeaderOffset < 0
        /\ LabelOffset \in Int /\ LabelOffset < 0
    BY GridAssumption
  <2>2. b.header \in Nat \ {0} /\ b.first \in Nat /\ b.label \in Int
    BY <1>1, <1>6, <2>1
  <2> QED BY <1>2, <1>6, <2>2
<1>8. b = [name |-> b.name, heading |-> b.heading, labels |-> b.labels,
           header |-> b.header, label |-> b.label, first |-> b.first, last |-> b.last]
  BY DEF PlanBlock
<1>9. b \in BlockPlan
  BY <1>3, <1>4, <1>5, <1>6, <1>7, <1>8 DEF BlockPlan
<1> QED BY <1>6, <1>7, <1>9

-----------------------------------------------------------------------------
(* Blocks that are written.                                                *)

LEMMA BlockTextType ==
  ASSUME NEW b \in BlockPlan, NEW i \in Int, NEW c
  PROVE  BlockText(b, i, c) \in Text
<1>1. b.heading \in Text /\ b.name \in Text /\ b.labels \in LabelRow
  BY DEF BlockPlan
<1>2. \A d \in DOMAIN b.labels : b.labels[d] \in Text
  BY <1>1, LabelRowBounds
<1>3. CASE i = 0 \/ i = 1
  BY <1>1, <1>2, <1>3, TextTypes DEF BlockText
<1>4. CASE i > 1 \/ i < 0
  <2>1. i - 1 \in Int
    OBVIOUS
  <2> QED BY <1>4, <2>1, TextTypes DEF BlockText
<1> QED BY <1>3, <1>4

\* Writing texts over a tab leaves a tab, and writing them again changes
\* nothing.
LEMMA OverwriteType ==
  ASSUME NEW s \in Tab, NEW cells, \A x \in DOMAIN cells : cells[x] \in Text
  PROVE  Overwrite(s, cells) \in Tab
BY DEF Overwrite, Tab

LEMMA OverwriteIsIdempotent ==
  ASSUME NEW s \in Tab, NEW cells
  PROVE  Overwrite(Overwrite(s, cells), cells) = Overwrite(s, cells)
BY DEF Overwrite

LEMMA BlockCellsType ==
  ASSUME NEW b \in BlockPlan
  PROVE  \A x \in DOMAIN BlockCells(b) : BlockCells(b)[x] \in Text
<1> SUFFICES ASSUME NEW r \in b.header .. b.header + BlockDays(b) + 1,
                    NEW c \in DayColumn .. Max(DOMAIN b.labels)
             PROVE  BlockCells(b)[<<r, c>>] \in Text
  BY DEF BlockCells
<1>1. r - b.header \in Int
  BY DEF BlockPlan
<1>2. BlockCells(b)[<<r, c>>] = BlockText(b, r - b.header, c)
  BY DEF BlockCells
<1> QED BY <1>1, <1>2, BlockTextType

BlankRow == [c \in 0..Width |-> Blank]

\* A row as the block leaves it where nothing was.
LaidRow(b, r) ==
  [c \in 0..Width |-> IF <<r, c>> \in DOMAIN BlockCells(b)
                      THEN BlockCells(b)[<<r, c>>] ELSE Blank]

\* Room for a block: the row above it is blank, and so is every row from its
\* header down, unless the block has been written there already.
Room(s, b) ==
  \A r \in Rows :
    /\ r = b.header - 1 => s[r] = BlankRow
    /\ r >= b.header => s[r] \in {BlankRow, LaidRow(b, r)}

\* The block stands there, and nothing below it.
Stands(s, b) ==
  \A r \in Rows :
    /\ r = b.header - 1 => s[r] = BlankRow
    /\ r >= b.header => s[r] = LaidRow(b, r)

LEMMA BlankRows ==
  ASSUME NEW s \in Tab, NEW r \in Rows
  PROVE  Populated(s[r]) <=> s[r] # BlankRow
<1>1. s[r] \in [0..Width -> Text]
  BY DEF Tab
<1> QED BY <1>1 DEF Populated, BlankRow

LEMMA RoomBelowEverything ==
  ASSUME NEW s \in Tab, NEW b \in BlockPlan, b.header = LastPopulatedRow(s) + 2
  PROVE  Room(s, b)
<1> SUFFICES ASSUME NEW r \in Rows, r >= b.header - 1
             PROVE  s[r] = BlankRow
  BY GridAssumption DEF Room, BlockPlan, Rows
<1>1. LastPopulatedRow(s) \in Nat /\ r \in Nat
  BY LastPopulatedRowBounds, GridAssumption DEF Rows
<1>2. ~(r <= LastPopulatedRow(s))
  BY <1>1
<1> QED BY <1>2, LastPopulatedRowBounds, BlankRows

\* What the write leaves: the rows above the header as they were, the others as
\* laid out.
LEMMA WriteBlock ==
  ASSUME NEW s \in Tab, NEW b \in BlockPlan, Room(s, b)
  PROVE  LET t == Overwrite(s, BlockCells(b))
         IN /\ \A r \in Rows : r < b.header => t[r] = s[r]
            /\ Stands(t, b)
            /\ Room(t, b)
            /\ \A r \in Rows : Populated(s[r]) => t[r] = s[r]
<1> DEFINE t == Overwrite(s, BlockCells(b))
<1>1. b.header \in Nat /\ \A r \in Rows : r \in Nat
  BY DEF BlockPlan, Rows
<1>2. \A x \in DOMAIN BlockCells(b) : x[1] >= b.header
  <2>1. BlockDays(b) \in Int
    BY DEF BlockPlan, BlockDays
  <2> QED BY <1>1, <2>1 DEF BlockCells
<1>3. ASSUME NEW r \in Rows, r < b.header
      PROVE  t[r] = s[r]
  <2>1. \A c \in 0..Width : <<r, c>> \notin DOMAIN BlockCells(b)
    BY <1>1, <1>2, <1>3
  <2>2. t[r] = [c \in 0..Width |-> s[r][c]]
    BY <2>1 DEF Overwrite
  <2>3. s[r] \in [0..Width -> Text]
    BY DEF Tab
  <2> QED BY <2>2, <2>3
<1>4. ASSUME NEW r \in Rows, r >= b.header
      PROVE  t[r] = LaidRow(b, r)
  <2>1. s[r] \in {BlankRow, LaidRow(b, r)}
    BY <1>4 DEF Room
  <2>2. t[r] = [c \in 0..Width |-> IF <<r, c>> \in DOMAIN BlockCells(b)
                                   THEN BlockCells(b)[<<r, c>>] ELSE s[r][c]]
    BY DEF Overwrite
  <2> QED BY <2>1, <2>2 DEF BlankRow, LaidRow
<1>5. Stands(t, b)
  BY <1>1, <1>3, <1>4 DEF Stands, Room
<1>6. ASSUME NEW r \in Rows, Populated(s[r])
      PROVE  t[r] = s[r]
  <2>1. CASE r < b.header
    BY <1>3, <2>1
  <2>2. CASE r >= b.header
    BY <1>4, <1>6, <2>2, BlankRows DEF Room
  <2> QED BY <1>1, <2>1, <2>2
<1>7. Room(t, b)
  BY <1>5 DEF Stands, Room
<1> QED BY <1>3, <1>5, <1>6, <1>7

-----------------------------------------------------------------------------
(* Blocks that are found where they were written.                          *)

\* The offsets with which a block's rows follow each other.
CloseOffsets == HeaderOffset = -2 /\ LabelOffset = -1

\* A block planned with these offsets that fits in the tab.
Close(b) ==
  /\ b.first = b.header + 2 /\ b.label = b.header + 1
  /\ b.first <= b.last /\ b.last <= MaxRow

\* No block above has its name.
NameIsFree(s, b) ==
  \A r \in RunStarts(s) :
    (r < b.header /\ IsPeriod(s, r)) => FirstValueAfter(s, r + HeaderOffset) # b.name

\* The cells of a block that stands.
LEMMA StandingCells ==
  ASSUME NEW s \in Tab, NEW b \in BlockPlan, Close(b), Stands(s, b),
         NEW r \in Rows, r >= b.header, NEW c \in 0..Width
  PROVE  s[r][c] = IF r <= b.last /\ c \in DayColumn .. Max(DOMAIN b.labels)
                   THEN BlockText(b, r - b.header, c) ELSE Blank
<1>1. b.header \in Nat /\ b.last \in Nat /\ r \in Nat
  BY DEF BlockPlan, Rows
<1>2. b.header + BlockDays(b) + 1 = b.last
  BY <1>1 DEF BlockDays, Close
<1>3. <<r, c>> \in DOMAIN BlockCells(b) <=>
        r <= b.last /\ c \in DayColumn .. Max(DOMAIN b.labels)
  BY <1>1, <1>2 DEF BlockCells
<1>4. <<r, c>> \in DOMAIN BlockCells(b) =>
        BlockCells(b)[<<r, c>>] = BlockText(b, r - b.header, c)
  BY DEF BlockCells
<1>5. s[r] = LaidRow(b, r)
  BY DEF Stands
<1> QED BY <1>3, <1>4, <1>5 DEF LaidRow

\* A block with a label that can be seen has its name where it can be seen.
LEMMA ShownLabels ==
  ASSUME NEW b \in BlockPlan
  PROVE  /\ Shown(b) \subseteq DayColumn + 1 .. Width
         /\ Shown(b) # {} => Min(DOMAIN b.labels) \in DayColumn + 1 .. Width
<1>1. b.labels \in LabelRow
  BY DEF BlockPlan
<1> QED BY <1>1, LabelRowBounds, GridAssumption DEF Shown

\* Its header row reads back as its name.
LEMMA StandingHeader ==
  ASSUME NEW s \in Tab, NEW b \in BlockPlan, Close(b), Stands(s, b), Shown(b) # {}
  PROVE  Filled(s, b.header) # {} /\ FirstValueAfter(s, b.header) = b.name
<1> DEFINE first == Min(DOMAIN b.labels)
<1>1. /\ b.labels \in LabelRow /\ b.header \in Nat \ {0} /\ b.last \in Nat
      /\ b.name \in Text \ {Blank}
  BY DEF BlockPlan
<1>2. b.header \in Rows /\ b.header <= b.last
  BY <1>1, GridAssumption DEF Close, Rows
<1>3. /\ first \in DayColumn + 1 .. Width
      /\ first <= Max(DOMAIN b.labels) /\ Max(DOMAIN b.labels) \in Nat
  BY <1>1, LabelRowBounds, ShownLabels
<1>4. ASSUME NEW c \in DayColumn + 1 .. Width
      PROVE  s[b.header][c] = IF c = first THEN b.name ELSE Blank
  <2>1. c \in 0..Width /\ c # DayColumn /\ DayColumn \in Nat
    BY GridAssumption
  <2>2. BlockText(b, 0, c) = IF c = first THEN b.name ELSE Blank
    BY <2>1 DEF BlockText
  <2>3. b.header - b.header = 0
    BY <1>1
  <2>4. s[b.header][c] = IF c \in DayColumn .. Max(DOMAIN b.labels)
                         THEN BlockText(b, 0, c) ELSE Blank
    <3>1. b.header >= b.header
      BY <1>1
    <3>2. s[b.header][c] = IF b.header <= b.last /\ c \in DayColumn .. Max(DOMAIN b.labels)
                           THEN BlockText(b, b.header - b.header, c) ELSE Blank
      BY <1>2, <2>1, <3>1, StandingCells
    <3> QED BY <1>2, <2>3, <3>2
  <2>5. c = first => c \in DayColumn .. Max(DOMAIN b.labels)
    BY <1>3, <2>1
  <2> QED BY <2>2, <2>4, <2>5
<1>5. Filled(s, b.header) = {first}
  BY <1>1, <1>3, <1>4 DEF Filled
<1>6. Min(Filled(s, b.header)) = first
  BY <1>2, <1>5, FilledType
<1> QED BY <1>3, <1>4, <1>5, <1>6 DEF FirstValueAfter

\* Its label row reads back as those of its labels that can be seen.
LEMMA StandingLabels ==
  ASSUME NEW s \in Tab, NEW b \in BlockPlan, Close(b), Stands(s, b)
  PROVE  /\ Filled(s, b.label) = Shown(b)
         /\ \A c \in Shown(b) : s[b.label][c] = b.labels[c]
<1>1. b.labels \in LabelRow /\ b.header \in Nat \ {0} /\ b.last \in Nat
  BY DEF BlockPlan
<1>2. /\ b.label \in Rows /\ b.label >= b.header /\ b.label <= b.last
      /\ b.label - b.header = 1
  BY <1>1, GridAssumption DEF Close, Rows
<1>3. ASSUME NEW c \in DayColumn + 1 .. Width
      PROVE  s[b.label][c] = IF c \in DOMAIN b.labels THEN b.labels[c] ELSE Blank
  <2>1. c \in 0..Width /\ c # DayColumn /\ DayColumn \in Nat
    BY GridAssumption
  <2>2. BlockText(b, 1, c) = IF c \in DOMAIN b.labels THEN b.labels[c] ELSE Blank
    BY <2>1 DEF BlockText
  <2>3. s[b.label][c] = IF c \in DayColumn .. Max(DOMAIN b.labels)
                        THEN BlockText(b, 1, c) ELSE Blank
    BY <1>2, <2>1, StandingCells
  <2>4. c \in DOMAIN b.labels => c \in DayColumn .. Max(DOMAIN b.labels)
    <3>1. Max(DOMAIN b.labels) \in Nat
      BY <1>1, LabelRowBounds
    <3> QED BY <1>1, <2>1, <3>1, LabelRowBounds
  <2> QED BY <2>2, <2>3, <2>4
<1>4. Shown(b) \subseteq DayColumn + 1 .. Width
  BY ShownLabels
<1>5. Filled(s, b.label) = Shown(b)
  BY <1>3, <1>4 DEF Filled, Shown
<1> QED BY <1>3, <1>4, <1>5 DEF Shown

\* Its days are numbered from one, and nothing else from its header down is.
LEMMA StandingDays ==
  ASSUME NEW s \in Tab, NEW b \in BlockPlan, Close(b), Stands(s, b),
         NEW r \in Rows, r > b.header
  PROVE  Day(s, r) = IF b.first <= r /\ r <= b.last THEN r - b.first + 1 ELSE 0
<1>1. /\ b.labels \in LabelRow /\ b.header \in Nat \ {0} /\ b.last \in Nat
      /\ b.first = b.header + 2 /\ b.first <= b.last
  BY DEF BlockPlan, Close
<1>2. r \in Nat /\ DayColumn \in 0..Width
  BY GridAssumption DEF Rows
<1>3. DayColumn \in DayColumn .. Max(DOMAIN b.labels)
  <2>1. Max(DOMAIN b.labels) \in Nat /\ Max(DOMAIN b.labels) > DayColumn
    BY <1>1, LabelRowBounds
  <2> QED BY <1>2, <2>1
<1>4. s[r][DayColumn] = IF r <= b.last THEN BlockText(b, r - b.header, DayColumn) ELSE Blank
  BY <1>1, <1>2, <1>3, StandingCells
<1>5. CASE b.first <= r /\ r <= b.last
  <2>1. BlockText(b, r - b.header, DayColumn) = Numeral(r - b.header - 1)
    BY <1>1, <1>2, <1>5 DEF BlockText
  <2>2. r - b.header - 1 = r - b.first + 1
    BY <1>1, <1>2
  <2> QED BY <1>4, <1>5, <2>1, <2>2 DEF Day, Numeral
<1>6. CASE r = b.header + 1
  <2>1. r - b.header = 1 /\ DayColumn \notin DOMAIN b.labels
    BY <1>1, <1>2, <1>6, LabelRowBounds
  <2>2. BlockText(b, 1, DayColumn) = Blank
    BY <2>1 DEF BlockText
  <2> QED BY <1>1, <1>2, <1>4, <1>6, <2>1, <2>2 DEF Day, Blank
<1>7. CASE r > b.last
  BY <1>1, <1>2, <1>4, <1>7 DEF Day, Blank
<1> QED BY <1>1, <1>2, <1>5, <1>6, <1>7

\* Nothing else of its name is found, and it only as planned.
LEMMA StandingIsTheOne ==
  ASSUME NEW s \in Tab, NEW b \in BlockPlan, CloseOffsets, Close(b), Stands(s, b),
         NameIsFree(s, b), NEW p \in Periods(s), p.name = b.name
  PROVE  p = PeriodAt(s, b.first) /\ Shown(b) # {}
<1>1. /\ b.header \in Nat \ {0} /\ b.last \in Nat
      /\ b.first = b.header + 2 /\ b.label = b.header + 1
      /\ b.first <= b.last /\ b.last <= MaxRow /\ MaxRow \in Nat
  BY GridAssumption DEF BlockPlan, Close
<1>2. PICK r \in RunStarts(s) : IsPeriod(s, r) /\ p = PeriodAt(s, r)
  BY DEF Periods
<1>3. r \in Rows /\ r \in Nat /\ Day(s, r) = 1 /\ p.name = FirstValueAfter(s, r + HeaderOffset)
  BY <1>2 DEF RunStarts, PeriodAt, Rows
<1>4. ~(r < b.header)
  BY <1>2, <1>3 DEF NameIsFree
<1>5. r # b.header
  <2> SUFFICES ASSUME r = b.header PROVE FALSE
    OBVIOUS
  <2>1. b.header - 1 >= 1 /\ Filled(s, b.header - 1) # {}
    BY <1>2 DEF IsPeriod, CloseOffsets
  <2>2. b.header - 1 \in Rows
    BY <1>1, <2>1 DEF Rows
  <2>3. s[b.header - 1] = BlankRow
    BY <2>2 DEF Stands
  <2>4. Filled(s, b.header - 1) = {}
    BY <2>3, GridAssumption DEF BlankRow, Filled
  <2> QED BY <2>1, <2>4
<1>6. r = b.first
  BY <1>1, <1>3, <1>4, <1>5, StandingDays
<1>7. Shown(b) # {}
  <2>1. b.first + LabelOffset = b.label
    BY <1>1 DEF CloseOffsets
  <2> QED BY <1>2, <1>6, <2>1, StandingLabels DEF IsPeriod
<1> QED BY <1>2, <1>6, <1>7

\* scan_periods finds it, as planned, if any of its labels can be seen.
LEMMA StandingBlockIsFound ==
  ASSUME NEW s \in Tab, NEW b \in BlockPlan, CloseOffsets, Close(b), Stands(s, b),
         NameIsFree(s, b), Shown(b) # {}
  PROVE  {p \in Periods(s) : p.name = b.name} =
           {[name |-> b.name, header |-> b.header, label |-> b.label,
             first |-> b.first, last |-> b.last]}
<1>1. /\ b.header \in Nat \ {0} /\ b.last \in Nat
      /\ b.first = b.header + 2 /\ b.label = b.header + 1
      /\ b.first <= b.last /\ b.last <= MaxRow /\ MaxRow \in Nat
  BY GridAssumption DEF BlockPlan, Close
<1>2. b.first \in Rows /\ \A r \in b.first..b.last : r \in Rows /\ r > b.header
  BY <1>1 DEF Rows
<1>3. b.first \in RunStarts(s)
  BY <1>1, <1>2, StandingDays DEF RunStarts
<1>4. RunEnd(s, b.first) = b.last
  <2>1. /\ RunEnd(s, b.first) \in b.first..MaxRow
        /\ \A r \in b.first..RunEnd(s, b.first) : Day(s, r) = r - b.first + 1
    BY <1>3, RunEndType
  <2>2. \A r \in b.first..b.last : Day(s, r) = r - b.first + 1
    BY <1>1, <1>2, StandingDays
  <2>3. b.last <= RunEnd(s, b.first)
    BY <1>1, <1>3, <2>2, RunEndType
  <2>4. ASSUME b.last < RunEnd(s, b.first) PROVE FALSE
    <3>1. b.last + 1 \in b.first..RunEnd(s, b.first) /\ b.last + 1 \in Rows
      BY <1>1, <2>1, <2>4 DEF Rows
    <3>2. Day(s, b.last + 1) = 0
      BY <1>1, <3>1, StandingDays
    <3> QED BY <1>1, <2>1, <3>1, <3>2
  <2> QED BY <1>1, <2>1, <2>3, <2>4
<1>5. b.first + HeaderOffset = b.header /\ b.first + LabelOffset = b.label
  BY <1>1 DEF CloseOffsets
<1>6. IsPeriod(s, b.first)
  BY <1>1, <1>5, StandingLabels, StandingHeader DEF IsPeriod
<1>7. PeriodAt(s, b.first) = [name |-> b.name, header |-> b.header, label |-> b.label,
                              first |-> b.first, last |-> b.last]
  BY <1>4, <1>5, StandingHeader DEF PeriodAt
<1>8. PeriodAt(s, b.first) \in Periods(s)
  BY <1>3, <1>6 DEF Periods
<1>9. \A p \in Periods(s) : p.name = b.name => p = PeriodAt(s, b.first)
  BY StandingIsTheOne
<1> QED BY <1>7, <1>8, <1>9

\* A name that finds no block is free, and stays so while the rows above the new
\* header do.
LEMMA MissingNameIsFree ==
  ASSUME NEW s \in Tab, NEW m, NEW b \in BlockPlan, b.name = MonthHeader(m, 0),
         Named(s, m) = {}
  PROVE  NameIsFree(s, b)
<1> SUFFICES ASSUME NEW r \in RunStarts(s), IsPeriod(s, r),
                    FirstValueAfter(s, r + HeaderOffset) = b.name
             PROVE  FALSE
  BY DEF NameIsFree
<1>1. PeriodAt(s, r) \in Periods(s) /\ PeriodAt(s, r).name = MonthHeader(m, 0)
  BY DEF Periods, PeriodAt
<1> QED BY <1>1 DEF Named

LEMMA NameStaysFree ==
  ASSUME NEW s \in Tab, NEW t \in Tab, NEW b \in BlockPlan, NameIsFree(s, b),
         \A r \in Rows : r < b.header => t[r] = s[r]
  PROVE  NameIsFree(t, b)
<1> SUFFICES ASSUME NEW r \in RunStarts(t), r < b.header, IsPeriod(t, r)
             PROVE  FirstValueAfter(t, r + HeaderOffset) # b.name
  BY DEF NameIsFree
<1>1. r \in Rows /\ r \in Nat /\ b.header \in Nat /\ t[r] = s[r] /\ Day(t, r) = 1
  BY DEF RunStarts, Rows, BlockPlan
<1>2. /\ r + HeaderOffset \in Rows /\ r + HeaderOffset < b.header
      /\ r + LabelOffset \in Rows /\ r + LabelOffset < b.header
  BY <1>1, GridAssumption DEF IsPeriod, Rows
<1>3. t[r + HeaderOffset] = s[r + HeaderOffset] /\ t[r + LabelOffset] = s[r + LabelOffset]
  BY <1>2
<1>4. r \in RunStarts(s) /\ IsPeriod(s, r)
  BY <1>1, <1>3 DEF RunStarts, Day, IsPeriod, Filled
<1>5. FirstValueAfter(t, r + HeaderOffset) = FirstValueAfter(s, r + HeaderOffset)
  BY <1>3 DEF FirstValueAfter, Filled
<1> QED BY <1>4, <1>5 DEF NameIsFree

-----------------------------------------------------------------------------
(* Tabs whose blocks stand apart.                                          *)

\* The day number a text is, 0 if it is none.
DayIn(text) == IF text.kind = "numeral" THEN text.n ELSE 0

BlockStarts(s) == {r \in RunStarts(s) : IsPeriod(s, r)}
NameAt(s, start) == FirstValueAfter(s, start + HeaderOffset)

\* A tab an owner keeps in order: no run of day numbers begins within the header
\* rows of another, no day number stands beside a header, and no two blocks have
\* the same plain month name.
Tidy(s) ==
  /\ \A p \in BlockStarts(s), q \in RunStarts(s) :
       p < q => RunEnd(s, p) < q + HeaderOffset
  /\ \A p \in BlockStarts(s) : Day(s, p + HeaderOffset) = 0
  /\ \A m \in Months : \A p, q \in BlockStarts(s) :
       (NameAt(s, p) = MonthHeader(m, 0) /\ NameAt(s, q) = MonthHeader(m, 0)) => p = q

LEMMA SameRow ==
  ASSUME NEW s, NEW t, NEW r, t[r] = s[r]
  PROVE  /\ Filled(t, r) = Filled(s, r) /\ Day(t, r) = Day(s, r)
         /\ FirstValueAfter(t, r) = FirstValueAfter(s, r)
BY DEF Filled, Day, FirstValueAfter

\* The rows of a block that begins at p.
LEMMA StartBounds ==
  ASSUME NEW s \in Tab, CloseOffsets, NEW p \in BlockStarts(s)
  PROVE  /\ p \in RunStarts(s) /\ p \in Rows /\ p - 1 \in Rows /\ p - 2 \in Rows
         /\ p + HeaderOffset = p - 2 /\ p + LabelOffset = p - 1
         /\ RunEnd(s, p) \in p..MaxRow
         /\ Filled(s, p - 1) # {} /\ Filled(s, p - 2) # {}
<1>1. p \in RunStarts(s) /\ p \in Rows /\ IsPeriod(s, p)
  BY DEF BlockStarts, RunStarts
<1>2. p + HeaderOffset = p - 2 /\ p + LabelOffset = p - 1
  BY <1>1 DEF CloseOffsets, Rows
<1>3. p - 1 \in Rows /\ p - 2 \in Rows
  BY <1>1, <1>2, GridAssumption DEF IsPeriod, Rows
<1> QED BY <1>1, <1>2, <1>3, RunEndType DEF IsPeriod

\* Whether a run is a block depends on the two rows above it.
LEMMA SameHeader ==
  ASSUME NEW s \in Tab, NEW t \in Tab, CloseOffsets, NEW p \in Rows,
         \A r \in Rows : (r = p - 1 \/ r = p - 2) => Filled(t, r) = Filled(s, r)
  PROVE  IsPeriod(t, p) <=> IsPeriod(s, p)
<1>1. p \in Int /\ p + HeaderOffset = p - 2 /\ p + LabelOffset = p - 1
  BY DEF CloseOffsets, Rows
<1>2. (p - 1 >= 1 => p - 1 \in Rows) /\ (p - 2 >= 1 => p - 2 \in Rows)
  BY <1>1, GridAssumption DEF Rows
<1> QED BY <1>1, <1>2 DEF IsPeriod

\* The same day numbers make the same runs.
LEMMA SameDays ==
  ASSUME NEW s \in Tab, NEW t \in Tab, \A r \in Rows : Day(t, r) = Day(s, r)
  PROVE  /\ RunStarts(t) = RunStarts(s)
         /\ \A p \in RunStarts(s) : RunEnd(t, p) = RunEnd(s, p)
<1>1. RunStarts(t) = RunStarts(s)
  BY DEF RunStarts
<1>2. ASSUME NEW p \in RunStarts(s)
      PROVE  RunEnd(t, p) = RunEnd(s, p)
  <2>1. \A r \in p..MaxRow : r \in Rows
    BY GridAssumption DEF RunStarts, Rows
  <2>2. \A e \in p..MaxRow : (\A r \in p..e : Day(t, r) = r - p + 1)
                               <=> (\A r \in p..e : Day(s, r) = r - p + 1)
    <3> SUFFICES ASSUME NEW e \in p..MaxRow
                 PROVE  \A r \in p..e : Day(t, r) = Day(s, r)
      OBVIOUS
    <3>1. \A r \in p..e : r \in p..MaxRow
      BY GridAssumption DEF RunStarts, Rows
    <3> QED BY <2>1, <3>1
  <2>3. {e \in p..MaxRow : \A r \in p..e : Day(t, r) = r - p + 1}
          = {e \in p..MaxRow : \A r \in p..e : Day(s, r) = r - p + 1}
    BY <2>2
  <2> QED BY <2>3 DEF RunEnd
<1> QED BY <1>1, <1>2

\* Fewer blocks, shorter runs and fewer plain names keep a tab tidy.
LEMMA FewerStaysTidy ==
  ASSUME NEW s \in Tab, NEW t \in Tab, CloseOffsets, Tidy(s),
         RunStarts(t) \subseteq RunStarts(s), BlockStarts(t) \subseteq BlockStarts(s),
         \A p \in BlockStarts(t) : /\ RunEnd(t, p) <= RunEnd(s, p)
                                   /\ Day(t, p + HeaderOffset) = 0,
         \A p \in BlockStarts(t), m \in Months :
           NameAt(t, p) = MonthHeader(m, 0) => NameAt(s, p) = MonthHeader(m, 0)
  PROVE  Tidy(t)
<1>1. ASSUME NEW p \in BlockStarts(t), NEW q \in RunStarts(t), p < q
      PROVE  RunEnd(t, p) < q + HeaderOffset
  <2>1. RunEnd(t, p) <= RunEnd(s, p) /\ RunEnd(s, p) < q + HeaderOffset
    BY <1>1 DEF Tidy
  <2>2. RunEnd(t, p) \in Int /\ RunEnd(s, p) \in Int /\ q + HeaderOffset \in Int
    <3>1. RunEnd(t, p) \in p..MaxRow /\ RunEnd(s, p) \in p..MaxRow /\ q \in Rows
      BY StartBounds DEF RunStarts
    <3> QED BY <3>1, GridAssumption DEF Rows
  <2> QED BY <2>1, <2>2
<1>2. ASSUME NEW m \in Months, NEW p \in BlockStarts(t), NEW q \in BlockStarts(t),
             NameAt(t, p) = MonthHeader(m, 0), NameAt(t, q) = MonthHeader(m, 0)
      PROVE  p = q
  <2>1. NameAt(s, p) = MonthHeader(m, 0) /\ NameAt(s, q) = MonthHeader(m, 0)
    BY <1>2
  <2> QED BY <2>1 DEF Tidy
<1> QED BY <1>1, <1>2 DEF Tidy

\* A tab in which one cell was overwritten.
WithCell(s, row, col, v) == Overwrite(s, [x \in {<<row, col>>} |-> v])

\* What is left of a tab when one cell is overwritten.
LEMMA OneCell ==
  ASSUME NEW s \in Tab, NEW row \in Rows, NEW col \in 0..Width, NEW v \in Text
  PROVE  LET t == WithCell(s, row, col, v)
         IN /\ t \in Tab
            /\ \A r \in Rows : r # row => t[r] = s[r]
            /\ \A c \in 0..Width : t[row][c] = IF c = col THEN v ELSE s[row][c]
<1> DEFINE t == WithCell(s, row, col, v)
<1>1. t \in Tab
  BY OverwriteType DEF WithCell
<1>2. \A r \in Rows, c \in 0..Width :
        t[r][c] = IF <<r, c>> = <<row, col>> THEN v ELSE s[r][c]
  BY DEF Overwrite, WithCell
<1> HIDE DEF t
<1>3. ASSUME NEW r \in Rows, r # row
      PROVE  t[r] = s[r]
  <2>1. t[r] = [c \in 0..Width |-> t[r][c]] /\ s[r] = [c \in 0..Width |-> s[r][c]]
    BY <1>1 DEF Tab
  <2>2. \A c \in 0..Width : t[r][c] = s[r][c]
    BY <1>2, <1>3
  <2>3. [c \in 0..Width |-> t[r][c]] = [c \in 0..Width |-> s[r][c]]
    BY <2>2
  <2> QED BY <2>1, <2>3
<1>4. \A c \in 0..Width : t[row][c] = IF c = col THEN v ELSE s[row][c]
  BY <1>2
<1> QED BY <1>1, <1>3, <1>4 DEF t

\* A cell right of the day column changes no run.
LEMMA CellsMakeNoRuns ==
  ASSUME NEW s \in Tab, NEW row \in Rows, NEW col \in DayColumn + 1 .. Width, NEW v \in Text
  PROVE  LET t == WithCell(s, row, col, v)
         IN /\ \A r \in Rows : Day(t, r) = Day(s, r)
            /\ RunStarts(t) = RunStarts(s)
            /\ \A p \in RunStarts(s) : RunEnd(t, p) = RunEnd(s, p)
<1> DEFINE t == WithCell(s, row, col, v)
<1>1. col \in 0..Width /\ DayColumn \in 0..Width /\ col # DayColumn
  BY GridAssumption
<1>2. /\ t \in Tab /\ \A r \in Rows : r # row => t[r] = s[r]
      /\ t[row][DayColumn] = s[row][DayColumn]
  <2>1. /\ t \in Tab
        /\ \A r \in Rows : r # row => t[r] = s[r]
        /\ \A c \in 0..Width : t[row][c] = IF c = col THEN v ELSE s[row][c]
    BY <1>1, OneCell
  <2> HIDE DEF t
  <2> QED BY <1>1, <2>1
<1> HIDE DEF t
<1>3. \A r \in Rows : Day(t, r) = Day(s, r)
  BY <1>2 DEF Day
<1>4. RunStarts(t) = RunStarts(s) /\ \A p \in RunStarts(s) : RunEnd(t, p) = RunEnd(s, p)
  BY <1>2, <1>3, SameDays
<1> QED BY <1>3, <1>4 DEF t

\* A value in a day's cell moves no block.
LEMMA ValueMovesNoBlock ==
  ASSUME NEW s \in Tab, CloseOffsets, Tidy(s), NEW p \in BlockStarts(s),
         NEW row \in p..RunEnd(s, p), NEW col \in DayColumn + 1 .. Width, NEW v \in Text
  PROVE  LET t == WithCell(s, row, col, v)
         IN /\ Tidy(t) /\ BlockStarts(t) = BlockStarts(s)
            /\ \A q \in BlockStarts(s) : RunEnd(t, q) = RunEnd(s, q)
<1> DEFINE t == WithCell(s, row, col, v)
<1>1. /\ p \in RunStarts(s) /\ p \in Rows /\ RunEnd(s, p) \in p..MaxRow
      /\ row \in Rows /\ col \in 0..Width
  <2>1. p \in RunStarts(s) /\ p \in Rows /\ RunEnd(s, p) \in p..MaxRow
    BY StartBounds
  <2> QED BY <2>1, GridAssumption DEF Rows
<1>2. t \in Tab /\ \A r \in Rows : r # row => t[r] = s[r]
  <2>1. /\ t \in Tab
        /\ \A r \in Rows : r # row => t[r] = s[r]
        /\ \A c \in 0..Width : t[row][c] = IF c = col THEN v ELSE s[row][c]
    BY <1>1, OneCell
  <2> HIDE DEF t
  <2> QED BY <2>1
<1>3. /\ \A r \in Rows : Day(t, r) = Day(s, r)
      /\ RunStarts(t) = RunStarts(s)
      /\ \A q \in RunStarts(s) : RunEnd(t, q) = RunEnd(s, q)
  BY <1>1, CellsMakeNoRuns
<1> HIDE DEF t
\* The rows above a run are none of the block's days.
<1>4. ASSUME NEW q \in RunStarts(s), NEW r \in Rows, r = q - 1 \/ r = q - 2
      PROVE  t[r] = s[r]
  <2>1. q \in Rows /\ q \in Int /\ p \in Int /\ row \in Int /\ RunEnd(s, p) \in Int
    BY <1>1 DEF RunStarts, Rows
  <2>2. CASE p < q
    <3>1. RunEnd(s, p) < q - 2
      BY <2>1, <2>2 DEF Tidy, CloseOffsets
    <3> QED BY <1>2, <1>4, <2>1, <3>1
  <2>3. CASE q <= p
    BY <1>2, <1>4, <2>1, <2>3
  <2> QED BY <2>1, <2>2, <2>3
<1>5. \A q \in RunStarts(s) : q \in Rows
  BY DEF RunStarts
<1>6. \A q \in RunStarts(s) : IsPeriod(t, q) <=> IsPeriod(s, q)
  <2> SUFFICES ASSUME NEW q \in RunStarts(s) PROVE IsPeriod(t, q) <=> IsPeriod(s, q)
    OBVIOUS
  <2>1. \A r \in Rows : (r = q - 1 \/ r = q - 2) => Filled(t, r) = Filled(s, r)
    BY <1>4, SameRow
  <2> QED BY <1>2, <1>5, <2>1, SameHeader
<1>7. BlockStarts(t) = BlockStarts(s)
  BY <1>3, <1>6 DEF BlockStarts
<1>8. \A q \in BlockStarts(s) : /\ RunEnd(t, q) = RunEnd(s, q)
                                /\ Day(t, q + HeaderOffset) = 0
                                /\ NameAt(t, q) = NameAt(s, q)
  <2> SUFFICES ASSUME NEW q \in BlockStarts(s)
               PROVE  /\ RunEnd(t, q) = RunEnd(s, q)
                      /\ Day(t, q + HeaderOffset) = 0
                      /\ NameAt(t, q) = NameAt(s, q)
    OBVIOUS
  <2>1. q \in RunStarts(s) /\ q - 2 \in Rows /\ q + HeaderOffset = q - 2
    BY StartBounds
  <2>2. t[q - 2] = s[q - 2]
    BY <1>4, <2>1
  <2> QED BY <1>3, <2>1, <2>2, SameRow DEF Tidy, NameAt
<1>9. \A q \in BlockStarts(s) : RunEnd(s, q) \in q..MaxRow
  BY StartBounds
<1>10. Tidy(t)
  <2>1. \A q \in BlockStarts(t) : RunEnd(t, q) <= RunEnd(s, q)
    <3> SUFFICES ASSUME NEW q \in BlockStarts(s) PROVE RunEnd(s, q) <= RunEnd(s, q)
      BY <1>7, <1>8
    <3> QED BY <1>9, StartBounds DEF Rows
  <2> QED BY <1>2, <1>3, <1>7, <1>8, <2>1, FewerStaysTidy
<1> QED BY <1>7, <1>8, <1>10 DEF t

\* A text over a day number, unless it is a 1, ends the block there at most.
LEMMA DayOverwritten ==
  ASSUME NEW s \in Tab, CloseOffsets, Tidy(s), NEW p \in BlockStarts(s),
         NEW row \in p..RunEnd(s, p), NEW v \in Text, DayIn(v) # 1
  PROVE  Tidy(WithCell(s, row, DayColumn, v))
<1> DEFINE t == WithCell(s, row, DayColumn, v)
<1>1. /\ p \in RunStarts(s) /\ p \in Rows /\ RunEnd(s, p) \in p..MaxRow
      /\ row \in Rows /\ DayColumn \in 0..Width
  <2>1. p \in RunStarts(s) /\ p \in Rows /\ RunEnd(s, p) \in p..MaxRow
    BY StartBounds
  <2> QED BY <2>1, GridAssumption DEF Rows
<1>2. /\ t \in Tab
      /\ \A r \in Rows : r # row => t[r] = s[r]
      /\ \A c \in 0..Width : t[row][c] = IF c = DayColumn THEN v ELSE s[row][c]
  BY <1>1, OneCell
<1> HIDE DEF t
<1>3. Day(t, row) # 1 /\ \A r \in Rows : r # row => Day(t, r) = Day(s, r)
  BY <1>1, <1>2 DEF Day, DayIn
<1>4. \A r \in Rows : Filled(t, r) = Filled(s, r) /\ FirstValueAfter(t, r) = FirstValueAfter(s, r)
  <2>1. \A r \in Rows : r # row => t[r] = s[r]
    BY <1>2
  <2>2. \A c \in DayColumn + 1 .. Width : t[row][c] = s[row][c]
    BY <1>1, <1>2
  <2>3. Filled(t, row) = Filled(s, row)
    BY <2>2 DEF Filled
  <2>4. FirstValueAfter(t, row) = FirstValueAfter(s, row)
    <3>1. Filled(s, row) # {} => Min(Filled(s, row)) \in DayColumn + 1 .. Width
      BY <1>1, FilledType
    <3> QED BY <2>2, <2>3, <3>1 DEF FirstValueAfter
  <2> QED BY <2>1, <2>3, <2>4, SameRow
<1>5. RunStarts(t) \subseteq RunStarts(s)
  BY <1>3 DEF RunStarts
<1>6. BlockStarts(t) \subseteq BlockStarts(s)
  <2> SUFFICES ASSUME NEW q \in BlockStarts(t) PROVE q \in BlockStarts(s)
    OBVIOUS
  <2>1. q \in Rows /\ q \in RunStarts(s) /\ IsPeriod(t, q)
    BY <1>5 DEF BlockStarts, RunStarts
  <2>2. IsPeriod(s, q)
    BY <1>2, <1>4, <2>1, SameHeader
  <2> QED BY <2>1, <2>2 DEF BlockStarts
<1>7. ASSUME NEW q \in BlockStarts(t)
      PROVE  RunEnd(t, q) <= RunEnd(s, q)
  <2> DEFINE e == RunEnd(t, q)
  <2>1. /\ q \in BlockStarts(s) /\ q \in RunStarts(s) /\ q \in RunStarts(t) /\ q \in Rows
        /\ e \in q..MaxRow /\ RunEnd(s, q) \in q..MaxRow
    BY <1>2, <1>6, StartBounds
  <2>2. \A r \in q..e : Day(t, r) = r - q + 1
    BY <1>2, <2>1, RunEndType
  <2>3. \A f \in q..MaxRow : (\A r \in q..f : Day(s, r) = r - q + 1) => f <= RunEnd(s, q)
    BY <2>1, RunEndType
  <2>4. \A r \in p..RunEnd(s, p) : Day(s, r) = r - p + 1
    BY <1>1, RunEndType
  <2>5. p \in Nat /\ q \in Nat /\ row \in Nat /\ e \in Nat /\ RunEnd(s, p) \in Nat
        /\ MaxRow \in Nat /\ \A r \in q..e : r \in Rows
    BY <1>1, <2>1, GridAssumption DEF Rows
  <2> HIDE DEF e
  <2>6. \A r \in q..e : r # row => Day(s, r) = r - q + 1
    BY <1>3, <2>2, <2>5
  <2>7. row # q
    BY <1>3, <2>1 DEF RunStarts
  <2>8. ASSUME row \in q..e
        PROVE  Day(s, row) = row - q + 1
    <3>1. row - 1 \in q..e /\ Day(s, row - 1) = row - q
      BY <2>5, <2>6, <2>7, <2>8
    <3>2. CASE row > p
      <4>1. Day(s, row - 1) = row - p /\ Day(s, row) = row - p + 1
        BY <2>4, <2>5, <3>2
      <4> QED BY <2>5, <3>1, <4>1
    <3>3. CASE row = p
      <4>1. RunEnd(s, q) < p - 2
        BY <1>1, <2>1, <2>5, <2>7, <2>8, <3>3 DEF Tidy, CloseOffsets
      <4>2. \A r \in q..(row - 1) : Day(s, r) = r - q + 1
        BY <2>5, <2>6, <2>8
      <4>3. row - 1 <= RunEnd(s, q)
        <5>1. row - 1 \in q..MaxRow
          BY <2>1, <2>5, <3>1
        <5> QED BY <2>3, <4>2, <5>1
      <4> QED BY <2>1, <2>5, <3>3, <4>1, <4>3
    <3> QED BY <2>5, <3>2, <3>3
  <2>9. \A r \in q..e : Day(s, r) = r - q + 1
    BY <2>6, <2>8
  <2>10. e <= RunEnd(s, q)
    BY <2>1, <2>3, <2>9
  <2> QED BY <2>10 DEF e
<1>8. ASSUME NEW q \in BlockStarts(t)
      PROVE  Day(t, q + HeaderOffset) = 0 /\ NameAt(t, q) = NameAt(s, q)
  <2>1. q \in BlockStarts(s) /\ q + HeaderOffset \in Rows
    <3>1. q \in BlockStarts(s)
      BY <1>6
    <3> QED BY <3>1, StartBounds
  <2>2. Day(s, q + HeaderOffset) = 0
    BY <2>1 DEF Tidy
  <2>3. Day(s, row) = row - p + 1 /\ row - p + 1 # 0
    BY <1>1, RunEndType, GridAssumption DEF Rows
  <2>4. q + HeaderOffset # row
    BY <2>2, <2>3
  <2> QED BY <1>3, <1>4, <2>1, <2>2, <2>4 DEF NameAt
<1>9. Tidy(t)
  BY <1>2, <1>5, <1>6, <1>7, <1>8, FewerStaysTidy
<1> QED BY <1>9 DEF t

\* Another label, or none, above a block unmakes that block at most.
LEMMA LabelReplaced ==
  ASSUME NEW s \in Tab, CloseOffsets, Tidy(s), NEW p \in BlockStarts(s),
         NEW col \in Filled(s, p + LabelOffset), NEW v \in Text
  PROVE  Tidy(WithCell(s, p + LabelOffset, col, v))
<1> DEFINE row == p + LabelOffset
           t == WithCell(s, row, col, v)
<1>1. /\ p \in RunStarts(s) /\ p \in Rows /\ RunEnd(s, p) \in p..MaxRow
      /\ row \in Rows /\ row = p - 1
  BY StartBounds
<1>2. col \in DayColumn + 1 .. Width /\ col \in 0..Width
  BY <1>1, FilledType
<1> HIDE DEF row
<1>3. t \in Tab /\ \A r \in Rows : r # row => t[r] = s[r]
  <2>1. /\ t \in Tab
        /\ \A r \in Rows : r # row => t[r] = s[r]
        /\ \A c \in 0..Width : t[row][c] = IF c = col THEN v ELSE s[row][c]
    BY <1>1, <1>2, OneCell
  <2> HIDE DEF t
  <2> QED BY <2>1
<1>4. /\ \A r \in Rows : Day(t, r) = Day(s, r)
      /\ RunStarts(t) = RunStarts(s)
      /\ \A q \in RunStarts(s) : RunEnd(t, q) = RunEnd(s, q)
  BY <1>1, <1>2, CellsMakeNoRuns
<1> HIDE DEF t
<1>5. ASSUME NEW q \in RunStarts(s)
      PROVE  /\ q \in Rows /\ q - 2 # row
             /\ q # p => q - 1 # row
  <2>1. q \in Rows /\ q \in Int /\ p \in Int /\ RunEnd(s, p) \in Int /\ RunEnd(s, p) >= p
    BY <1>1 DEF RunStarts, Rows
  <2>2. p < q => RunEnd(s, p) < q - 2
    BY <2>1 DEF Tidy, CloseOffsets
  <2> QED BY <1>1, <2>1, <2>2
<1>6. ASSUME NEW q \in BlockStarts(t)
      PROVE  /\ q \in BlockStarts(s) /\ q + HeaderOffset \in Rows
             /\ NameAt(t, q) = NameAt(s, q)
  <2>1. q \in RunStarts(s) /\ IsPeriod(t, q)
    BY <1>4 DEF BlockStarts
  <2>2. CASE q = p
    <3>1. p + HeaderOffset = p - 2 /\ p - 2 \in Rows /\ p - 2 # row
      BY <1>1, StartBounds DEF Rows
    <3>2. t[p - 2] = s[p - 2]
      BY <1>3, <3>1
    <3> QED BY <2>2, <3>1, <3>2, SameRow DEF NameAt
  <2>3. CASE q # p
    <3>1. q \in Rows /\ \A r \in Rows : (r = q - 1 \/ r = q - 2) => t[r] = s[r]
      BY <1>3, <1>5, <2>1, <2>3
    <3>2. \A r \in Rows : (r = q - 1 \/ r = q - 2) => Filled(t, r) = Filled(s, r)
      BY <3>1, SameRow
    <3>3. q \in BlockStarts(s)
      BY <1>3, <2>1, <3>1, <3>2, SameHeader DEF BlockStarts
    <3>4. q + HeaderOffset = q - 2 /\ q - 2 \in Rows
      BY <3>3, StartBounds
    <3>5. t[q - 2] = s[q - 2]
      BY <3>1, <3>4
    <3> QED BY <3>3, <3>4, <3>5, SameRow DEF NameAt
  <2> QED BY <2>2, <2>3
<1>7. BlockStarts(t) \subseteq BlockStarts(s)
  BY <1>6
<1>8. ASSUME NEW q \in BlockStarts(t)
      PROVE  RunEnd(t, q) <= RunEnd(s, q) /\ Day(t, q + HeaderOffset) = 0
  <2>1. q \in BlockStarts(s) /\ q + HeaderOffset \in Rows
    BY <1>6
  <2>2. RunEnd(t, q) = RunEnd(s, q) /\ RunEnd(s, q) \in q..MaxRow /\ q \in Rows
    BY <1>4, <2>1, StartBounds
  <2>3. RunEnd(s, q) <= RunEnd(s, q)
    BY <2>2 DEF Rows
  <2> QED BY <1>4, <2>1, <2>2, <2>3 DEF Tidy
<1>9. Tidy(t)
  BY <1>3, <1>4, <1>6, <1>7, <1>8, FewerStaysTidy
<1> QED BY <1>9 DEF t, row

\* A year added to a header takes the block out of those with a plain name.
LEMMA HeaderDated ==
  ASSUME NEW s \in Tab, CloseOffsets, Tidy(s), NEW p \in BlockStarts(s),
         NEW v \in Text \ {Blank}, \A m \in Months : v # MonthHeader(m, 0)
  PROVE  Tidy(WithCell(s, p + HeaderOffset, Min(Filled(s, p + HeaderOffset)), v))
<1> DEFINE row == p + HeaderOffset
           col == Min(Filled(s, row))
           t == WithCell(s, row, col, v)
<1>1. /\ p \in RunStarts(s) /\ p \in Rows /\ row \in Rows /\ row = p - 2
      /\ Filled(s, row) # {}
  BY StartBounds
<1>2. col \in Filled(s, row) /\ col \in DayColumn + 1 .. Width /\ col \in 0..Width
  BY <1>1, FilledType
<1>3. /\ \A r \in Rows : Day(t, r) = Day(s, r)
      /\ RunStarts(t) = RunStarts(s)
      /\ \A q \in RunStarts(s) : RunEnd(t, q) = RunEnd(s, q)
  <2> HIDE DEF row, col
  <2> QED BY <1>1, <1>2, CellsMakeNoRuns
<1>4. /\ t \in Tab
      /\ \A r \in Rows : r # row => t[r] = s[r]
      /\ \A c \in 0..Width : t[row][c] = IF c = col THEN v ELSE s[row][c]
  <2> HIDE DEF row, col
  <2> QED BY <1>1, <1>2, OneCell
<1> HIDE DEF t
<1>5. Filled(t, row) = Filled(s, row)
  <2> HIDE DEF col
  <2>1. \A c \in DayColumn + 1 .. Width : c \in 0..Width
    BY GridAssumption
  <2>2. \A c \in DayColumn + 1 .. Width : t[row][c] # Blank <=> s[row][c] # Blank
    BY <1>2, <1>4, <2>1 DEF Filled
  <2> QED BY <2>2 DEF Filled
<1>6. FirstValueAfter(t, row) = v
  BY <1>1, <1>2, <1>4, <1>5 DEF FirstValueAfter
<1> HIDE DEF row, col
<1>7. \A r \in Rows : Filled(t, r) = Filled(s, r)
  BY <1>4, <1>5, SameRow
<1>8. BlockStarts(t) = BlockStarts(s)
  <2>1. \A q \in RunStarts(s) : q \in Rows
    BY DEF RunStarts
  <2>2. \A q \in RunStarts(s) : IsPeriod(t, q) <=> IsPeriod(s, q)
    BY <1>4, <1>7, <2>1, SameHeader
  <2> QED BY <1>3, <2>2 DEF BlockStarts
<1>9. ASSUME NEW q \in BlockStarts(t)
      PROVE  /\ RunEnd(t, q) <= RunEnd(s, q) /\ Day(t, q + HeaderOffset) = 0
             /\ \A m \in Months : NameAt(t, q) = MonthHeader(m, 0) =>
                                    NameAt(s, q) = MonthHeader(m, 0)
  <2>1. /\ q \in BlockStarts(s) /\ q \in RunStarts(s) /\ q \in Rows
        /\ RunEnd(s, q) \in q..MaxRow
        /\ q + HeaderOffset = q - 2 /\ q - 2 \in Rows
    BY <1>8, StartBounds
  <2>2. RunEnd(t, q) <= RunEnd(s, q)
    BY <1>3, <2>1 DEF Rows
  <2>3. Day(t, q + HeaderOffset) = 0
    BY <1>3, <2>1 DEF Tidy
  <2>4. CASE q = p
    <3>1. NameAt(t, q) = v
      BY <1>6, <2>4 DEF NameAt, row
    <3> QED BY <2>2, <2>3, <3>1
  <2>5. CASE q # p
    <3>1. q - 2 # row
      BY <1>1, <2>1, <2>5 DEF Rows
    <3>2. t[q - 2] = s[q - 2]
      BY <1>4, <2>1, <3>1
    <3>3. NameAt(t, q) = NameAt(s, q)
      BY <2>1, <3>2, SameRow DEF NameAt
    <3> QED BY <2>2, <2>3, <3>3
  <2> QED BY <2>4, <2>5
<1>10. Tidy(t)
  BY <1>3, <1>4, <1>8, <1>9, FewerStaysTidy
<1> QED BY <1>10 DEF t, row, col

\* A note below everything touches no block.
LEMMA NoteBelow ==
  ASSUME NEW s \in Tab, CloseOffsets, Tidy(s), NEW row \in Rows,
         row > LastPopulatedRow(s), NEW col \in DayColumn + 1 .. Width, NEW v \in Text
  PROVE  Tidy(WithCell(s, row, col, v))
<1> DEFINE t == WithCell(s, row, col, v)
<1>1. col \in 0..Width
  BY GridAssumption
<1>2. /\ t \in Tab
      /\ \A r \in Rows : r # row => t[r] = s[r]
  <2>1. /\ t \in Tab
        /\ \A r \in Rows : r # row => t[r] = s[r]
        /\ \A c \in 0..Width : t[row][c] = IF c = col THEN v ELSE s[row][c]
    BY <1>1, OneCell
  <2> HIDE DEF t
  <2> QED BY <2>1
<1>3. /\ \A r \in Rows : Day(t, r) = Day(s, r)
      /\ RunStarts(t) = RunStarts(s)
      /\ \A q \in RunStarts(s) : RunEnd(t, q) = RunEnd(s, q)
  BY CellsMakeNoRuns
<1> HIDE DEF t
<1>4. ASSUME NEW q \in RunStarts(s)
      PROVE  q \in Rows /\ q < row
  <2>1. q \in Rows /\ Day(s, q) = 1
    BY DEF RunStarts
  <2>2. Populated(s[q])
    <3>1. s[q][DayColumn].kind = "numeral" /\ DayColumn \in 0..Width
      BY <2>1, GridAssumption DEF Day
    <3>2. s[q][DayColumn] # Blank
      BY <3>1 DEF Blank
    <3>3. DOMAIN s[q] = 0..Width
      BY <2>1 DEF Tab
    <3> QED BY <3>1, <3>2, <3>3 DEF Populated
  <2>3. q <= LastPopulatedRow(s) /\ LastPopulatedRow(s) \in Nat
    BY <2>1, <2>2, LastPopulatedRowBounds, GridAssumption
  <2> QED BY <2>1, <2>3 DEF Rows
<1>5. ASSUME NEW q \in RunStarts(s), NEW r \in Rows, r = q - 1 \/ r = q - 2
      PROVE  t[r] = s[r]
  BY <1>2, <1>4, <1>5 DEF Rows
<1>6. BlockStarts(t) = BlockStarts(s)
  <2>1. \A q \in RunStarts(s) : IsPeriod(t, q) <=> IsPeriod(s, q)
    <3> SUFFICES ASSUME NEW q \in RunStarts(s) PROVE IsPeriod(t, q) <=> IsPeriod(s, q)
      OBVIOUS
    <3>1. \A r \in Rows : (r = q - 1 \/ r = q - 2) => Filled(t, r) = Filled(s, r)
      BY <1>5, SameRow
    <3> QED BY <1>2, <1>4, <3>1, SameHeader
  <2> QED BY <1>3, <2>1 DEF BlockStarts
<1>7. ASSUME NEW q \in BlockStarts(t)
      PROVE  /\ RunEnd(t, q) <= RunEnd(s, q) /\ Day(t, q + HeaderOffset) = 0
             /\ NameAt(t, q) = NameAt(s, q)
  <2>1. /\ q \in BlockStarts(s) /\ q \in RunStarts(s) /\ q \in Rows
        /\ RunEnd(s, q) \in q..MaxRow
        /\ q + HeaderOffset = q - 2 /\ q - 2 \in Rows
    BY <1>6, StartBounds
  <2>2. RunEnd(t, q) <= RunEnd(s, q)
    BY <1>3, <2>1 DEF Rows
  <2>3. Day(t, q + HeaderOffset) = 0
    BY <1>3, <2>1 DEF Tidy
  <2>4. t[q - 2] = s[q - 2]
    BY <1>5, <2>1
  <2> QED BY <2>1, <2>2, <2>3, <2>4, SameRow DEF NameAt
<1>8. Tidy(t)
  BY <1>2, <1>3, <1>6, <1>7, FewerStaysTidy
<1> QED BY <1>8 DEF t

\* A block written below everything, under a plain name that is free, joins the
\* others.
LEMMA BlockAdded ==
  ASSUME NEW s \in Tab, NEW t \in Tab, CloseOffsets, Tidy(s),
         NEW b \in BlockPlan, Close(b), DayIn(b.heading) = 0,
         \A r \in Rows : r < b.header => t[r] = s[r],
         Stands(t, b), NameIsFree(t, b)
  PROVE  Tidy(t)
<1>1. /\ b.header \in Nat \ {0} /\ b.labels \in LabelRow
      /\ b.first = b.header + 2 /\ b.header < b.last /\ b.last <= MaxRow /\ b.last \in Nat
      /\ MaxRow \in Nat /\ b.header \in Rows
  BY GridAssumption DEF BlockPlan, Close, Rows
<1>2. \A r \in Rows : r \in Nat
  BY DEF Rows
<1>3. \A r \in Rows : r < b.header => Day(t, r) = Day(s, r)
  BY SameRow
\* No run goes through the row above the new header, or begins in it.
<1>4. b.header - 1 \in Rows => Day(t, b.header - 1) = 0
  <2> SUFFICES ASSUME b.header - 1 \in Rows PROVE Day(t, b.header - 1) = 0
    OBVIOUS
  <2>1. t[b.header - 1] = BlankRow
    BY DEF Stands
  <2> QED BY <2>1, GridAssumption DEF BlankRow, Day, Blank
<1>5. Day(t, b.header) = 0
  <2>1. DayColumn \in 0..Width /\ DayColumn \in DayColumn .. Max(DOMAIN b.labels)
    <3>1. Max(DOMAIN b.labels) \in Nat /\ Max(DOMAIN b.labels) > DayColumn
      BY <1>1, LabelRowBounds
    <3> QED BY <3>1, GridAssumption
  <2>2. b.header >= b.header /\ b.header <= b.last /\ b.header - b.header = 0
    BY <1>1
  <2>3. t[b.header][DayColumn] = BlockText(b, 0, DayColumn)
    <3>1. t[b.header][DayColumn] =
            IF b.header <= b.last /\ DayColumn \in DayColumn .. Max(DOMAIN b.labels)
            THEN BlockText(b, b.header - b.header, DayColumn) ELSE Blank
      BY <1>1, <2>1, <2>2, StandingCells
    <3> QED BY <2>1, <2>2, <3>1
  <2>4. BlockText(b, 0, DayColumn) = b.heading
    <3>1. Min(DOMAIN b.labels) # DayColumn
      BY <1>1, LabelRowBounds, GridAssumption
    <3> QED BY <3>1 DEF BlockText
  <2> QED BY <2>3, <2>4 DEF Day, DayIn
\* So the runs are those above, and the new one.
<1>6. ASSUME NEW q \in RunStarts(t), q # b.first
      PROVE  q \in RunStarts(s) /\ q < b.header
  <2>1. q \in Rows /\ Day(t, q) = 1 /\ q \in Nat
    BY DEF RunStarts, Rows
  <2>2. q > b.header => Day(t, q) = IF b.first <= q /\ q <= b.last THEN q - b.first + 1 ELSE 0
    BY <2>1, StandingDays
  <2>3. ~(q > b.header)
    BY <1>1, <1>6, <2>1, <2>2
  <2>4. q # b.header
    BY <1>5, <2>1
  <2>5. q < b.header
    BY <1>1, <2>1, <2>3, <2>4
  <2> QED BY <1>3, <2>1, <2>5 DEF RunStarts
<1>7. ASSUME NEW p \in BlockStarts(t), p # b.first
      PROVE  /\ p \in BlockStarts(s) /\ p < b.header /\ p + HeaderOffset \in Rows
             /\ NameAt(t, p) = NameAt(s, p)
             /\ RunEnd(t, p) < b.header - 1
             /\ RunEnd(t, p) <= RunEnd(s, p)
  <2>1. /\ p \in RunStarts(t) /\ p \in RunStarts(s) /\ p < b.header
        /\ p \in Rows /\ p - 1 \in Rows /\ p - 2 \in Rows
        /\ p + HeaderOffset = p - 2 /\ RunEnd(t, p) \in p..MaxRow /\ IsPeriod(t, p)
    BY <1>6, <1>7, StartBounds DEF BlockStarts
  <2>2. \A r \in Rows : (r = p - 1 \/ r = p - 2) => t[r] = s[r]
    BY <1>1, <1>2, <2>1
  <2>3. \A r \in Rows : (r = p - 1 \/ r = p - 2) => Filled(t, r) = Filled(s, r)
    BY <2>2, SameRow
  <2>4. p \in BlockStarts(s)
    BY <2>1, <2>3, SameHeader DEF BlockStarts
  <2>5. NameAt(t, p) = NameAt(s, p)
    BY <2>1, <2>2, SameRow DEF NameAt
  <2>6. \A r \in p..RunEnd(t, p) : Day(t, r) = r - p + 1
    BY <2>1, RunEndType
  <2>7. RunEnd(t, p) < b.header - 1
    <3> SUFFICES ASSUME ~(RunEnd(t, p) < b.header - 1) PROVE FALSE
      OBVIOUS
    <3>1. p \in Nat /\ RunEnd(t, p) \in Nat /\ p <= b.header - 1
      BY <1>1, <1>2, <2>1
    <3>2. b.header - 1 \in p..RunEnd(t, p) /\ b.header - 1 \in Rows
      BY <1>1, <2>1, <3>1 DEF Rows
    <3>3. Day(t, b.header - 1) = b.header - 1 - p + 1
      BY <2>6, <3>2
    <3> QED BY <1>1, <1>4, <3>1, <3>2, <3>3
  <2>8. RunEnd(t, p) <= RunEnd(s, p)
    <3>1. \A r \in p..RunEnd(t, p) : r \in Rows /\ r < b.header
      BY <1>1, <1>2, <2>1, <2>7 DEF Rows
    <3>2. \A r \in p..RunEnd(t, p) : Day(s, r) = r - p + 1
      BY <1>3, <2>6, <3>1
    <3> QED BY <2>1, <3>2, RunEndType
  <2> QED BY <2>1, <2>4, <2>5, <2>7, <2>8
<1>8. /\ b.first + HeaderOffset = b.header
      /\ b.first \in BlockStarts(t) => NameAt(t, b.first) = b.name
  <2>1. b.first + HeaderOffset = b.header /\ b.first + LabelOffset = b.label
    BY <1>1 DEF CloseOffsets, Close
  <2>2. b.first \in BlockStarts(t) => Shown(b) # {}
    BY <2>1, StandingLabels DEF BlockStarts, IsPeriod
  <2> QED BY <2>1, <2>2, StandingHeader DEF NameAt
<1>9. ASSUME NEW p \in BlockStarts(t), p # b.first
      PROVE  NameAt(t, p) # b.name
  BY <1>7, <1>9 DEF NameIsFree, BlockStarts, NameAt
<1>10. ASSUME NEW p \in BlockStarts(t), NEW q \in RunStarts(t), p < q
       PROVE  RunEnd(t, p) < q + HeaderOffset
  <2>1. p \in Rows /\ q \in Rows /\ RunEnd(t, p) \in p..MaxRow
    BY StartBounds DEF RunStarts
  <2>2. p # b.first
    <3>1. q # b.first => q < b.header
      BY <1>6
    <3> QED BY <1>1, <1>2, <1>10, <2>1, <3>1
  <2>3. CASE q = b.first
    BY <1>1, <1>2, <1>7, <1>8, <2>1, <2>2, <2>3
  <2>4. CASE q # b.first
    <3>1. /\ p \in BlockStarts(s) /\ q \in RunStarts(s)
          /\ RunEnd(t, p) <= RunEnd(s, p) /\ RunEnd(s, p) < q + HeaderOffset
      BY <1>6, <1>7, <1>10, <2>2, <2>4 DEF Tidy
    <3>2. RunEnd(s, p) \in p..MaxRow
      BY <3>1, StartBounds
    <3> QED BY <1>2, <2>1, <3>1, <3>2, GridAssumption
  <2> QED BY <2>3, <2>4
<1>11. ASSUME NEW p \in BlockStarts(t)
       PROVE  Day(t, p + HeaderOffset) = 0
  <2>1. CASE p = b.first
    BY <1>5, <1>8, <2>1
  <2>2. CASE p # b.first
    <3>1. /\ p \in BlockStarts(s) /\ p + HeaderOffset \in Rows /\ p < b.header /\ p \in Rows
          /\ p + HeaderOffset = p - 2
      BY <1>7, <2>2, StartBounds
    <3>2. p + HeaderOffset < b.header
      BY <1>1, <1>2, <3>1
    <3> QED BY <1>3, <3>1, <3>2 DEF Tidy
  <2> QED BY <2>1, <2>2
<1>12. ASSUME NEW m \in Months, NEW p \in BlockStarts(t), NEW q \in BlockStarts(t),
              NameAt(t, p) = MonthHeader(m, 0), NameAt(t, q) = MonthHeader(m, 0)
       PROVE  p = q
  <2>1. CASE p # b.first /\ q # b.first
    <3>1. /\ p \in BlockStarts(s) /\ q \in BlockStarts(s)
          /\ NameAt(s, p) = MonthHeader(m, 0) /\ NameAt(s, q) = MonthHeader(m, 0)
      BY <1>7, <1>12, <2>1
    <3> QED BY <3>1 DEF Tidy
  <2>2. CASE p = b.first \/ q = b.first
    BY <1>8, <1>9, <1>12, <2>2
  <2> QED BY <2>1, <2>2
<1> QED BY <1>10, <1>11, <1>12 DEF Tidy

\* In a tidy tab a month's plain name heads one block.
LEMMA OneIsNamed ==
  ASSUME NEW s \in Tab, Tidy(s), NEW m \in Months
  PROVE  Cardinality(Named(s, m)) <= 1
<1>1. ASSUME NEW p \in Named(s, m), NEW q \in Named(s, m)
      PROVE  p = q
  <2>1. PICK i \in BlockStarts(s) : p = PeriodAt(s, i)
    BY DEF Named, Periods, BlockStarts
  <2>2. PICK j \in BlockStarts(s) : q = PeriodAt(s, j)
    BY DEF Named, Periods, BlockStarts
  <2>3. NameAt(s, i) = MonthHeader(m, 0) /\ NameAt(s, j) = MonthHeader(m, 0)
    BY <2>1, <2>2 DEF Named, PeriodAt, NameAt
  <2>4. i = j
    BY <2>3 DEF Tidy
  <2> QED BY <2>1, <2>2, <2>4
<1>2. CASE Named(s, m) = {}
  BY <1>2, FS_EmptySet
<1>3. CASE Named(s, m) # {}
  <2>1. PICK p \in Named(s, m) : TRUE
    BY <1>3
  <2>2. Named(s, m) = {p}
    BY <1>1
  <2> QED BY <2>2, FS_Singleton
<1> QED BY <1>2, <1>3

-----------------------------------------------------------------------------
(* The years of the blocks.                                                *)

\* The blocks below one; what a block's year is, given those of the blocks below.
BelowOf(s, p) == {q \in Recognised(s) : p.first < q.first}

YearRule(s, today, f, p) ==
  IF ExplicitYear(p) # 0 THEN ExplicitYear(p)
  ELSE IF BelowOf(s, p) = {} THEN SeedYear(MonthOf(p), today)
  ELSE IF MonthOf(p) >= MonthOf(Topmost(BelowOf(s, p)))
  THEN f[Topmost(BelowOf(s, p))] - 1
  ELSE f[Topmost(BelowOf(s, p))]

\* The equation the years solve.
YearsAre(s, today, f) ==
  f = [p \in Recognised(s) |->
        LET below == {q \in DOMAIN f : p.first < q.first}
            next == Topmost(below)
        IN IF ExplicitYear(p) # 0 THEN ExplicitYear(p)
           ELSE IF below = {} THEN SeedYear(MonthOf(p), today)
           ELSE IF MonthOf(p) >= MonthOf(next) THEN f[next] - 1
           ELSE f[next]]

LEMMA YearsAreByTheRule ==
  ASSUME NEW s, NEW today, NEW f
  PROVE  YearsAre(s, today, f) <=> f = [p \in Recognised(s) |-> YearRule(s, today, f, p)]
<1>1. ASSUME DOMAIN f = Recognised(s)
      PROVE  [p \in Recognised(s) |->
        LET below == {q \in DOMAIN f : p.first < q.first}
            next == Topmost(below)
        IN IF ExplicitYear(p) # 0 THEN ExplicitYear(p)
           ELSE IF below = {} THEN SeedYear(MonthOf(p), today)
           ELSE IF MonthOf(p) >= MonthOf(next) THEN f[next] - 1
           ELSE f[next]] = [p \in Recognised(s) |-> YearRule(s, today, f, p)]
  BY <1>1 DEF YearRule, BelowOf
<1>2. YearsAre(s, today, f) => DOMAIN f = Recognised(s)
  BY DEF YearsAre
<1>3. f = [p \in Recognised(s) |-> YearRule(s, today, f, p)] => DOMAIN f = Recognised(s)
  OBVIOUS
<1> QED BY <1>1, <1>2, <1>3 DEF YearsAre

\* The years of the blocks that begin in the last n rows.
LastYears(s, today, n, f) ==
  /\ f \in [Recognised(s) -> Int]
  /\ \A p \in Recognised(s) : p.first > MaxRow - n => f[p] = YearRule(s, today, f, p)

LEMMA YearRuleType ==
  ASSUME NEW s \in Tab, NEW today \in Date, NEW f \in [Recognised(s) -> Int],
         NEW p \in Recognised(s)
  PROVE  /\ YearRule(s, today, f, p) \in Int /\ p.first \in Rows
         /\ BelowOf(s, p) # {} => /\ Topmost(BelowOf(s, p)) \in Recognised(s)
                                  /\ p.first < Topmost(BelowOf(s, p)).first
<1>1. p \in Periods(s) /\ p.first \in Rows /\ p.name \in Text
  BY PeriodType DEF Recognised
<1>2. ExplicitYear(p) \in Int
  BY <1>1 DEF ExplicitYear, Text
<1>3. SeedYear(MonthOf(p), today) \in Int
  BY DEF SeedYear, Date
<1>4. ASSUME BelowOf(s, p) # {}
      PROVE  /\ Topmost(BelowOf(s, p)) \in Recognised(s)
             /\ p.first < Topmost(BelowOf(s, p)).first
             /\ f[Topmost(BelowOf(s, p))] \in Int
  <2>1. BelowOf(s, p) \in SUBSET Periods(s)
    BY DEF BelowOf, Recognised
  <2>2. Topmost(BelowOf(s, p)) \in BelowOf(s, p)
    BY <1>4, <2>1, TopmostAndLowest
  <2> QED BY <2>2 DEF BelowOf
<1>5. YearRule(s, today, f, p) \in Int
  BY <1>2, <1>3, <1>4 DEF YearRule
<1> QED BY <1>1, <1>4, <1>5

\* Block by block upwards, every block gets a year.
LEMMA OneYearMore ==
  ASSUME NEW s \in Tab, NEW today \in Date, NEW n \in 0..MaxRow, n < MaxRow,
         NEW f, LastYears(s, today, n, f)
  PROVE  \E g : LastYears(s, today, n + 1, g)
<1> DEFINE g == [p \in Recognised(s) |->
                  IF p.first > MaxRow - n THEN f[p] ELSE YearRule(s, today, f, p)]
<1>1. f \in [Recognised(s) -> Int]
  BY DEF LastYears
<1>2. \A p \in Recognised(s) : f[p] \in Int /\ YearRule(s, today, f, p) \in Int
  BY <1>1, YearRuleType
<1>3. g \in [Recognised(s) -> Int]
  BY <1>2
<1>4. \A p \in Recognised(s) : p.first > MaxRow - n => g[p] = f[p]
  OBVIOUS
<1>5. \A p \in Recognised(s) : ~(p.first > MaxRow - n) => g[p] = YearRule(s, today, f, p)
  OBVIOUS
<1> HIDE DEF g
<1>6. ASSUME NEW p \in Recognised(s), p.first > MaxRow - (n + 1)
      PROVE  g[p] = YearRule(s, today, g, p)
  <2>1. p.first \in Nat /\ MaxRow \in Nat /\ n \in Nat
    BY <1>1, YearRuleType, GridAssumption DEF Rows
  <2>2. g[p] = YearRule(s, today, f, p)
    BY <1>4, <1>5 DEF LastYears
  <2>3. ASSUME BelowOf(s, p) # {}
        PROVE  g[Topmost(BelowOf(s, p))] = f[Topmost(BelowOf(s, p))]
    <3> DEFINE q == Topmost(BelowOf(s, p))
    <3>1. q \in Recognised(s) /\ p.first < q.first
      BY <1>1, <2>3, YearRuleType
    <3>2. q.first \in Rows
      BY <1>1, <3>1, YearRuleType
    <3> HIDE DEF q
    <3>3. q.first > MaxRow - n
      BY <1>6, <2>1, <3>1, <3>2 DEF Rows
    <3>4. g[q] = f[q]
      BY <1>4, <3>1, <3>3
    <3> QED BY <3>4 DEF q
  <2> QED BY <2>2, <2>3 DEF YearRule
<1>7. LastYears(s, today, n + 1, g)
  BY <1>3, <1>6 DEF LastYears
<1> QED BY <1>7

LEMMA YearsExist ==
  ASSUME NEW s \in Tab, NEW today \in Date
  PROVE  \E f \in [Recognised(s) -> Int] : YearsAre(s, today, f)
<1> DEFINE Stuck == {n \in 0..MaxRow : ~ \E f : LastYears(s, today, n, f)}
<1>1. MaxRow \in Nat /\ \A p \in Recognised(s) : p.first \in 1..MaxRow
  BY PeriodType, GridAssumption DEF Recognised, Rows
<1>2. 0 \notin Stuck
  <2> DEFINE f == [p \in Recognised(s) |-> 0]
  <2>1. f \in [Recognised(s) -> Int]
    OBVIOUS
  <2>2. \A p \in Recognised(s) : ~(p.first > MaxRow - 0)
    BY <1>1
  <2> HIDE DEF f
  <2>3. LastYears(s, today, 0, f)
    BY <2>1, <2>2 DEF LastYears
  <2> QED BY <2>3
<1>3. Stuck = {}
  <2> SUFFICES ASSUME Stuck # {} PROVE FALSE
    OBVIOUS
  <2> DEFINE n == Min(Stuck)
  <2>1. Stuck \in SUBSET (0..MaxRow)
    OBVIOUS
  <2>2. n \in Stuck /\ \A x \in Stuck : n <= x
    <3> HIDE DEF Stuck
    <3> QED BY <1>1, <2>1, MinOfBounded
  <2>3. n \in 0..MaxRow /\ n # 0 /\ ~ \E f : LastYears(s, today, n, f)
    BY <1>2, <2>2
  <2>4. n - 1 \in 0..MaxRow /\ n - 1 < MaxRow /\ n - 1 + 1 = n
    BY <1>1, <2>3
  <2>5. n - 1 \notin Stuck
    <3>1. n \in Int /\ ~(n <= n - 1)
      <4>1. n \in Int
        BY <1>1, <2>3
      <4> HIDE DEF n
      <4> QED BY <4>1
    <3> HIDE DEF n, Stuck
    <3> QED BY <2>2, <3>1
  <2>6. \E f : LastYears(s, today, n - 1, f)
    BY <2>4, <2>5
  <2>7. \E g : LastYears(s, today, n - 1 + 1, g)
    <3> HIDE DEF n
    <3> QED BY <2>4, <2>6, OneYearMore
  <2> QED BY <2>3, <2>4, <2>7
<1>4. PICK f : LastYears(s, today, MaxRow, f)
  BY <1>1, <1>3
<1>5. f \in [Recognised(s) -> Int]
      /\ \A p \in Recognised(s) : f[p] = YearRule(s, today, f, p)
  BY <1>1, <1>4 DEF LastYears
<1>6. f = [p \in Recognised(s) |-> YearRule(s, today, f, p)]
  BY <1>5
<1> QED BY <1>5, <1>6, YearsAreByTheRule

\* Every recognised block has a year, and it is the one the rule gives.
LEMMA YearsFollowTheRule ==
  ASSUME NEW s \in Tab, NEW today \in Date
  PROVE  /\ DOMAIN YearOf(s, today) = Recognised(s)
         /\ \A p \in Recognised(s) :
              YearOf(s, today)[p] = YearRule(s, today, YearOf(s, today), p)
<1>1. YearOf(s, today) = CHOOSE f : YearsAre(s, today, f)
  BY DEF YearOf, YearsAre
<1>2. YearsAre(s, today, YearOf(s, today))
  BY <1>1, YearsExist
<1>3. YearOf(s, today) =
        [p \in Recognised(s) |-> YearRule(s, today, YearOf(s, today), p)]
  BY <1>2, YearsAreByTheRule
<1> DEFINE years == YearOf(s, today)
<1> HIDE DEF years
<1>4. years = [p \in Recognised(s) |-> YearRule(s, today, years, p)]
  BY <1>3 DEF years
<1>5. /\ DOMAIN years = Recognised(s)
      /\ \A p \in Recognised(s) : years[p] = YearRule(s, today, years, p)
  BY <1>4
<1> QED BY <1>5 DEF years

-----------------------------------------------------------------------------
(* Months in order.                                                        *)

\* The n-th month of year y comes before the m-th of year z.
Before(y, n, z, m) == y < z \/ (y = z /\ n < m)

\* Headings by the rows where their blocks begin, and years for them.
NoneBelow(heads, b) == \A q \in DOMAIN heads : q <= b
NextBelow(heads, b, q) ==
  q \in DOMAIN heads /\ b < q /\ \A x \in DOMAIN heads : b < x => q <= x

Headings(heads) ==
  /\ DOMAIN heads \subseteq Rows
  /\ \A b \in DOMAIN heads : heads[b].n \in Int /\ heads[b].year \in Nat

\* The years are those assign_dates gives the headings.
Dating(heads, years, today) ==
  /\ Headings(heads) /\ years \in [DOMAIN heads -> Int]
  /\ \A b \in DOMAIN heads :
       /\ heads[b].year # 0 => years[b] = heads[b].year
       /\ (heads[b].year = 0 /\ NoneBelow(heads, b)) =>
            years[b] = SeedYear(heads[b].n, today)
       /\ \A q \in DOMAIN heads : (heads[b].year = 0 /\ NextBelow(heads, b, q)) =>
            years[b] = IF heads[b].n >= heads[q].n THEN years[q] - 1 ELSE years[q]

\* Months follow each other downwards, and none is yet to come.
InOrder(heads, years, today) ==
  \A b \in DOMAIN heads :
    /\ ~Before(today.year, today.month, years[b], heads[b].n)
    /\ \A q \in DOMAIN heads :
         b < q => Before(years[b], heads[b].n, years[q], heads[q].n)

LEMMA NextHeading ==
  ASSUME NEW heads, Headings(heads), NEW b \in DOMAIN heads
  PROVE  NoneBelow(heads, b) \/ \E q \in DOMAIN heads : NextBelow(heads, b, q)
<1> DEFINE below == {q \in DOMAIN heads : b < q}
<1>1. below \in SUBSET (0..MaxRow) /\ MaxRow \in Nat /\ b \in Nat
      /\ \A q \in DOMAIN heads : q \in Nat
  BY GridAssumption DEF Headings, Rows
<1>2. CASE below = {}
  BY <1>1, <1>2 DEF NoneBelow
<1>3. CASE below # {}
  <2>1. Min(below) \in below /\ \A x \in below : Min(below) <= x
    <3> HIDE DEF below
    <3> QED BY <1>1, <1>3, MinOfBounded
  <2> QED BY <2>1 DEF NextBelow
<1> QED BY <1>2, <1>3

\* Headings keep their years when others are added below, years written out and
\* the calendar turned, if the newest of them does.
LEMMA SameYears ==
  ASSUME NEW heads, NEW years, NEW today, Dating(heads, years, today),
         NEW heads2, NEW years2, NEW today2, Dating(heads2, years2, today2),
         DOMAIN heads \subseteq DOMAIN heads2,
         \A x \in DOMAIN heads2 \ DOMAIN heads, b \in DOMAIN heads : b < x,
         \A b \in DOMAIN heads : /\ heads2[b].n = heads[b].n
                                 /\ heads2[b].year \in {heads[b].year, years[b]},
         \A b \in DOMAIN heads :
           (NoneBelow(heads, b) /\ heads2[b].year = 0) => years2[b] = years[b]
  PROVE  \A b \in DOMAIN heads : years2[b] = years[b]
<1> DEFINE Wrong == {b \in DOMAIN heads : years2[b] # years[b]}
<1> SUFFICES ASSUME Wrong # {} PROVE FALSE
  OBVIOUS
<1>1. /\ Wrong \in SUBSET (0..MaxRow) /\ MaxRow \in Nat
      /\ \A q \in DOMAIN heads2 : q \in Nat
  BY GridAssumption DEF Dating, Headings, Rows
<1>2. PICK b \in DOMAIN heads : years2[b] # years[b] /\ \A x \in Wrong : x <= b
  <2>1. Max(Wrong) \in Wrong /\ \A x \in Wrong : x <= Max(Wrong)
    <3> HIDE DEF Wrong
    <3> QED BY <1>1, MaxOfBounded
  <2> QED BY <2>1
<1>3. \A q \in DOMAIN heads : b < q => years2[q] = years[q]
  BY <1>1, <1>2
<1> HIDE DEF Wrong
<1>4. b \in DOMAIN heads2 /\ Headings(heads) /\ Headings(heads2)
  BY DEF Dating
<1>5. CASE heads2[b].year # 0
  BY <1>2, <1>4, <1>5 DEF Dating
<1>6. CASE heads2[b].year = 0
  <2>1. heads[b].year = 0
    BY <1>4, <1>6 DEF Dating
  <2>2. PICK q \in DOMAIN heads : NextBelow(heads, b, q)
    BY <1>2, <1>4, <1>6, NextHeading
  <2>3. NextBelow(heads2, b, q)
    BY <1>1, <2>2 DEF NextBelow
  <2>4. q \in DOMAIN heads2 /\ years2[q] = years[q]
    BY <1>3, <2>2 DEF NextBelow
  <2>5. years[b] = IF heads[b].n >= heads[q].n THEN years[q] - 1 ELSE years[q]
    BY <2>1, <2>2 DEF Dating
  <2>6. years2[b] = IF heads2[b].n >= heads2[q].n THEN years2[q] - 1 ELSE years2[q]
    BY <1>4, <1>6, <2>3, <2>4 DEF Dating
  <2> QED BY <1>2, <2>4, <2>5, <2>6
<1> QED BY <1>5, <1>6

\* Headings in order stay in order when some go, and none gets an earlier year.
LEMMA FewerInOrder ==
  ASSUME NEW heads, NEW years, NEW today \in Date, Dating(heads, years, today),
         InOrder(heads, years, today),
         NEW heads2, NEW years2, Dating(heads2, years2, today),
         DOMAIN heads2 \subseteq DOMAIN heads,
         \A b \in DOMAIN heads2 : heads2[b] = heads[b]
  PROVE  /\ InOrder(heads2, years2, today)
         /\ \A b \in DOMAIN heads2 : years[b] <= years2[b]
<1> DEFINE Good(b) ==
       /\ years[b] <= years2[b]
       /\ ~Before(today.year, today.month, years2[b], heads2[b].n)
       /\ \A q \in DOMAIN heads2 : b < q => Before(years2[b], heads2[b].n, years2[q], heads2[q].n)
    Bad == {b \in DOMAIN heads2 : ~Good(b)}
<1> SUFFICES ASSUME Bad # {} PROVE FALSE
  BY DEF InOrder
<1>1. /\ Bad \in SUBSET (0..MaxRow) /\ MaxRow \in Nat
      /\ \A q \in DOMAIN heads : q \in Nat
  BY GridAssumption DEF Dating, Headings, Rows
<1>2. PICK b \in DOMAIN heads2 : ~Good(b) /\ \A x \in Bad : x <= b
  <2>1. Max(Bad) \in Bad /\ \A x \in Bad : x <= Max(Bad)
    <3> HIDE DEF Bad
    <3> QED BY <1>1, MaxOfBounded
  <2> QED BY <2>1
<1>3. \A q \in DOMAIN heads2 : b < q => Good(q)
  BY <1>1, <1>2
<1> HIDE DEF Bad
<1>4. /\ b \in DOMAIN heads /\ heads2[b] = heads[b] /\ Headings(heads2)
      /\ heads[b].n \in Int /\ heads[b].year \in Nat /\ years[b] \in Int /\ years2[b] \in Int
      /\ today.year \in Int /\ today.month \in Int
  BY DEF Dating, Headings, Date, Months
<1>5. ~Before(today.year, today.month, years[b], heads[b].n)
  BY <1>4 DEF InOrder
<1>6. CASE NoneBelow(heads2, b)
  <2>1. \A q \in DOMAIN heads2 : ~(b < q)
    BY <1>1, <1>6 DEF NoneBelow
  <2>2. CASE heads[b].year # 0
    BY <1>2, <1>4, <1>5, <2>1, <2>2 DEF Dating
  <2>3. CASE heads[b].year = 0
    <3>1. years2[b] = SeedYear(heads[b].n, today)
      BY <1>4, <1>6, <2>3 DEF Dating
    <3>2. years[b] <= years2[b] /\ ~Before(today.year, today.month, years2[b], heads[b].n)
      BY <1>4, <1>5, <3>1 DEF Before, SeedYear
    <3> QED BY <1>2, <1>4, <2>1, <3>2
  <2> QED BY <2>2, <2>3
<1>7. ASSUME NEW q \in DOMAIN heads2, NextBelow(heads2, b, q)
      PROVE  FALSE
  <2>1. b < q /\ q \in DOMAIN heads /\ heads2[q] = heads[q] /\ heads[q].n \in Int
        /\ years[q] \in Int /\ years2[q] \in Int /\ Good(q)
    BY <1>3, <1>7 DEF NextBelow, Dating, Headings
  <2>2. Before(years[b], heads[b].n, years[q], heads[q].n)
    BY <1>4, <2>1 DEF InOrder
  <2>3. years[b] <= years2[b] /\ Before(years2[b], heads2[b].n, years2[q], heads2[q].n)
    <3>1. CASE heads[b].year # 0
      <4>1. years2[b] = years[b]
        BY <1>4, <3>1 DEF Dating
      <4> QED BY <1>4, <2>1, <2>2, <4>1 DEF Before
    <3>2. CASE heads[b].year = 0
      <4>1. years2[b] = IF heads[b].n >= heads[q].n THEN years2[q] - 1 ELSE years2[q]
        BY <1>4, <1>7, <2>1, <3>2 DEF Dating
      <4> QED BY <1>4, <2>1, <2>2, <4>1 DEF Before
    <3> QED BY <3>1, <3>2
  <2>4. ASSUME NEW x \in DOMAIN heads2, b < x
        PROVE  Before(years2[b], heads2[b].n, years2[x], heads2[x].n)
    <3>1. x = q \/ q < x
      BY <1>1, <1>7, <2>4 DEF NextBelow
    <3>2. q < x => Before(years2[q], heads2[q].n, years2[x], heads2[x].n)
      BY <2>1, <2>4
    <3>3. heads2[x].n \in Int /\ years2[x] \in Int
      BY DEF Dating, Headings
    <3> QED BY <1>4, <2>1, <2>3, <3>1, <3>2, <3>3 DEF Before
  <2>5. ~Before(today.year, today.month, years2[b], heads2[b].n)
    BY <1>4, <2>1, <2>3 DEF Before
  <2> QED BY <1>2, <2>3, <2>4, <2>5
<1> QED BY <1>4, <1>6, <1>7, NextHeading

-----------------------------------------------------------------------------
(* The headings of a tab, their years, and the time under them.            *)

MonthIn(text) == IF text.kind = "month" THEN text.n ELSE 0

HeadRows(s) == {b \in BlockStarts(s) : MonthIn(NameAt(s, b)) # 0}
HeadsOf(s) == [b \in HeadRows(s) |-> NameAt(s, b)]
YearsAt(s, today) == [b \in HeadRows(s) |-> YearOf(s, today)[PeriodAt(s, b)]]

LEMMA HeadedBlocks ==
  ASSUME NEW s \in Tab
  PROVE  /\ \A b \in HeadRows(s) :
              /\ b \in Rows /\ b \in Nat /\ b \in BlockStarts(s) /\ NameAt(s, b) \in Text
              /\ PeriodAt(s, b) \in Recognised(s) /\ PeriodAt(s, b) \in Periods(s)
              /\ PeriodAt(s, b).first = b
              /\ MonthOf(PeriodAt(s, b)) = NameAt(s, b).n
              /\ ExplicitYear(PeriodAt(s, b)) = NameAt(s, b).year
         /\ \A p \in Recognised(s) : p.first \in HeadRows(s) /\ p = PeriodAt(s, p.first)
<1>1. ASSUME NEW b \in BlockStarts(s)
      PROVE  /\ b \in Rows /\ b \in Nat /\ NameAt(s, b) \in Text
             /\ PeriodAt(s, b) \in Periods(s) /\ PeriodAt(s, b).first = b
             /\ PeriodAt(s, b).name = NameAt(s, b)
  <2>1. b \in Rows /\ b \in Nat
    BY DEF BlockStarts, RunStarts, Rows
  <2>2. PeriodAt(s, b) \in Periods(s)
    BY DEF BlockStarts, Periods
  <2>3. PeriodAt(s, b).first = b /\ PeriodAt(s, b).name = NameAt(s, b)
    BY DEF PeriodAt, NameAt
  <2>4. NameAt(s, b) \in Text
    BY <2>2, <2>3, PeriodType
  <2> QED BY <2>1, <2>2, <2>3, <2>4
<1>2. ASSUME NEW b \in HeadRows(s)
      PROVE  /\ PeriodAt(s, b) \in Recognised(s)
             /\ MonthOf(PeriodAt(s, b)) = NameAt(s, b).n
             /\ ExplicitYear(PeriodAt(s, b)) = NameAt(s, b).year
  BY <1>1 DEF HeadRows, MonthIn, MonthOf, ExplicitYear, Recognised
<1>3. ASSUME NEW p \in Recognised(s)
      PROVE  p.first \in HeadRows(s) /\ p = PeriodAt(s, p.first)
  <2>1. p \in Periods(s) /\ MonthOf(p) # 0
    BY DEF Recognised
  <2>2. PICK b \in BlockStarts(s) : p = PeriodAt(s, b)
    BY <2>1 DEF Periods, BlockStarts
  <2>3. p.first = b /\ p.name = NameAt(s, b)
    BY <1>1, <2>2
  <2> QED BY <2>1, <2>2, <2>3 DEF HeadRows, MonthIn, MonthOf
<1> QED BY <1>1, <1>2, <1>3 DEF HeadRows

\* The headings of a tab are dated as the code dates them.
LEMMA TabIsDated ==
  ASSUME NEW s \in Tab, NEW today \in Date
  PROVE  Dating(HeadsOf(s), YearsAt(s, today), today)
<1> DEFINE heads == HeadsOf(s)
           years == YearsAt(s, today)
<1>1. /\ DOMAIN heads = HeadRows(s) /\ \A b \in HeadRows(s) : heads[b] = NameAt(s, b)
      /\ DOMAIN years = HeadRows(s)
      /\ \A b \in HeadRows(s) : years[b] = YearOf(s, today)[PeriodAt(s, b)]
      /\ years = [b \in HeadRows(s) |-> years[b]]
  BY DEF HeadsOf, YearsAt
<1> HIDE DEF heads, years
<1>2. Headings(heads)
  BY <1>1, HeadedBlocks DEF Headings, Text
<1>3. ASSUME NEW b \in HeadRows(s)
      PROVE  /\ heads[b].year # 0 => years[b] = heads[b].year
             /\ (heads[b].year = 0 /\ NoneBelow(heads, b)) =>
                  years[b] = SeedYear(heads[b].n, today)
             /\ \A q \in DOMAIN heads : (heads[b].year = 0 /\ NextBelow(heads, b, q)) =>
                  years[b] = IF heads[b].n >= heads[q].n THEN years[q] - 1 ELSE years[q]
  <2> DEFINE p == PeriodAt(s, b)
  <2>1. /\ p \in Recognised(s) /\ p.first = b /\ b \in Nat
        /\ MonthOf(p) = heads[b].n /\ ExplicitYear(p) = heads[b].year
    BY <1>1, HeadedBlocks
  <2>2. years[b] = YearRule(s, today, YearOf(s, today), p)
    BY <1>1, <2>1, YearsFollowTheRule
  <2> HIDE DEF p
  <2>3. heads[b].year # 0 => years[b] = heads[b].year
    BY <2>1, <2>2 DEF YearRule
  <2>4. NoneBelow(heads, b) => BelowOf(s, p) = {}
    <3> SUFFICES ASSUME NoneBelow(heads, b), NEW q \in BelowOf(s, p) PROVE FALSE
      OBVIOUS
    <3>1. q.first \in HeadRows(s) /\ q.first \in Nat /\ b < q.first
      BY <2>1, HeadedBlocks DEF BelowOf
    <3> QED BY <1>1, <2>1, <3>1 DEF NoneBelow
  <2>5. ASSUME NEW q \in DOMAIN heads, NextBelow(heads, b, q)
        PROVE  BelowOf(s, p) # {} /\ Topmost(BelowOf(s, p)) = PeriodAt(s, q)
    <3>1. /\ q \in HeadRows(s) /\ b < q /\ q \in Nat
          /\ PeriodAt(s, q) \in Recognised(s) /\ PeriodAt(s, q).first = q
      BY <1>1, <2>5, HeadedBlocks DEF NextBelow
    <3>2. PeriodAt(s, q) \in BelowOf(s, p)
      BY <2>1, <3>1 DEF BelowOf
    <3>3. BelowOf(s, p) \in SUBSET Periods(s)
      BY DEF BelowOf, Recognised
    <3> DEFINE x == Topmost(BelowOf(s, p))
    <3>4. x \in BelowOf(s, p) /\ \A y \in BelowOf(s, p) : x.first <= y.first
      BY <3>2, <3>3, TopmostAndLowest
    <3> HIDE DEF x
    <3>5. x \in Recognised(s) /\ b < x.first /\ x.first <= q
      BY <2>1, <3>1, <3>2, <3>4 DEF BelowOf
    <3>6. x.first \in HeadRows(s) /\ x.first \in Nat /\ x = PeriodAt(s, x.first)
      BY <3>5, HeadedBlocks
    <3>7. q <= x.first
      BY <1>1, <2>5, <3>5, <3>6 DEF NextBelow
    <3>8. x.first = q
      BY <3>1, <3>5, <3>6, <3>7
    <3>9. x = PeriodAt(s, q)
      BY <3>6, <3>8
    <3> QED BY <3>2, <3>9 DEF x
  <2>6. ASSUME NEW q \in DOMAIN heads, heads[b].year = 0, NextBelow(heads, b, q)
        PROVE  years[b] = IF heads[b].n >= heads[q].n THEN years[q] - 1 ELSE years[q]
    <3>1. /\ MonthOf(PeriodAt(s, q)) = heads[q].n
          /\ years[q] = YearOf(s, today)[PeriodAt(s, q)]
      BY <1>1, HeadedBlocks
    <3> QED BY <2>1, <2>2, <2>5, <2>6, <3>1 DEF YearRule
  <2> QED BY <2>1, <2>2, <2>3, <2>4, <2>6 DEF YearRule
<1>4. \A b \in HeadRows(s) : years[b] \in Int
  <2> DEFINE Bad == {b \in HeadRows(s) : years[b] \notin Int}
  <2> SUFFICES ASSUME Bad # {} PROVE FALSE
    OBVIOUS
  <2>1. Bad \in SUBSET (0..MaxRow) /\ MaxRow \in Nat
    BY HeadedBlocks, GridAssumption DEF Rows
  <2>2. PICK b \in HeadRows(s) : years[b] \notin Int /\ \A x \in Bad : x <= b
    <3>1. Max(Bad) \in Bad /\ \A x \in Bad : x <= Max(Bad)
      <4> HIDE DEF Bad
      <4> QED BY <2>1, MaxOfBounded
    <3> QED BY <3>1
  <2>3. \A q \in HeadRows(s) : b < q => years[q] \in Int
    BY <2>2, HeadedBlocks
  <2> HIDE DEF Bad
  <2>4. heads[b].year # 0
    <3> SUFFICES ASSUME heads[b].year = 0 PROVE FALSE
      OBVIOUS
    <3>1. ~NoneBelow(heads, b)
      BY <1>3, <2>2 DEF SeedYear, Date
    <3>2. PICK q \in DOMAIN heads : NextBelow(heads, b, q)
      BY <1>1, <1>2, <2>2, <3>1, NextHeading
    <3>3. years[q] \in Int
      BY <1>1, <2>3, <3>2 DEF NextBelow
    <3> QED BY <1>3, <2>2, <3>2, <3>3
  <2> QED BY <1>1, <1>2, <1>3, <2>2, <2>4 DEF Headings
<1>5. years \in [DOMAIN heads -> Int]
  BY <1>1, <1>4
<1>6. Dating(heads, years, today)
  BY <1>1, <1>2, <1>3, <1>5 DEF Dating
<1> QED BY <1>6 DEF heads, years

\* The time in a cell, under its day and label.
EntryAt(s, years, b, row, col) ==
  [date |-> [year |-> years[b], month |-> NameAt(s, b).n, day |-> row - b + 1],
   label |-> s[b + LabelOffset][col], hours |-> Parse(s[row][col])]

Counts(e) == e.hours > 0 /\ e.date.day <= DaysIn[<<e.date.year, e.date.month>>]

Cell(s, b, row, col) == row \in b..RunEnd(s, b) /\ col \in Filled(s, b + LabelOffset)

LEMMA RecordedAre ==
  ASSUME NEW s \in Tab, NEW today \in Date, NEW e
  PROVE  e \in Recorded(s, today) <=>
           /\ Counts(e)
           /\ \E b \in HeadRows(s) : \E row \in Rows, col \in 0..Width :
                Cell(s, b, row, col) /\ e = EntryAt(s, YearsAt(s, today), b, row, col)
<1> DEFINE years == YearOf(s, today)
           dated == {[block |-> p, year |-> years[p]] : p \in Recognised(s)}
           entries(d) ==
             {[date |-> [year |-> d.year, month |-> MonthOf(d.block),
                         day |-> x[1] - d.block.first + 1],
               label |-> s[d.block.label][x[2]], hours |-> Parse(s[x[1]][x[2]])] :
                x \in (d.block.first .. d.block.last) \X LabelColumns(s, d.block)}
<1>1. e \in Recorded(s, today) <=>
        Counts(e) /\ \E d \in dated : e \in entries(d)
  BY DEF Recorded, Counts
<1>2. ASSUME NEW b \in HeadRows(s)
      PROVE  LET d == [block |-> PeriodAt(s, b), year |-> years[PeriodAt(s, b)]]
             IN e \in entries(d) <=>
                \E row \in Rows, col \in 0..Width :
                  Cell(s, b, row, col) /\ e = EntryAt(s, YearsAt(s, today), b, row, col)
  <2> DEFINE p == PeriodAt(s, b)
             d == [block |-> p, year |-> years[p]]
  <2>1. /\ p.first = b /\ p.last = RunEnd(s, b) /\ p.label = b + LabelOffset
        /\ MonthOf(p) = NameAt(s, b).n /\ d.block = p /\ d.year = YearsAt(s, today)[b]
    BY HeadedBlocks DEF PeriodAt, YearsAt
  <2>2. b..RunEnd(s, b) \subseteq Rows /\ Filled(s, b + LabelOffset) \subseteq 0..Width
    <3>1. b \in Rows /\ b \in Nat /\ RunEnd(s, b) \in b..MaxRow
      BY HeadedBlocks, RunEndType DEF BlockStarts
    <3> QED BY <3>1, GridAssumption DEF Rows, Filled
  <2> HIDE DEF p, d, years
  <2>3. e \in entries(d) <=>
          \E row \in b..RunEnd(s, b), col \in Filled(s, b + LabelOffset) :
            e = EntryAt(s, YearsAt(s, today), b, row, col)
    <3>1. e \in entries(d) <=>
            \E x \in (b .. RunEnd(s, b)) \X Filled(s, b + LabelOffset) :
              e = EntryAt(s, YearsAt(s, today), b, x[1], x[2])
      BY <2>1 DEF EntryAt, LabelColumns
    <3> DEFINE days == b .. RunEnd(s, b)
               columns == Filled(s, b + LabelOffset)
    <3> HIDE DEF days, columns
    <3>2. ASSUME NEW x \in days \X columns, e = EntryAt(s, YearsAt(s, today), b, x[1], x[2])
          PROVE  \E row \in days, col \in columns :
                   e = EntryAt(s, YearsAt(s, today), b, row, col)
      <4>1. x[1] \in days /\ x[2] \in columns
        OBVIOUS
      <4> QED BY <3>2, <4>1
    <3>3. ASSUME NEW row \in days, NEW col \in columns,
                 e = EntryAt(s, YearsAt(s, today), b, row, col)
          PROVE  \E x \in days \X columns : e = EntryAt(s, YearsAt(s, today), b, x[1], x[2])
      <4>1. /\ <<row, col>> \in days \X columns
            /\ <<row, col>>[1] = row /\ <<row, col>>[2] = col
        OBVIOUS
      <4>2. e = EntryAt(s, YearsAt(s, today), b, <<row, col>>[1], <<row, col>>[2])
        BY <3>3, <4>1
      <4> QED BY <4>1, <4>2
    <3>4. (\E x \in days \X columns : e = EntryAt(s, YearsAt(s, today), b, x[1], x[2]))
            <=> \E row \in days, col \in columns : e = EntryAt(s, YearsAt(s, today), b, row, col)
      BY <3>2, <3>3
    <3> QED BY <3>1, <3>4 DEF days, columns
  <2> QED BY <2>2, <2>3 DEF Cell, d, p
<1>3. \A d : d \in dated <=>
        \E b \in HeadRows(s) : d = [block |-> PeriodAt(s, b), year |-> years[PeriodAt(s, b)]]
  BY HeadedBlocks
<1> HIDE DEF years, dated, entries
<1> QED BY <1>1, <1>2, <1>3
=============================================================================
