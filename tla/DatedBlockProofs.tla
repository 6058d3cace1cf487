-------------------------- MODULE DatedBlockProofs --------------------------
(***************************************************************************)
(* What the operators of DatedBlock return, for every tab and profile:     *)
(* the facts the proofs about the tools rest on.                           *)
(***************************************************************************)
EXTENDS DatedBlock, BoundedSets, SequenceTheorems

-----------------------------------------------------------------------------
(* Facts about the layout.                                                 *)

\* Nothing is populated below the last populated row.
LEMMA LastPopulatedRowBounds ==
  ASSUME NEW s \in Sheet
  PROVE  /\ LastPopulatedRow(s) \in 0..MaxRow
         /\ \A r \in Rows : Populated(s[r]) => r <= LastPopulatedRow(s)
<1> DEFINE S == {0} \cup PopulatedRows(s)
<1>1. S \in SUBSET (0..MaxRow) /\ S # {}
  BY LayoutAssumption DEF PopulatedRows, Rows
<1>2. Max(S) \in S /\ \A x \in S : x <= Max(S)
  BY <1>1, MaxOfBounded, LayoutAssumption
<1> QED BY <1>1, <1>2 DEF LastPopulatedRow, PopulatedRows

\* The date row above a row is the last date row not below it.
LEMMA BlockRowBounds ==
  ASSUME NEW s \in Sheet, NEW r \in Nat
  PROVE  /\ BlockRow(s, r) \in 0..MaxRow
         /\ BlockRow(s, r) # 0 => BlockRow(s, r) \in DateRows(s) /\ BlockRow(s, r) <= r
         /\ \A d \in DateRows(s) : d <= r => d <= BlockRow(s, r)
<1> DEFINE S == {0} \cup {d \in DateRows(s) : d <= r}
<1>1. S \in SUBSET (0..MaxRow) /\ S # {}
  BY LayoutAssumption DEF DateRows, Rows
<1>2. Max(S) \in S /\ \A x \in S : x <= Max(S)
  BY <1>1, MaxOfBounded, LayoutAssumption
<1> QED BY <1>1, <1>2 DEF BlockRow

\* A date row holds something.
LEMMA DateRowsArePopulated ==
  ASSUME NEW s \in Sheet, NEW d \in DateRows(s)
  PROVE  d \in Rows /\ Populated(s[d])
BY LayoutAssumption DEF DateRows, Populated, Columns

LEMMA ItemRowType ==
  ASSUME NEW i \in Item
  PROVE  ItemRow(i) \in Row
<1>1. i.name \in Text /\ \A c \in DOMAIN i.values : i.values[c] \in Text
  BY DEF Item
<1>2. Blank \in Text
  BY DEF Text
<1> QED BY <1>1, <1>2 DEF ItemRow, Row

LEMMA DateRowType ==
  ASSUME NEW d \in Dates
  PROVE  DateRow(d) \in Row
BY LayoutAssumption DEF DateRow, Row, Text

LEMMA PayloadType ==
  ASSUME NEW m \in Modes, NEW d \in Dates, NEW items \in Seq(Item)
  PROVE  Payload(m, d, items) \in Seq(Row)
<1> DEFINE n == Len(items)
<1>1. n \in Nat /\ \A i \in 1..n : items[i] \in Item
  OBVIOUS
<1>2. ASSUME m = "append-to-existing"
      PROVE  Payload(m, d, items) \in [1..n -> Row]
  BY <1>1, <1>2, ItemRowType DEF Payload
<1>3. ASSUME m # "append-to-existing"
      PROVE  Payload(m, d, items) \in [1..(n + 1) -> Row]
  <2>1. \A i \in 1..(n + 1) : i # 1 => i - 1 \in 1..n
    BY <1>1
  <2>2. DateRow(d) \in Row
    BY DateRowType
  <2>3. \A i \in 1..(n + 1) :
          (IF i = 1 THEN DateRow(d) ELSE ItemRow(items[i - 1])) \in Row
    BY <1>1, <2>1, <2>2, ItemRowType
  <2> QED BY <1>3, <2>3 DEF Payload
<1> QED BY <1>1, <1>2, <1>3, IsASeq

\* plan_session returns a plan: a range below every populated row, and a row
\* of text for each row of it.
LEMMA PlanSessionType ==
  ASSUME NEW s \in Sheet, NEW d \in Dates, NEW items \in Seq(Item), NEW m \in Modes
  PROVE  /\ PlanSession(s, d, items, m) \in Plan
         /\ PlanSession(s, d, items, m).first > LastPopulatedRow(s)
<1>1. ResolvedMode(s, d, m) \in Modes
  BY DEF ResolvedMode, Modes
<1>2. Payload(ResolvedMode(s, d, m), d, items) \in Seq(Row)
  BY <1>1, PayloadType
<1>3. LastPopulatedRow(s) \in Nat
  BY LastPopulatedRowBounds, LayoutAssumption
<1> QED BY <1>1, <1>2, <1>3 DEF PlanSession, Plan

LEMMA OverwriteType ==
  ASSUME NEW s \in Sheet, NEW p \in Plan
  PROVE  Overwrite(s, p) \in Sheet
<1> SUFFICES ASSUME NEW r \in Rows
             PROVE  Overwrite(s, p)[r] \in Row
  BY DEF Overwrite, Sheet
<1>1. CASE r \in PlannedRows(p)
  <2>1. r - p.first + 1 \in 1..Len(p.rows)
    BY <1>1 DEF PlannedRows, Rows, Plan
  <2> QED BY <1>1, <2>1 DEF Overwrite, Plan
<1>2. CASE r \notin PlannedRows(p)
  BY <1>2 DEF Overwrite, Sheet
<1> QED BY <1>1, <1>2

\* Writing a range twice leaves what writing it once does.
LEMMA OverwriteIsIdempotent ==
  ASSUME NEW s \in Sheet, NEW p \in Plan
  PROVE  Overwrite(Overwrite(s, p), p) = Overwrite(s, p)
BY DEF Overwrite

\* A session is written below everything the plan was computed from.
LEMMA PlannedWriteIsBelow ==
  ASSUME NEW s \in Sheet, NEW p \in Plan, p.first > LastPopulatedRow(s),
         NEW r \in Rows, Populated(s[r])
  PROVE  r \notin PlannedRows(p) /\ Overwrite(s, p)[r] = s[r]
BY LastPopulatedRowBounds DEF Overwrite, PlannedRows, Plan, Rows

-----------------------------------------------------------------------------
(* Calendar order.                                                         *)

\* A planned range whose only date row is its first, with a date no earlier
\* than any in the tab.
ContinuesTheOrder(s, p) ==
  \A i \in 1..Len(p.rows) : p.rows[i][0] \in Dates =>
    i = 1 /\ \A d \in DateRows(s) : s[d][0] <= p.rows[1][0]

\* The last block of an ordered tab has the latest date.
LEMMA LastBlockIsLatest ==
  ASSUME NEW s \in Sheet, Ascending(s), NEW d \in DateRows(s)
  PROVE  LastBlockRow(s) # 0 /\ s[d][0] <= BlockDate(s, MaxRow)
<1>1. d \in Rows /\ MaxRow \in Nat
  BY DateRowsArePopulated, LayoutAssumption
<1>2. d <= MaxRow
  BY <1>1 DEF Rows
<1>3. d <= LastBlockRow(s)
  BY <1>1, <1>2, BlockRowBounds DEF LastBlockRow
<1>4. LastBlockRow(s) \in 0..MaxRow /\ LastBlockRow(s) # 0
  BY <1>1, <1>3, BlockRowBounds DEF LastBlockRow, Rows
<1>5. LastBlockRow(s) \in DateRows(s)
  BY <1>1, <1>4, BlockRowBounds DEF LastBlockRow
<1>6. s[d][0] \in Nat
  BY LayoutAssumption DEF DateRows
<1>7. s[d][0] <= s[LastBlockRow(s)][0]
  <2>1. CASE d = LastBlockRow(s)
    BY <2>1, <1>6
  <2>2. CASE d < LastBlockRow(s)
    BY <2>2, <1>5 DEF Ascending
  <2> QED BY <2>1, <2>2, <1>1, <1>3, <1>4 DEF Rows
<1> QED BY <1>4, <1>7 DEF BlockDate, LastBlockRow

\* The range plan_session returns continues the order of the tab, when the
\* target is not earlier than the last block, the date it writes reads back as
\* itself, and no item is named like a date.
LEMMA PlanContinuesTheOrder ==
  ASSUME NEW s \in Sheet, Ascending(s), NEW d \in Dates, ReadBack[d] = d,
         NEW items \in Seq(Item), NEW m \in Modes,
         \A i \in DOMAIN items : items[i].name \notin Dates,
         LastBlockRow(s) # 0 => ~(d < BlockDate(s, MaxRow))
  PROVE  ContinuesTheOrder(s, PlanSession(s, d, items, m))
<1> DEFINE rows == PlanSession(s, d, items, m).rows
<1>1. \A i \in 1..Len(items) : ItemRow(items[i])[0] \notin Dates
  BY LayoutAssumption DEF ItemRow, Columns
<1>2. DateRow(d)[0] = d
  BY LayoutAssumption DEF DateRow, Columns
<1>3. \A e \in DateRows(s) : s[e][0] <= d
  <2> SUFFICES ASSUME NEW e \in DateRows(s) PROVE s[e][0] <= d
    OBVIOUS
  <2>1. LastBlockRow(s) # 0 /\ s[e][0] <= BlockDate(s, MaxRow)
    BY LastBlockIsLatest
  <2>2. BlockDate(s, MaxRow) \in Nat
    BY <2>1, BlockRowBounds, LayoutAssumption DEF BlockDate, LastBlockRow, DateRows
  <2>3. s[e][0] \in Nat /\ d \in Nat
    BY LayoutAssumption DEF DateRows
  <2> QED BY <2>1, <2>2, <2>3
<1>4. CASE ResolvedMode(s, d, m) = "append-to-existing"
  <2>1. rows = [i \in 1..Len(items) |-> ItemRow(items[i])]
    BY <1>4 DEF PlanSession, Payload
  <2>2. Len(rows) = Len(items)
    BY <2>1
  <2>3. \A i \in 1..Len(rows) : rows[i][0] \notin Dates
    BY <1>1, <2>1, <2>2
  <2> QED BY <2>3 DEF ContinuesTheOrder
<1>5. CASE ResolvedMode(s, d, m) # "append-to-existing"
  <2>1. rows = [i \in 1..(Len(items) + 1) |->
                  IF i = 1 THEN DateRow(d) ELSE ItemRow(items[i - 1])]
    BY <1>5 DEF PlanSession, Payload
  <2>2. Len(rows) = Len(items) + 1
    BY <2>1
  <2>3. rows[1][0] = d
    BY <1>2, <2>1
  <2>4. \A i \in 1..Len(rows) : i # 1 => rows[i][0] \notin Dates
    <3> SUFFICES ASSUME NEW i \in 1..Len(rows), i # 1 PROVE rows[i][0] \notin Dates
      OBVIOUS
    <3>1. i - 1 \in 1..Len(items)
      BY <2>2
    <3>2. rows[i] = ItemRow(items[i - 1])
      BY <2>1, <2>2
    <3> QED BY <3>1, <3>2, <1>1
  <2> QED BY <1>3, <2>3, <2>4 DEF ContinuesTheOrder
<1> QED BY <1>4, <1>5

\* Writing such a range below everything else keeps the tab in order.
LEMMA WriteKeepsTheOrder ==
  ASSUME NEW s \in Sheet, NEW p \in Plan, Ascending(s), ContinuesTheOrder(s, p),
         p.first > LastPopulatedRow(s)
  PROVE  Ascending(Overwrite(s, p))
<1> DEFINE t == Overwrite(s, p)
<1> SUFFICES ASSUME NEW d \in DateRows(t), NEW e \in DateRows(t), d < e
             PROVE  t[d][0] <= t[e][0]
  BY DEF Ascending
<1>1. ASSUME NEW r \in DateRows(t), r \in PlannedRows(p)
      PROVE  r = p.first /\ t[r] = p.rows[1] /\ t[r][0] \in Dates
  <2>1. r \in Rows /\ t[r] = p.rows[r - p.first + 1] /\ t[r][0] \in Dates
    BY <1>1 DEF DateRows, Overwrite
  <2>2. r - p.first + 1 \in 1..Len(p.rows) /\ p.first \in Nat
    BY <1>1, <2>1 DEF PlannedRows, Plan, Rows
  <2>3. r - p.first + 1 = 1
    BY <2>1, <2>2 DEF ContinuesTheOrder
  <2> QED BY <2>1, <2>2, <2>3 DEF Rows
<1>2. ASSUME NEW r \in DateRows(t), r \notin PlannedRows(p)
      PROVE  r \in DateRows(s) /\ t[r] = s[r] /\ r < p.first
  <2>1. r \in DateRows(s) /\ t[r] = s[r]
    BY <1>2 DEF DateRows, Overwrite
  <2>2. r <= LastPopulatedRow(s)
    BY <2>1, DateRowsArePopulated, LastPopulatedRowBounds
  <2> QED BY <2>1, <2>2, LastPopulatedRowBounds, LayoutAssumption DEF Plan, DateRows, Rows
<1>3. d \in Nat /\ e \in Nat /\ p.first \in Nat
  BY DEF DateRows, Rows, Plan
<1>4. CASE d \in PlannedRows(p)
  BY <1>1, <1>2, <1>3, <1>4
<1>5. CASE d \notin PlannedRows(p) /\ e \in PlannedRows(p)
  <2>1. 1 \in 1..Len(p.rows)
    BY <1>1, <1>5 DEF PlannedRows, Plan, DateRows, Rows
  <2> QED BY <1>1, <1>2, <1>5, <2>1 DEF ContinuesTheOrder
<1>6. CASE d \notin PlannedRows(p) /\ e \notin PlannedRows(p)
  BY <1>2, <1>6 DEF Ascending
<1> QED BY <1>4, <1>5, <1>6

-----------------------------------------------------------------------------
(* Blocks, as a session is written below them.                             *)

\* The row BlockRowBounds describes is the only one of its kind.
LEMMA BlockRowIs ==
  ASSUME NEW s \in Sheet, NEW r \in Nat, NEW b \in Nat,
         b # 0 => b \in DateRows(s) /\ b <= r,
         \A d \in DateRows(s) : d <= r => d <= b
  PROVE  BlockRow(s, r) = b
<1>1. BlockRow(s, r) \in Nat /\ DateRows(s) \subseteq Nat
  BY BlockRowBounds, LayoutAssumption DEF DateRows, Rows
<1>2. BlockRow(s, r) # 0 => BlockRow(s, r) <= b
  BY BlockRowBounds
<1>3. b # 0 => b <= BlockRow(s, r)
  BY BlockRowBounds
<1> QED BY <1>1, <1>2, <1>3

\* A row that belongs to a block is dated by its date row.
LEMMA BlockDateBounds ==
  ASSUME NEW s \in Sheet, NEW r \in Nat, BlockRow(s, r) # 0
  PROVE  BlockRow(s, r) \in DateRows(s) /\ BlockDate(s, r) \in Dates
BY BlockRowBounds DEF BlockDate, DateRows

\* A range written below everything leaves every populated row its text, its
\* block and its date.
LEMMA WriteKeepsTheBlocks ==
  ASSUME NEW s \in Sheet, NEW p \in Plan, p.first > LastPopulatedRow(s),
         NEW q \in Rows, Populated(s[q])
  PROVE  /\ q < p.first
         /\ Overwrite(s, p)[q] = s[q]
         /\ BlockRow(Overwrite(s, p), q) = BlockRow(s, q)
         /\ BlockRow(s, q) # 0 => BlockDate(Overwrite(s, p), q) = BlockDate(s, q)
<1> DEFINE t == Overwrite(s, p)
           b == BlockRow(s, q)
<1>1. /\ q \in Nat /\ p.first \in Nat /\ LastPopulatedRow(s) \in Nat
      /\ q <= LastPopulatedRow(s)
  BY LastPopulatedRowBounds, LayoutAssumption DEF Rows, Plan
<1>2. \A r \in Rows : r <= q => t[r] = s[r]
  BY <1>1 DEF Overwrite, PlannedRows, Rows
<1>3. \A r \in Rows : r <= q => (r \in DateRows(t) <=> r \in DateRows(s))
  BY <1>2 DEF DateRows
<1>4. /\ b \in Nat
      /\ b # 0 => b \in DateRows(s) /\ b <= q
      /\ \A d \in DateRows(s) : d <= q => d <= b
  BY <1>1, BlockRowBounds, LayoutAssumption
<1>5. t \in Sheet
  BY OverwriteType
<1>6. b # 0 => b \in DateRows(t) /\ b <= q
  BY <1>3, <1>4 DEF DateRows
<1>7. \A d \in DateRows(t) : d <= q => d <= b
  BY <1>3, <1>4 DEF DateRows
<1> HIDE DEF t, b
<1>8. BlockRow(t, q) = b
  BY <1>1, <1>4, <1>5, <1>6, <1>7, BlockRowIs
<1>9. b # 0 => t[b] = s[b]
  BY <1>2, <1>4 DEF DateRows
<1>10. t[q] = s[q]
  BY <1>1, <1>2
<1> QED BY <1>1, <1>8, <1>9, <1>10 DEF t, b, BlockDate

\* The last of the rows are the items, one each.
EndsWith(rows, items) ==
  /\ Len(rows) >= Len(items)
  /\ \A i \in 1..Len(items) : rows[Len(rows) - Len(items) + i] = ItemRow(items[i])

\* What plan_session plans ends with the items, one row each; a new block has
\* its date row on top of them, and nothing else does.
LEMMA PlannedItems ==
  ASSUME NEW s \in Sheet, NEW d \in Dates, NEW items \in Seq(Item), NEW m \in Modes,
         NEW p, p = PlanSession(s, d, items, m)
  PROVE  /\ EndsWith(p.rows, items)
         /\ p.mode = "append-to-existing" => Len(p.rows) = Len(items)
         /\ p.mode # "append-to-existing" =>
              Len(p.rows) = Len(items) + 1 /\ p.rows[1] = DateRow(d)
<1>1. Len(items) \in Nat /\ p.mode = ResolvedMode(s, d, m)
  BY DEF PlanSession
<1>2. CASE p.mode = "append-to-existing"
  <2>1. p.rows = [i \in 1..Len(items) |-> ItemRow(items[i])]
    BY <1>1, <1>2 DEF PlanSession, Payload
  <2>2. Len(p.rows) = Len(items)
    BY <1>1, <2>1
  <2>3. \A i \in 1..Len(items) : Len(p.rows) - Len(items) + i = i
    BY <1>1, <2>2
  <2> QED BY <1>1, <1>2, <2>1, <2>2, <2>3 DEF EndsWith
<1>3. CASE p.mode # "append-to-existing"
  <2>1. p.rows = [i \in 1..(Len(items) + 1) |->
                    IF i = 1 THEN DateRow(d) ELSE ItemRow(items[i - 1])]
    BY <1>1, <1>3 DEF PlanSession, Payload
  <2>2. Len(p.rows) = Len(items) + 1
    BY <1>1, <2>1
  <2>3. \A i \in 1..Len(items) : p.rows[i + 1] = ItemRow(items[i])
    BY <1>1, <2>1
  <2>4. ASSUME NEW i \in 1..Len(items)
        PROVE  p.rows[Len(p.rows) - Len(items) + i] = ItemRow(items[i])
    <3>1. Len(p.rows) - Len(items) + i = i + 1
      BY <1>1, <2>2
    <3> QED BY <2>3, <3>1
  <2>5. p.rows[1] = DateRow(d)
    BY <1>1, <2>1
  <2> QED BY <1>1, <1>3, <2>2, <2>4, <2>5 DEF EndsWith
<1> QED BY <1>2, <1>3

\* Once written, the whole range is one block's: the last one's when the
\* session was appended, else that of the date row on top of it. (The date reads
\* back as itself, and no item is named like one.)
LEMMA PlannedBlock ==
  ASSUME NEW s \in Sheet, NEW d \in Dates, ReadBack[d] = d,
         NEW items \in Seq(Item), NEW m \in Modes,
         \A i \in DOMAIN items : items[i].name \notin Dates,
         NEW p \in Plan, p = PlanSession(s, d, items, m),
         NEW q \in Rows, q \in PlannedRows(p)
  PROVE  /\ p.mode = "append-to-existing" =>
              /\ BlockRow(Overwrite(s, p), q) = LastBlockRow(s)
              /\ LastBlockRow(s) # 0 => BlockDate(Overwrite(s, p), q) = BlockDate(s, MaxRow)
         /\ p.mode # "append-to-existing" =>
              /\ BlockRow(Overwrite(s, p), q) = p.first
              /\ BlockDate(Overwrite(s, p), q) = d
<1> DEFINE t == Overwrite(s, p)
           b == LastBlockRow(s)
<1>1. /\ Len(p.rows) \in Nat /\ p.first \in Nat /\ Len(items) \in Nat
      /\ p.first > LastPopulatedRow(s) /\ LastPopulatedRow(s) \in Nat
      /\ q \in Nat /\ MaxRow \in Nat /\ t \in Sheet
  BY PlanSessionType, LastPopulatedRowBounds, OverwriteType, LayoutAssumption
  DEF Plan, Rows
<1>2. \A i \in 1..Len(items) : ItemRow(items[i])[0] \notin Dates
  BY LayoutAssumption DEF ItemRow, Columns
<1>3. ASSUME NEW r \in DateRows(s)
      PROVE  r \in Rows /\ r < p.first /\ t[r] = s[r] /\ r \in DateRows(t)
  <2>1. r \in Rows /\ Populated(s[r])
    BY DateRowsArePopulated
  <2>2. r < p.first /\ t[r] = s[r]
    BY <1>1, <2>1, WriteKeepsTheBlocks
  <2> QED BY <2>1, <2>2 DEF DateRows
<1>4. \A r \in Rows : r \notin PlannedRows(p) => t[r] = s[r]
  BY DEF Overwrite
<1>5. \A r \in Rows : r \in PlannedRows(p) => t[r] = p.rows[r - p.first + 1]
  BY DEF Overwrite
<1>6. q >= p.first
  BY <1>1 DEF PlannedRows
<1> HIDE DEF t, b
<1>7. /\ b \in Nat
      /\ b # 0 => b \in DateRows(s)
      /\ \A r \in DateRows(s) : r <= b
  <2>1. b = BlockRow(s, MaxRow)
    BY DEF b, LastBlockRow
  <2>2. b \in 0..MaxRow /\ (b # 0 => b \in DateRows(s))
    BY <1>1, <2>1, BlockRowBounds
  <2>3. \A r \in DateRows(s) : r <= MaxRow
    BY <1>1 DEF DateRows, Rows
  <2> QED BY <1>1, <2>1, <2>2, <2>3, BlockRowBounds
<1>8. CASE p.mode = "append-to-existing"
  <2>1. \A i \in 1..Len(items) : p.rows[i] = ItemRow(items[i])
    <3>1. p.rows = [i \in 1..Len(items) |-> ItemRow(items[i])]
      BY <1>8 DEF PlanSession, Payload
    <3> QED BY <3>1
  <2>2. Len(p.rows) = Len(items)
    BY <1>8, PlannedItems
  <2>3. ASSUME NEW r \in Rows, r \in PlannedRows(p)
        PROVE  t[r][0] \notin Dates
    <3>1. r - p.first + 1 \in 1..Len(items)
      BY <1>1, <2>2, <2>3 DEF PlannedRows, Rows
    <3> QED BY <1>2, <1>5, <2>1, <2>3, <3>1
  <2>4. DateRows(t) = DateRows(s)
    BY <1>3, <1>4, <2>3 DEF DateRows
  <2>5. b # 0 => b \in DateRows(t) /\ b <= q
    BY <1>1, <1>3, <1>6, <1>7, <2>4 DEF Rows
  <2>6. \A r \in DateRows(t) : r <= q => r <= b
    BY <1>7, <2>4
  <2>7. BlockRow(t, q) = b
    BY <1>1, <1>7, <2>5, <2>6, BlockRowIs
  <2>8. b # 0 => t[b] = s[b]
    BY <1>3, <1>7
  <2> QED BY <1>8, <2>7, <2>8 DEF t, b, BlockDate, LastBlockRow
<1>9. CASE p.mode # "append-to-existing"
  <2>1. Len(p.rows) = Len(items) + 1 /\ p.rows[1] = DateRow(d)
    BY <1>9, PlannedItems
  <2>2. \A i \in 1..Len(items) : p.rows[i + 1] = ItemRow(items[i])
    <3>1. p.rows = [i \in 1..(Len(items) + 1) |->
                      IF i = 1 THEN DateRow(d) ELSE ItemRow(items[i - 1])]
      BY <1>9 DEF PlanSession, Payload
    <3> QED BY <1>1, <3>1
  <2>3. p.first \in Rows /\ p.first \in PlannedRows(p)
    BY <1>1, <1>6, <2>1 DEF PlannedRows, Rows
  <2>4. t[p.first] = DateRow(d)
    <3>1. p.first - p.first + 1 = 1
      BY <1>1
    <3> QED BY <1>5, <2>1, <2>3, <3>1
  <2>5. t[p.first][0] = d
    BY <2>4, LayoutAssumption DEF DateRow, Columns
  <2>6. ASSUME NEW r \in Rows, r \in PlannedRows(p), r # p.first
        PROVE  t[r][0] \notin Dates
    <3>1. r - p.first \in 1..Len(items) /\ r - p.first + 1 = (r - p.first) + 1
      BY <1>1, <2>1, <2>6 DEF PlannedRows, Rows
    <3> QED BY <1>2, <1>5, <2>2, <2>6, <3>1
  <2>7. p.first \in DateRows(t)
    BY <2>3, <2>5 DEF DateRows
  <2>8. ASSUME NEW r \in DateRows(t)
        PROVE  r <= p.first
    <3>1. CASE r \in PlannedRows(p)
      BY <1>1, <2>6, <3>1 DEF DateRows
    <3>2. CASE r \notin PlannedRows(p)
      <4>1. r \in DateRows(s)
        BY <1>4, <3>2 DEF DateRows
      <4> QED BY <1>1, <1>3, <4>1 DEF Rows
    <3> QED BY <3>1, <3>2
  <2>9. BlockRow(t, q) = p.first
    BY <1>1, <1>6, <2>7, <2>8, BlockRowIs
  <2> QED BY <1>9, <2>5, <2>9 DEF t, BlockDate
<1> QED BY <1>8, <1>9
=============================================================================
