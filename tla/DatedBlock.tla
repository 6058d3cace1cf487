----------------------------- MODULE DatedBlock -----------------------------
(***************************************************************************)
(* The dated-block layout (layouts/dated_block.py): what the readers make  *)
(* of a tab, and where plan_session puts a session.                        *)
(*                                                                         *)
(* A tab is a function from its rows to rows of text. Column 0 is the      *)
(* profile's date and item column (column A for both in profiles.yaml);    *)
(* columns 1..Width are its value columns. Text is abstract: a date is the *)
(* day a reader parses the cell as, any other non-blank text is a member   *)
(* of Words, and a cell holding nothing but spaces is Blank.               *)
(***************************************************************************)
EXTENDS Integers, Sequences, FiniteSetsExt

CONSTANTS MaxRow,    \* rows of the tab's grid; the API refuses ranges beyond
          Width,     \* number of value columns
          Dates,     \* days, as numbers in calendar order
          Words,     \* every text that is neither blank nor a date
          Blank,     \* an empty cell
          ReadBack   \* ReadBack[d]: what dates.parse makes of dates.render(d): a
                     \* day, or a word when no configured format reads it

ASSUME LayoutAssumption ==
  /\ MaxRow \in Nat
  /\ Width \in Nat
  /\ Dates \subseteq Nat
  /\ Blank \notin Dates \cup Words
  /\ Words \cap Dates = {}
  /\ ReadBack \in [Dates -> Dates \cup Words]

Rows == 1..MaxRow
Columns == 0..Width
Text == Dates \cup Words \cup {Blank}
Row == [Columns -> Text]
Sheet == [Rows -> Row]

-----------------------------------------------------------------------------
(* scan_blocks: the structure a reader finds.                              *)

Populated(row) == \E c \in Columns : row[c] # Blank

PopulatedRows(s) == {r \in Rows : Populated(s[r])}

\* Fault: only named rows count, so a stray value at the bottom is missed.
LastNamedRow(s) == Max({0} \cup {r \in Rows : s[r][0] # Blank})

\* The last row holding anything, 0 when there is none.
LastPopulatedRow(s) == Max({0} \cup PopulatedRows(s))

DateRows(s) == {r \in Rows : s[r][0] \in Dates}

\* The date row of the block that row r belongs to, 0 above the first block.
\* A blank row closes nothing: only the next date row opens another block.
BlockRow(s, r) == Max({0} \cup {d \in DateRows(s) : d <= r})

\* The date row of blocks[-1], 0 when there are no blocks.
LastBlockRow(s) == BlockRow(s, MaxRow)

BlockDate(s, r) == s[BlockRow(s, r)][0]

ItemRows(s) == {r \in Rows : s[r][0] \in Words /\ BlockRow(s, r) # 0}

-----------------------------------------------------------------------------
(* plan_session: the write a session becomes.                              *)

Modes == {"auto", "new-block", "append-to-existing"}

Item == [name : Text, values : Seq(Text)]

\* _item_row: the name, then its values, padded with blanks to the range.
ItemRow(item) ==
  [c \in Columns |-> IF c = 0 THEN item.name
                     ELSE IF c \in DOMAIN item.values THEN item.values[c]
                     ELSE Blank]

DateRow(d) == [c \in Columns |-> IF c = 0 THEN ReadBack[d] ELSE Blank]

\* Fault: "auto" appends to the last block whatever its date.
AlwaysLastBlock(s, target, mode) ==
  IF mode # "auto" THEN mode
  ELSE IF LastBlockRow(s) # 0 THEN "append-to-existing" ELSE "new-block"

ResolvedMode(s, target, mode) ==
  IF mode # "auto" THEN mode
  ELSE IF LastBlockRow(s) # 0 /\ BlockDate(s, MaxRow) = target
       THEN "append-to-existing"
       ELSE "new-block"

\* A new block starts with its date row; the separator above is skipped.
Payload(resolved, target, items) ==
  IF resolved = "append-to-existing"
  THEN [i \in 1..Len(items) |-> ItemRow(items[i])]
  ELSE [i \in 1..(Len(items) + 1) |->
          IF i = 1 THEN DateRow(target) ELSE ItemRow(items[i - 1])]

\* Fault: a zero-based row number used as a sheet row, one row too high.
PlanSessionOneUp(s, target, items, mode) ==
  LET resolved == ResolvedMode(s, target, mode)
      gap == IF resolved = "append-to-existing" THEN 0 ELSE 1
  IN [mode |-> resolved,
      first |-> LastPopulatedRow(s) + gap,
      rows |-> Payload(resolved, target, items)]

PlanSession(s, target, items, mode) ==
  LET resolved == ResolvedMode(s, target, mode)
      gap == IF resolved = "append-to-existing" THEN 1 ELSE 2
  IN [mode |-> resolved,
      first |-> LastPopulatedRow(s) + gap,
      rows |-> Payload(resolved, target, items)]

Plan == [mode : Modes, first : Nat, rows : Seq(Row)]

PlannedRows(p) == p.first..(p.first + Len(p.rows) - 1)

\* What values.update leaves behind: the range is overwritten cell by cell.
Overwrite(s, p) ==
  [r \in Rows |-> IF r \in PlannedRows(p) THEN p.rows[r - p.first + 1] ELSE s[r]]

-----------------------------------------------------------------------------
(* Reading a range back.                                                   *)

\* The last column of a row that a read returns: trailing blanks are cut.
LastCell(row) == Max({-1} \cup {c \in Columns : row[c] # Blank})

\* log_session's `verified`: as many rows came back as were planned, and each
\* of them is a prefix of the planned row.
Verified(s, p) ==
  /\ Populated(s[p.first + Len(p.rows) - 1])
  /\ \A r \in PlannedRows(p) :
       \A c \in 0..LastCell(s[r]) : s[r][c] = p.rows[r - p.first + 1][c]

-----------------------------------------------------------------------------
(* What the layout is supposed to mean.                                    *)

\* Blocks appear in calendar order down the tab.
Ascending(s) ==
  \A d, e \in DateRows(s) : d < e => s[d][0] <= s[e][0]
=============================================================================
