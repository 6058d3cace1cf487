------------------------------ MODULE UpdateRow -----------------------------
(***************************************************************************)
(* The update_row tool (tools/update_row.py) on one tab: the one tool that *)
(* overwrites existing cells. A call reads the tab, refuses what the       *)
(* layout cannot survive and what `expect` contradicts, writes exactly the *)
(* cells it was given in one batch, and reads the row back. A table has    *)
(* the columns 0..Width, named in its first row.                           *)
(***************************************************************************)
EXTENDS DatedBlock

CONSTANTS Calls,        \* tool calls, each made once
          Requests,     \* the arguments a call may carry
          InitSheets,   \* tabs the server may find
          Layouts,      \* layouts the tab's profile may have
          MaxAttempts,  \* _MAX_ATTEMPTS of the retry loop
          None          \* no request, nothing reported

\* Columns a key may name: those of the layout, and one outside it.
KeyColumns == 0..(Width + 1)

\* A `cells` or `expect` argument: text for some of the columns.
CellMap == UNION {[S -> Text] : S \in SUBSET KeyColumns}

Request == [row : Int, cells : CellMap, expect : CellMap, dryRun : BOOLEAN]

ASSUME CallAssumption ==
  /\ Layouts \subseteq {"dated-block", "table", "grid"}
  /\ MaxAttempts \in Nat \ {0}
  /\ Requests \subseteq Request
  /\ InitSheets \subseteq Sheet
  /\ None \notin Requests
  /\ None \notin CellMap

VARIABLES sheet,    \* the tab
          layout,   \* of its profile, loaded once
          pc,       \* where each call is
          req,      \* its arguments
          tries,    \* attempts made of the API operation it awaits
          from,     \* changes[].from: the text it says it replaced
          outcome,  \* what the caller was told
          verified  \* the `verified` flag of a successful response

callVars == <<pc, req, tries, from, outcome, verified>>
vars == <<sheet, layout, callVars>>

InFlight == {c \in Calls : pc[c] \notin {"idle", "done"}}

TypeOK ==
  /\ sheet \in Sheet
  /\ layout \in Layouts
  /\ pc \in [Calls -> {"idle", "reading", "writing", "checking", "done"}]
  /\ req \in [Calls -> Requests \cup {None}]
  /\ tries \in [Calls -> 0..MaxAttempts]
  /\ from \in [Calls -> CellMap \cup {None}]
  /\ outcome \in [Calls -> {"none", "invalid", "row_not_found", "protected_row",
                            "conflict", "dry_run", "ok", "upstream", "failed", "lost"}]
  /\ verified \in [Calls -> BOOLEAN]

Init ==
  /\ sheet \in InitSheets
  /\ layout \in Layouts
  /\ pc = [c \in Calls |-> "idle"]
  /\ req = [c \in Calls |-> None]
  /\ tries = [c \in Calls |-> 0]
  /\ from = [c \in Calls |-> None]
  /\ outcome = [c \in Calls |-> "none"]
  /\ verified = [c \in Calls |-> FALSE]

-----------------------------------------------------------------------------
(* Arguments.                                                              *)

\* The checks made before any request to the API: the cells of a grid belong to
\* set_grid_value.
Valid(r) ==
  /\ layout # "grid"
  /\ r.row >= 1
  /\ DOMAIN r.cells # {}
  /\ DOMAIN r.cells \cup DOMAIN r.expect \subseteq Columns

Begin(c, r) ==
  /\ pc[c] = "idle"
  /\ Valid(r)
  /\ req' = [req EXCEPT ![c] = r]
  /\ pc' = [pc EXCEPT ![c] = "reading"]
  /\ tries' = [tries EXCEPT ![c] = 1]
  /\ UNCHANGED <<sheet, layout, from, outcome, verified>>

Finish(c, result) ==
  /\ pc' = [pc EXCEPT ![c] = "done"]
  /\ outcome' = [outcome EXCEPT ![c] = result]

Refuse(c, r) ==
  /\ pc[c] = "idle"
  /\ ~Valid(r)
  /\ req' = [req EXCEPT ![c] = r]
  /\ Finish(c, "invalid")
  /\ UNCHANGED <<sheet, layout, tries, from, verified>>

-----------------------------------------------------------------------------
(* The read, and the checks made on it.                                    *)

\* Fault: a date row is treated as any other row of a block.
WritableIfDated(s, r) == r.row \in DateRows(s) \cup ItemRows(s)

\* _check_row_is_writable: a date row takes nothing but another date; an item
\* row takes anything; every other row is a title, a separator or stray. Of a
\* table only the header is protected.
Writable(s, r) ==
  \/ layout = "table" /\ r.row # 1
  \/ /\ layout = "dated-block"
     /\ r.row \in DateRows(s)
     /\ DOMAIN r.cells = {0}
     /\ r.cells[0] \in Dates
  \/ layout = "dated-block" /\ r.row \in ItemRows(s)

\* Fault: `expect` is only compared for the cells about to change.
MatchesTargets(s, r) ==
  \A c \in DOMAIN r.expect \cap DOMAIN r.cells : s[r.row][c] = r.expect[c]

Matches(s, r) == \A c \in DOMAIN r.expect : s[r.row][c] = r.expect[c]

\* What the three checks, in their order, make of a reading; "ok" goes on.
Verdict(s, r) ==
  IF r.row > LastPopulatedRow(s) THEN "row_not_found"
  ELSE IF ~Writable(s, r) THEN "protected_row"
  ELSE IF ~Matches(s, r) THEN "conflict"
  ELSE "ok"

Reject(c) ==
  /\ pc[c] = "reading"
  /\ Verdict(sheet, req[c]) # "ok"
  /\ Finish(c, Verdict(sheet, req[c]))
  /\ UNCHANGED <<sheet, layout, req, tries, from, verified>>

\* Fault: the text reported as replaced is the text that was expected.
CurrentAsExpected(s, r) ==
  [c \in DOMAIN r.cells |-> IF c \in DOMAIN r.expect THEN r.expect[c] ELSE Blank]

\* What the row holds, for the cells about to change.
Current(s, r) == [c \in DOMAIN r.cells |-> s[r.row][c]]

DryRun(c) ==
  /\ pc[c] = "reading"
  /\ Verdict(sheet, req[c]) = "ok"
  /\ req[c].dryRun
  /\ from' = [from EXCEPT ![c] = Current(sheet, req[c])]
  /\ Finish(c, "dry_run")
  /\ UNCHANGED <<sheet, layout, req, tries, verified>>

PlanWrite(c) ==
  /\ pc[c] = "reading"
  /\ Verdict(sheet, req[c]) = "ok"
  /\ ~req[c].dryRun
  /\ from' = [from EXCEPT ![c] = Current(sheet, req[c])]
  /\ pc' = [pc EXCEPT ![c] = "writing"]
  /\ tries' = [tries EXCEPT ![c] = 1]
  /\ UNCHANGED <<sheet, layout, req, outcome, verified>>

-----------------------------------------------------------------------------
(* The write and the read-back.                                            *)

\* Fault: the row is written as one range, the other cells left empty.
WriteWholeRow(s, r) ==
  [s EXCEPT ![r.row] = [c \in Columns |-> IF c \in DOMAIN r.cells THEN r.cells[c]
                                          ELSE Blank]]

\* batch_write of one-cell ranges: the cells named, and no others.
BatchWrite(s, r) ==
  [s EXCEPT ![r.row] = [c \in Columns |-> IF c \in DOMAIN r.cells THEN r.cells[c]
                                          ELSE s[r.row][c]]]

Write(c) ==
  /\ pc[c] = "writing"
  /\ sheet' = BatchWrite(sheet, req[c])
  /\ pc' = [pc EXCEPT ![c] = "checking"]
  /\ tries' = [tries EXCEPT ![c] = 1]
  /\ UNCHANGED <<layout, req, from, outcome, verified>>

ReadBackRow(c) ==
  /\ pc[c] = "checking"
  /\ verified' = [verified EXCEPT ![c] =
       \A k \in DOMAIN req[c].cells : sheet[req[c].row][k] = req[c].cells[k]]
  /\ Finish(c, "ok")
  /\ UNCHANGED <<sheet, layout, req, tries, from>>

-----------------------------------------------------------------------------
(* Failures of an API operation, as in LogSession.                         *)

Effect(c) ==
  \/ UNCHANGED sheet
  \/ pc[c] = "writing" /\ sheet' = BatchWrite(sheet, req[c])

\* Fault: one attempt too many.
RetryOnceMore(c) ==
  /\ c \in InFlight
  /\ tries[c] <= MaxAttempts
  /\ tries' = [tries EXCEPT ![c] = tries[c] + 1]
  /\ Effect(c)
  /\ UNCHANGED <<layout, pc, req, from, outcome, verified>>

Retry(c) ==
  /\ c \in InFlight
  /\ tries[c] < MaxAttempts
  /\ tries' = [tries EXCEPT ![c] = tries[c] + 1]
  /\ Effect(c)
  /\ UNCHANGED <<layout, pc, req, from, outcome, verified>>

GiveUp(c) ==
  /\ c \in InFlight
  /\ tries[c] = MaxAttempts
  /\ Finish(c, "upstream")
  /\ Effect(c)
  /\ UNCHANGED <<layout, req, tries, from, verified>>

Fail(c) ==
  /\ c \in InFlight
  /\ Finish(c, "failed")
  /\ Effect(c)
  /\ UNCHANGED <<layout, req, tries, from, verified>>

Lose ==
  /\ pc' = [c \in Calls |-> IF c \in InFlight THEN "done" ELSE pc[c]]
  /\ outcome' = [c \in Calls |-> IF c \in InFlight THEN "lost" ELSE outcome[c]]
  /\ UNCHANGED <<sheet, layout, req, tries, from, verified>>

Restart == InFlight # {} /\ Lose

Step(c) ==
  \/ Reject(c) \/ DryRun(c) \/ PlanWrite(c) \/ Write(c) \/ ReadBackRow(c)
  \/ Retry(c) \/ GiveUp(c) \/ Fail(c)

\* Every call has been made and answered: nothing more is modelled.
Quiet == pc = [c \in Calls |-> "done"] /\ UNCHANGED vars

Next ==
  \/ \E c \in Calls : Step(c) \/ \E r \in Requests : Begin(c, r) \/ Refuse(c, r)
  \/ Restart
  \/ Quiet

Spec == Init /\ [][Next]_vars

-----------------------------------------------------------------------------
(* Properties.                                                             *)

\* The call c was asked to change column k of row r.
Targets(c, r, k) == req[c] # None /\ req[c].row = r /\ k \in DOMAIN req[c].cells

\* Why the write is a batch of one-cell ranges (client.py, batch_write): calls
\* that correct different cells of one row never undo each other, however they
\* overlap. A correction reported as done stays done unless another call was
\* asked to change that very cell.
CorrectionsCompose ==
  \A c \in Calls :
    outcome[c] = "ok" =>
      \A k \in DOMAIN req[c].cells :
        \/ sheet[req[c].row][k] = req[c].cells[k]
        \/ \E d \in Calls \ {c} : Targets(d, req[c].row, k)

\* A step in which the call c changes the tab.
Corrects(c) ==
  /\ pc[c] = "writing"
  /\ <<pc[c], tries[c]>>' # <<pc[c], tries[c]>>
  /\ sheet' # sheet

\* "The previous text is in changes[].from" (update_row.py): however often the
\* write is repeated and whatever other calls did to the row since the reading,
\* no text is replaced that the call does not name, unless some other call was
\* asked to change that very cell.
ReplacedTextIsNamed ==
  [][\A c \in Calls : Corrects(c) =>
       \A k \in DOMAIN req[c].cells :
         \/ sheet'[req[c].row][k] = sheet[req[c].row][k]
         \/ sheet[req[c].row][k] = from[c][k]
         \/ \E d \in Calls \ {c} : Targets(d, req[c].row, k)]_vars
=============================================================================
