---------------------------- MODULE TrainingSheet ---------------------------
(***************************************************************************)
(* One dated-block tab and everyone who changes it: log_session calls,     *)
(* corrections (find_row or query_rows, then update_row with the `cells`   *)
(* map it returned as `expect`), and the owner, who edits the same tab in  *)
(* the Sheets app between one request of the server and the next.          *)
(***************************************************************************)
EXTENDS DatedBlock, Registry, FiniteSets

CONSTANTS LogCalls, LogRequests,    \* log_session calls and their arguments
          EditCalls, Edits,         \* update_row calls and their `cells`
          InitSheets, MaxAttempts, NoTarget, None,
          MaxEdits,                 \* bound on the owner's edits
          OwnerText,                \* what the owner may type
          Exclusive                 \* TRUE: nobody acts during another's call

VARIABLES sheet,
          logPc, logReq, logPlan, logTries, logOutcome, logVerified,
          editPc, editReq, editTries, editFrom, editOutcome, editVerified,
          seen,    \* what each correction's client was shown before asking
          edits    \* owner edits made so far

logVars == <<logPc, logReq, logPlan, logTries, logOutcome, logVerified>>
editVars == <<editPc, editReq, editTries, editFrom, editOutcome, editVerified>>
vars == <<sheet, logVars, editVars, seen, edits>>

\* A correction: new text for some cells of a row, expecting what was shown.
EditRequests ==
  [row : Rows, cells : Edits,
   expect : UNION {[S -> Text] : S \in SUBSET Columns}, dryRun : BOOLEAN]

L == INSTANCE LogSession
       WITH Calls <- LogCalls, Requests <- LogRequests,
            MaxInFlight <- Cardinality(LogCalls),
            pc <- logPc, req <- logReq, plan <- logPlan, tries <- logTries,
            outcome <- logOutcome, verified <- logVerified

U == INSTANCE UpdateRow
       WITH Calls <- EditCalls, Requests <- EditRequests,
            Layouts <- {"dated-block"}, layout <- "dated-block",
            pc <- editPc, req <- editReq, tries <- editTries, from <- editFrom,
            outcome <- editOutcome, verified <- editVerified

-----------------------------------------------------------------------------
(* What a client is shown.                                                 *)

\* read_tools._cells: the non-blank cells of a row, by column.
CellsMap(s, r) == [k \in {c \in Columns : s[r][c] # Blank} |-> s[r][k]]

NoCells == [k \in {} |-> Blank]

\* An item comes with its cells; query_rows names a block's date row without.
Shown(s, r) ==
  [row |-> r, cells |-> IF r \in ItemRows(s) THEN CellsMap(s, r) ELSE NoCells,
   text |-> s[r]]

Seen == [row : Rows, cells : U!CellMap, text : Row]

ASSUME SheetAssumption ==
  /\ IsFiniteSet(LogCalls)
  /\ MaxAttempts \in Nat \ {0}
  /\ MaxEdits \in Nat
  /\ InitSheets \subseteq Sheet
  /\ LogRequests \subseteq L!Request
  /\ Edits \subseteq U!CellMap
  /\ OwnerText \subseteq Text
  /\ Exclusive \in BOOLEAN
  /\ NoTarget \notin Dates
  /\ None \notin LogRequests \cup L!Plan
  /\ None \notin EditRequests \cup U!CellMap \cup Seen

TypeOK ==
  /\ L!TypeOK
  /\ U!TypeOK
  /\ seen \in [EditCalls -> Seen \cup {None}]
  /\ edits \in 0..MaxEdits

Init ==
  /\ L!Init
  /\ U!Init
  /\ seen = [u \in EditCalls |-> None]
  /\ edits = 0

\* No call is in flight, or they may overlap anyway.
Free == Exclusive => L!InFlight = {} /\ U!InFlight = {}

-----------------------------------------------------------------------------
LogStep(c) ==
  /\ \/ Free /\ (L!Begin(c) \/ L!Refuse(c))
     \/ L!Step(c)
  /\ UNCHANGED <<editVars, seen, edits>>

\* find_row, or query_rows: what the client is shown is the tab of now.
Find(u) ==
  /\ Free
  /\ editPc[u] = "idle"
  /\ \E r \in ItemRows(sheet) \cup DateRows(sheet) :
       seen' = [seen EXCEPT ![u] = Shown(sheet, r)]
  /\ UNCHANGED <<sheet, logVars, editVars, edits>>

\* The client asks for the row it was shown, expecting the cells it was shown.
Ask(u) ==
  /\ Free
  /\ seen[u] # None
  /\ \E cells \in Edits, dry \in BOOLEAN :
       U!Begin(u, [row |-> seen[u].row, cells |-> cells,
                   expect |-> seen[u].cells, dryRun |-> dry])
  /\ UNCHANGED <<logVars, seen, edits>>

EditStep(u) == U!Step(u) /\ UNCHANGED <<logVars, seen, edits>>

Restart ==
  /\ L!InFlight \cup U!InFlight # {}
  /\ L!Lose
  /\ U!Lose
  /\ UNCHANGED <<seen, edits>>

-----------------------------------------------------------------------------
(* The owner, in the Sheets app.                                           *)

Type(s, r, k, text) == [s EXCEPT ![r][k] = text]

InsertRow(s, at) ==
  [r \in Rows |-> IF r < at THEN s[r]
                  ELSE IF r = at THEN [c \in Columns |-> Blank] ELSE s[r - 1]]

DeleteRow(s, at) ==
  [r \in Rows |-> IF r < at THEN s[r]
                  ELSE IF r = MaxRow THEN [c \in Columns |-> Blank] ELSE s[r + 1]]

OwnerEdit ==
  /\ Free
  /\ edits < MaxEdits
  /\ edits' = edits + 1
  /\ \E r \in 1..LastPopulatedRow(sheet) :
       \/ \E k \in Columns, text \in OwnerText : sheet' = Type(sheet, r, k, text)
       \/ ~Populated(sheet[MaxRow]) /\ sheet' = InsertRow(sheet, r)
       \/ sheet' = DeleteRow(sheet, r)
  /\ UNCHANGED <<logVars, editVars, seen>>

\* Clients and owner may leave it at that whenever no call is in flight.
Quiet == L!InFlight \cup U!InFlight = {} /\ UNCHANGED vars

Next ==
  \/ \E c \in LogCalls : LogStep(c)
  \/ \E u \in EditCalls : Find(u) \/ Ask(u) \/ EditStep(u)
  \/ OwnerEdit
  \/ Restart
  \/ Quiet

Spec == Init /\ [][Next]_vars

-----------------------------------------------------------------------------
(* Properties.                                                             *)

\* A step in which the correction u changes the sheet.
Corrects(u) ==
  /\ editPc[u] = "writing"
  /\ <<editPc[u], editTries[u]>>' # <<editPc[u], editTries[u]>>
  /\ sheet' # sheet

\* What `expect` is for (server.py, update_row): when the owner has moved or
\* changed rows since the client looked, the correction is refused. It only
\* ever changes a row that still holds every text the client was shown there.
CorrectionHitsTheRowShown ==
  [][\A u \in EditCalls : Corrects(u) =>
       \A k \in DOMAIN seen[u].cells : sheet[seen[u].row][k] = seen[u].cells[k]]_vars

\* changes[].from is the text that was there: the caller is told to relay it,
\* since an overwrite cannot be undone from the server. True however often
\* the write was repeated.
OverwrittenTextIsReported ==
  [][\A u \in EditCalls : Corrects(u) =>
       \A k \in DOMAIN editReq[u].cells :
         editFrom[u][k] = sheet[editReq[u].row][k]]_vars

\* The blast radius of the two tools together (README): a step of the server
\* changes a populated row only where a correction was asked to.
HistoryIsKept ==
  [][\A r \in Rows, k \in Columns :
       (edits' = edits /\ Populated(sheet[r]) /\ sheet'[r][k] # sheet[r][k]) =>
         \E u \in EditCalls :
           editPc[u] = "writing" /\ editReq[u].row = r /\ k \in DOMAIN editReq[u].cells
    ]_vars

\* Two sessions never merge: no step of the server leaves a date row without
\* a date (update_row, _check_row_is_writable).
SessionsNeverMerge ==
  [][edits' = edits => DateRows(sheet) \subseteq DateRows(sheet')]_vars

\* "The server compares it against the live sheet and refuses if anything
\* differs" (server.py, update_row): a correction of an entry that the client
\* was shown only goes through while the row is exactly as it was then. It
\* fails: the map a client is shown, and expects, says nothing of empty cells.
RefusesAnyDifference ==
  [][\A u \in EditCalls : (Corrects(u) /\ DOMAIN seen[u].cells # {}) =>
       sheet[seen[u].row] = seen[u].text]_vars
=============================================================================
