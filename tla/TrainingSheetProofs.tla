------------------------- MODULE TrainingSheetProofs -------------------------
(***************************************************************************)
(* Proofs about TrainingSheet, for every tab, set of calls, requests, owner *)
(* edits and failures: type correctness and, when nobody acts during       *)
(* another's call, what log_session, update_row and the owner together do  *)
(* to a tab. The proofs about each tool on its own are used as they stand, *)
(* instantiated like the tools.                                            *)
(***************************************************************************)
EXTENDS TrainingSheet, DatedBlockProofs, FiniteSetTheorems

LP == INSTANCE LogSessionProofs
       WITH Calls <- LogCalls, Requests <- LogRequests,
            MaxInFlight <- Cardinality(LogCalls),
            pc <- logPc, req <- logReq, plan <- logPlan, tries <- logTries,
            outcome <- logOutcome, verified <- logVerified

UP == INSTANCE UpdateRowProofs
       WITH Calls <- EditCalls, Requests <- EditRequests,
            Layouts <- {"dated-block"}, layout <- "dated-block",
            pc <- editPc, req <- editReq, tries <- editTries, from <- editFrom,
            outcome <- editOutcome, verified <- editVerified

-----------------------------------------------------------------------------
(* The tools and their proofs speak of the same tab, calls and steps.      *)

LEMMA SameTab ==
  /\ LP!Sheet = Sheet /\ UP!Sheet = Sheet
  /\ LP!Rows = Rows /\ UP!Rows = Rows
  /\ UP!Columns = Columns
  /\ LP!Plan = L!Plan /\ LP!Request = L!Request
  /\ UP!CellMap = U!CellMap /\ UP!Request = U!Request
  /\ \A row : LP!Populated(row) = Populated(row)
BY DEF LP!Sheet, UP!Sheet, Sheet, LP!Rows, UP!Rows, Rows, LP!Columns, UP!Columns, Columns,
   LP!Row, UP!Row, Row, LP!Text, UP!Text, U!Text, L!Text, Text, LP!Plan, L!Plan, L!Row,
   L!Columns, L!Modes, LP!Modes, LP!Request, L!Request, LP!Item, L!Item, UP!CellMap, U!CellMap,
   UP!KeyColumns, U!KeyColumns, UP!Request, U!Request, LP!Populated, Populated

LEMMA LogConstants ==
  LP!LayoutAssumption /\ LP!RegistryAssumption /\ LP!CallAssumption
<1>1. LP!LayoutAssumption
  BY LayoutAssumption DEF LP!LayoutAssumption
<1>2. Cardinality(LogCalls) \in Nat
  BY SheetAssumption, FS_CardinalityType
<1>3. LP!IsFiniteSet(LogCalls)
  BY SheetAssumption DEF LP!IsFiniteSet, IsFiniteSet
<1>4. LP!CallAssumption
  BY <1>2, <1>3, SheetAssumption, SameTab DEF LP!CallAssumption
<1>5. LP!RegistryAssumption
  BY RegistryAssumption DEF LP!RegistryAssumption, RegistryAssumption, LP!Tokens, Tokens,
     LP!Layouts, Layouts
<1> QED BY <1>1, <1>4, <1>5

LEMMA EditRequestType == EditRequests \subseteq UP!Request
<1> SUFFICES ASSUME NEW r \in EditRequests
             PROVE  r \in UP!Request
  OBVIOUS
<1>1. r.row \in Int /\ r.cells \in UP!CellMap
  BY SheetAssumption, SameTab DEF EditRequests, Rows
<1>2. PICK S \in SUBSET Columns : r.expect \in [S -> Text]
  BY DEF EditRequests
<1>3. S \in SUBSET UP!KeyColumns
  BY LayoutAssumption DEF Columns, UP!KeyColumns
<1>4. r.expect \in UP!CellMap
  BY <1>2, <1>3 DEF UP!CellMap, UP!Text, Text
<1> QED BY <1>1, <1>4 DEF EditRequests, UP!Request

LEMMA EditConstants == UP!LayoutAssumption /\ UP!CallAssumption
<1>1. UP!LayoutAssumption
  BY LayoutAssumption DEF UP!LayoutAssumption
<1>2. UP!CallAssumption
  BY SheetAssumption, SameTab, EditRequestType DEF UP!CallAssumption
<1> QED BY <1>1, <1>2

\* Every step of the log calls is a step of log_session ...
LEMMA SameLogSteps ==
  /\ L!TypeOK <=> LP!TypeOK
  /\ L!Init <=> LP!Init
  /\ L!InFlight = LP!InFlight
  /\ \A c \in LogCalls : L!Begin(c) <=> LP!Begin(c)
  /\ \A c \in LogCalls : L!Refuse(c) <=> LP!Refuse(c)
  /\ \A c \in LogCalls : L!Step(c) <=> LP!Step(c)
  /\ L!Lose <=> LP!Lose
<1> USE DEF L!Sheet, LP!Sheet, L!Rows, LP!Rows, L!Columns, LP!Columns, L!Row, LP!Row,
            L!Text, LP!Text, L!Plan, LP!Plan, L!Modes, LP!Modes, L!InFlight, LP!InFlight
<1>1. L!TypeOK <=> LP!TypeOK
  BY DEF L!TypeOK, LP!TypeOK
<1>2. L!Init <=> LP!Init
  BY DEF L!Init, LP!Init
<1>3. L!InFlight = LP!InFlight
  OBVIOUS
<1>4. ASSUME NEW c \in LogCalls
      PROVE  (L!Begin(c) <=> LP!Begin(c)) /\ (L!Refuse(c) <=> LP!Refuse(c))
  BY DEF L!Begin, LP!Begin, L!Refuse, LP!Refuse, L!Valid, LP!Valid, L!Finish, LP!Finish,
     L!Cardinality, LP!Cardinality, L!HasLayout, LP!HasLayout, L!Resolve, LP!Resolve,
     L!Tokens, LP!Tokens
<1>5. ASSUME NEW c \in LogCalls
      PROVE  L!Step(c) <=> LP!Step(c)
  BY DEF L!Step, LP!Step, L!RefuseDate, LP!RefuseDate, L!DryRun, LP!DryRun,
     L!PlanWrite, LP!PlanWrite, L!Write, LP!Write, L!RefuseRange, LP!RefuseRange,
     L!ReadBackRange, LP!ReadBackRange, L!Retry, LP!Retry, L!GiveUp, LP!GiveUp,
     L!Fail, LP!Fail, L!Effect, LP!Effect, L!Finish, LP!Finish, L!Fits, LP!Fits,
     L!OutOfOrder, LP!OutOfOrder, L!LastBlockRow, LP!LastBlockRow, L!BlockRow,
     LP!BlockRow, L!BlockDate, LP!BlockDate, L!DateRows, LP!DateRows, L!PlanFor,
     LP!PlanFor, L!PlanSession, LP!PlanSession, L!ResolvedMode, LP!ResolvedMode,
     L!LastPopulatedRow, LP!LastPopulatedRow, L!PopulatedRows, LP!PopulatedRows,
     L!Populated, LP!Populated, L!Payload, LP!Payload, L!ItemRow, LP!ItemRow,
     L!DateRow, LP!DateRow, L!Overwrite, LP!Overwrite, L!PlannedRows, LP!PlannedRows,
     L!Verified, LP!Verified, L!LastCell, LP!LastCell, L!Max, LP!Max
<1>6. L!Lose <=> LP!Lose
  BY DEF L!Lose, LP!Lose
<1> QED BY <1>1, <1>2, <1>3, <1>4, <1>5, <1>6

\* ... and every step of the corrections is a step of update_row.
LEMMA SameEditSteps ==
  /\ U!TypeOK <=> UP!TypeOK
  /\ U!Init <=> UP!Init
  /\ U!InFlight = UP!InFlight
  /\ \A u \in EditCalls, r \in EditRequests : U!Begin(u, r) <=> UP!Begin(u, r)
  /\ \A u \in EditCalls : U!Step(u) <=> UP!Step(u)
  /\ U!Lose <=> UP!Lose
<1> USE DEF U!Sheet, UP!Sheet, U!Rows, UP!Rows, U!Columns, UP!Columns, U!Row, UP!Row,
            U!Text, UP!Text, U!CellMap, UP!CellMap, U!KeyColumns, UP!KeyColumns,
            U!InFlight, UP!InFlight
<1>1. U!TypeOK <=> UP!TypeOK
  BY DEF U!TypeOK, UP!TypeOK
<1>2. U!Init <=> UP!Init
  BY DEF U!Init, UP!Init
<1>3. U!InFlight = UP!InFlight
  OBVIOUS
<1>4. ASSUME NEW u \in EditCalls, NEW r \in EditRequests
      PROVE  U!Begin(u, r) <=> UP!Begin(u, r)
  BY DEF U!Begin, UP!Begin, U!Valid, UP!Valid
<1>5. ASSUME NEW u \in EditCalls
      PROVE  U!Step(u) <=> UP!Step(u)
  BY DEF U!Step, UP!Step, U!Reject, UP!Reject, U!DryRun, UP!DryRun, U!PlanWrite,
     UP!PlanWrite, U!Write, UP!Write, U!ReadBackRow, UP!ReadBackRow, U!Retry, UP!Retry,
     U!GiveUp, UP!GiveUp, U!Fail, UP!Fail, U!Effect, UP!Effect, U!Finish, UP!Finish,
     U!Verdict, UP!Verdict, U!Writable, UP!Writable, U!Matches, UP!Matches, U!Current,
     UP!Current, U!BatchWrite, UP!BatchWrite, U!LastPopulatedRow, UP!LastPopulatedRow,
     U!PopulatedRows, UP!PopulatedRows, U!Populated, UP!Populated, U!DateRows,
     UP!DateRows, U!ItemRows, UP!ItemRows, U!BlockRow, UP!BlockRow, U!Max, UP!Max
<1>6. U!Lose <=> UP!Lose
  BY DEF U!Lose, UP!Lose
<1> QED BY <1>1, <1>2, <1>3, <1>4, <1>5, <1>6

-----------------------------------------------------------------------------
(* Type correctness.                                                       *)

\* Both tools are in order, and so is what clients have been shown.
BothOK ==
  /\ LP!IInv
  /\ UP!IInv
  /\ seen \in [EditCalls -> Seen \cup {None}]
  /\ edits \in 0..MaxEdits

LEMMA LogFrame ==
  ASSUME LP!IInv, sheet' \in Sheet, UNCHANGED logVars
  PROVE  LP!IInv'
BY SameTab DEF logVars, LP!IInv, LP!TypeOK, LP!InFlightOK

LEMMA EditFrame ==
  ASSUME UP!IInv, sheet' \in Sheet, UNCHANGED editVars
  PROVE  UP!IInv'
BY SameTab DEF editVars, UP!IInv, UP!TypeOK, UP!CallsOK, UP!Valid

\* A step of the server belongs to one of the two tools; the other's calls
\* wait, and the owner does nothing.
LEMMA LogStepIsTheTool ==
  ASSUME NEW c \in LogCalls, LogStep(c)
  PROVE  LP!Next /\ UNCHANGED <<editVars, seen, edits>>
BY SameLogSteps DEF LogStep, LP!Next

LEMMA EditStepIsTheTool ==
  ASSUME NEW u \in EditCalls, EditStep(u)
  PROVE  UP!Next /\ UNCHANGED <<logVars, seen, edits>>
BY SameEditSteps DEF EditStep, UP!Next

\* A client asks with arguments update_row takes.
LEMMA AskIsTheTool ==
  ASSUME BothOK, NEW u \in EditCalls, Ask(u)
  PROVE  /\ \E r \in EditRequests :
              /\ r.row = seen[u].row /\ r.expect = seen[u].cells
              /\ UP!Begin(u, r)
         /\ UP!Next /\ UNCHANGED <<logVars, seen, edits>>
<1>1. PICK cells \in Edits, dry \in BOOLEAN :
        U!Begin(u, [row |-> seen[u].row, cells |-> cells,
                    expect |-> seen[u].cells, dryRun |-> dry])
  BY DEF Ask
<1> DEFINE r == [row |-> seen[u].row, cells |-> cells,
                 expect |-> seen[u].cells, dryRun |-> dry]
<1>2. seen[u] \in Seen
  BY DEF Ask, BothOK
<1>3. DOMAIN seen[u].cells \subseteq Columns
  BY <1>1 DEF U!Begin, U!Valid, U!Columns, Columns
<1>4. \E S \in SUBSET U!KeyColumns : seen[u].cells \in [S -> Text]
  BY <1>2 DEF Seen, U!CellMap, U!Text, Text
<1>5. seen[u].cells \in [DOMAIN seen[u].cells -> Text]
  BY <1>4
<1>6. seen[u].cells \in UNION {[S -> Text] : S \in SUBSET Columns}
  BY <1>3, <1>5
<1>7. r \in EditRequests
  BY <1>2, <1>6 DEF EditRequests, Seen
<1>8. UP!Begin(u, r)
  BY <1>1, <1>7, SameEditSteps
<1> QED BY <1>7, <1>8 DEF UP!Next, Ask

LEMMA RestartStops ==
  ASSUME Restart, BothOK
  PROVE  [LP!Next]_(LP!vars) /\ [UP!Next]_(UP!vars) /\ sheet' = sheet /\ UNCHANGED <<seen, edits>>
<1>1. LP!Lose /\ UP!Lose /\ UNCHANGED <<seen, edits>>
  BY SameLogSteps, SameEditSteps DEF Restart
<1>2. [LP!Next]_(LP!vars)
  <2>1. CASE LP!InFlight = {}
    BY <1>1, <2>1 DEF LP!Lose, LP!vars, LP!callVars, BothOK, LP!IInv, LP!TypeOK
  <2>2. CASE LP!InFlight # {}
    BY <1>1, <2>2 DEF LP!Restart, LP!Next
  <2> QED BY <2>1, <2>2
<1>3. [UP!Next]_(UP!vars)
  <2>1. CASE UP!InFlight = {}
    BY <1>1, <2>1 DEF UP!Lose, UP!vars, UP!callVars, BothOK, UP!IInv, UP!TypeOK
  <2>2. CASE UP!InFlight # {}
    BY <1>1, <2>2 DEF UP!Restart, UP!Next
  <2> QED BY <2>1, <2>2
<1> QED BY <1>1, <1>2, <1>3 DEF LP!Lose

\* The owner leaves a tab behind.
LEMMA OwnerEditType ==
  ASSUME BothOK, OwnerEdit
  PROVE  sheet' \in Sheet
<1>1. sheet \in Sheet
  BY SameTab DEF BothOK, LP!IInv, LP!TypeOK
<1>2. PICK r \in 1..LastPopulatedRow(sheet) :
        \/ \E k \in Columns, text \in OwnerText : sheet' = Type(sheet, r, k, text)
        \/ sheet' = InsertRow(sheet, r)
        \/ sheet' = DeleteRow(sheet, r)
  BY DEF OwnerEdit
<1>3. r \in Rows
  BY <1>1, LastPopulatedRowBounds, LayoutAssumption DEF Rows
<1>4. [c \in Columns |-> Blank] \in Row
  BY DEF Row, Text
<1>5. ASSUME NEW k \in Columns, NEW text \in OwnerText
      PROVE  Type(sheet, r, k, text) \in Sheet
  BY <1>1, <1>3, SheetAssumption DEF Type, Sheet, Row
<1>6. InsertRow(sheet, r) \in Sheet
  <2>1. ASSUME NEW q \in Rows, r < q
        PROVE  q - 1 \in Rows
    BY <1>3, <2>1, LayoutAssumption DEF Rows
  <2>2. \A q \in Rows : ~(q < r) /\ q # r => r < q
    BY <1>3, LayoutAssumption DEF Rows
  <2> QED BY <1>1, <1>4, <2>1, <2>2 DEF InsertRow, Sheet
<1>7. DeleteRow(sheet, r) \in Sheet
  <2>1. ASSUME NEW q \in Rows, q # MaxRow
        PROVE  q + 1 \in Rows
    BY <2>1, LayoutAssumption DEF Rows
  <2> QED BY <1>1, <1>4, <2>1 DEF DeleteRow, Sheet
<1> QED BY <1>2, <1>5, <1>6, <1>7

LEMMA InitBothOK == Init => BothOK
BY SameLogSteps, SameEditSteps, LogConstants, EditConstants, LP!InitIInv, UP!InitIInv,
   SheetAssumption DEF Init, BothOK

LEMMA NextBothOK == BothOK /\ [Next]_vars => BothOK'
<1> SUFFICES ASSUME BothOK, [Next]_vars
             PROVE  BothOK'
  OBVIOUS
<1>1. sheet \in Sheet /\ LP!IInv /\ UP!IInv
  BY SameTab DEF BothOK, LP!IInv, LP!TypeOK
<1>2. [LP!Next]_(LP!vars) => LP!IInv' /\ sheet' \in Sheet
  BY <1>1, LogConstants, SameTab, LP!NextIInv DEF LP!IInv, LP!TypeOK
<1>3. [UP!Next]_(UP!vars) => UP!IInv' /\ sheet' \in Sheet
  BY <1>1, EditConstants, SameTab, UP!NextIInv DEF UP!IInv, UP!TypeOK
<1>4. ASSUME NEW c \in LogCalls, LogStep(c)
      PROVE  BothOK'
  BY <1>1, <1>2, <1>4, LogStepIsTheTool, EditFrame DEF BothOK
<1>5. ASSUME NEW u \in EditCalls, Find(u)
      PROVE  BothOK'
  <2>1. \A r \in ItemRows(sheet) \cup DateRows(sheet) : Shown(sheet, r) \in Seen
    <3> SUFFICES ASSUME NEW r \in Rows
                 PROVE  Shown(sheet, r) \in Seen
      BY DEF ItemRows, DateRows
    <3>1. \A k \in Columns : sheet[r][k] \in Text
      BY <1>1 DEF Sheet, Row
    <3>2. {k \in Columns : sheet[r][k] # Blank} \in SUBSET U!KeyColumns
      BY LayoutAssumption DEF Columns, U!KeyColumns
    <3>3. CellsMap(sheet, r) \in U!CellMap
      <4> DEFINE D == {k \in Columns : sheet[r][k] # Blank}
      <4>1. CellsMap(sheet, r) \in [D -> U!Text]
        BY <3>1 DEF CellsMap, U!Text, Text
      <4> HIDE DEF D
      <4>2. D \in SUBSET U!KeyColumns
        BY <3>2 DEF D
      <4> QED BY <4>1, <4>2 DEF U!CellMap
    <3>4. NoCells \in U!CellMap
      <4>1. NoCells \in [{} -> U!Text] /\ {} \in SUBSET U!KeyColumns
        BY DEF NoCells
      <4> QED BY <4>1 DEF U!CellMap
    <3> QED BY <1>1, <3>3, <3>4 DEF Shown, Seen, Sheet
  <2>2. seen' \in [EditCalls -> Seen \cup {None}]
    BY <1>5, <2>1 DEF Find, BothOK
  <2> QED BY <1>1, <1>5, <2>2, LogFrame, EditFrame DEF Find, BothOK
<1>6. ASSUME NEW u \in EditCalls, Ask(u)
      PROVE  BothOK'
  BY <1>1, <1>3, <1>6, AskIsTheTool, LogFrame DEF BothOK
<1>7. ASSUME NEW u \in EditCalls, EditStep(u)
      PROVE  BothOK'
  BY <1>1, <1>3, <1>7, EditStepIsTheTool, LogFrame DEF BothOK
<1>8. CASE OwnerEdit
  <2>1. edits' \in 0..MaxEdits
    BY <1>8, SheetAssumption DEF OwnerEdit, BothOK
  <2> QED BY <1>1, <1>8, <2>1, OwnerEditType, LogFrame, EditFrame DEF OwnerEdit, BothOK
<1>9. CASE Restart
  BY <1>2, <1>3, <1>9, RestartStops DEF BothOK
<1>10. CASE Quiet \/ UNCHANGED vars
  BY <1>1, <1>10, LogFrame, EditFrame DEF Quiet, vars, BothOK
<1> QED BY <1>4, <1>5, <1>6, <1>7, <1>8, <1>9, <1>10 DEF Next

LEMMA BothInvariance == Spec => []BothOK
BY InitBothOK, NextBothOK, PTL DEF Spec

\* Every variable of the tab, its calls and its clients keeps its type.
THEOREM SheetTypeCorrect == Spec => []TypeOK
<1>1. BothOK => TypeOK
  BY SameLogSteps, SameEditSteps DEF BothOK, TypeOK, LP!IInv, UP!IInv
<1> QED BY <1>1, BothInvariance, PTL

-----------------------------------------------------------------------------
(* One at a time.                                                          *)

\* One call at most is in flight, of either tool.
OneAtATime ==
  /\ \A u, v \in UP!InFlight : u = v
  /\ LP!InFlight = {} \/ UP!InFlight = {}

\* A correction under way is of the row its client was shown, and expects the
\* cells it was shown there.
AsksWhatWasShown ==
  \A u \in EditCalls : editPc[u] \in {"reading", "writing", "checking"} =>
    /\ seen[u] # None
    /\ editReq[u].row = seen[u].row
    /\ editReq[u].expect = seen[u].cells

\* The write of a correction has yet to take effect, and would pass its checks
\* again; or it has, its response was lost, and it would change nothing more.
PendingCorrection ==
  \A u \in EditCalls : editPc[u] = "writing" =>
    \/ /\ UP!Verdict(sheet, editReq[u]) = "ok"
       /\ editFrom[u] = UP!Current(sheet, editReq[u])
    \/ UP!BatchWrite(sheet, editReq[u]) = sheet

ExclusiveInv ==
  BothOK /\ LP!SerialInv /\ OneAtATime /\ AsksWhatWasShown /\ PendingCorrection

LEMMA InitExclusiveInv == Init => ExclusiveInv
<1> SUFFICES ASSUME Init
             PROVE  ExclusiveInv
  OBVIOUS
<1>1. BothOK /\ LP!Init /\ UP!Init
  BY InitBothOK, SameLogSteps, SameEditSteps DEF Init
<1>2. LP!SerialInv
  BY <1>1, LogConstants, LP!InitSerialInv
<1> QED BY <1>1, <1>2 DEF ExclusiveInv, OneAtATime, AsksWhatWasShown, PendingCorrection,
           UP!Init, UP!InFlight

\* Whoever starts something finds no call in flight.
LEMMA FreeIsQuiet ==
  ASSUME Exclusive, Free
  PROVE  LP!InFlight = {} /\ UP!InFlight = {}
BY SameLogSteps, SameEditSteps DEF Free

\* A step of a call in flight starts no other.
LEMMA LogFlight ==
  ASSUME LP!IInv, NEW c \in LogCalls, LP!Step(c)
  PROVE  c \in LP!InFlight /\ LP!InFlight' \subseteq LP!InFlight
BY DEF LP!IInv, LP!TypeOK, LP!InFlight, LP!Step, LP!RefuseDate, LP!DryRun, LP!PlanWrite,
   LP!Write, LP!RefuseRange, LP!ReadBackRange, LP!Retry, LP!GiveUp, LP!Fail, LP!Finish

LEMMA EditFlight ==
  ASSUME UP!IInv, NEW u \in EditCalls, UP!Step(u)
  PROVE  u \in UP!InFlight /\ UP!InFlight' \subseteq UP!InFlight
BY DEF UP!IInv, UP!TypeOK, UP!InFlight, UP!Step, UP!Reject, UP!DryRun, UP!PlanWrite,
   UP!Write, UP!ReadBackRow, UP!Retry, UP!GiveUp, UP!Fail, UP!Finish

\* With no correction in flight there is nothing to keep of them.
LEMMA NoCorrections ==
  ASSUME UP!InFlight' = {}
  PROVE  AsksWhatWasShown' /\ PendingCorrection' /\ OneAtATime'
BY DEF UP!InFlight, AsksWhatWasShown, PendingCorrection, OneAtATime

\* With no session in flight none is pending.
LEMMA NoSessions ==
  ASSUME LP!IInv', LP!InFlight' = {}
  PROVE  LP!SerialInv'
BY DEF LP!InFlight, LP!SerialInv, LP!AtMostOneInFlight, LP!PendingWriteIsSafe

LEMMA LogKeepsExclusive ==
  ASSUME ExclusiveInv, Exclusive, NEW c \in LogCalls, LogStep(c), BothOK'
  PROVE  ExclusiveInv'
<1>1. LP!IInv /\ UNCHANGED editVars
  BY LogStepIsTheTool DEF ExclusiveInv, BothOK
<1>2. UP!InFlight = {} /\ LP!SerialInv'
  <2>1. CASE Free /\ (LP!Begin(c) \/ LP!Refuse(c))
    <3>1. LP!InFlight = {} /\ UP!InFlight = {}
      BY <2>1, FreeIsQuiet
    <3>2. \A d \in LogCalls : d # c => logPc'[d] = logPc[d]
      BY <2>1, <1>1 DEF LP!Begin, LP!Refuse, LP!Finish, LP!IInv, LP!TypeOK
    <3>3. logPc'[c] # "writing"
      BY <2>1, <1>1 DEF LP!Begin, LP!Refuse, LP!Finish, LP!IInv, LP!TypeOK
    <3> QED BY <3>1, <3>2, <3>3 DEF BothOK, LP!InFlight, LP!SerialInv,
               LP!AtMostOneInFlight, LP!PendingWriteIsSafe
  <2>2. CASE LP!Step(c)
    <3>1. c \in LP!InFlight
      BY <1>1, <2>2, LogFlight
    <3>2. LP!SerialInv'
      BY <2>2, LogConstants, LP!StepSerialInv DEF ExclusiveInv
    <3> QED BY <3>1, <3>2 DEF ExclusiveInv, OneAtATime
  <2> QED BY <2>1, <2>2, SameLogSteps DEF LogStep
<1>3. UP!InFlight' = {}
  BY <1>1, <1>2 DEF UP!InFlight, editVars
<1> QED BY <1>2, <1>3, NoCorrections DEF ExclusiveInv

LEMMA AskKeepsExclusive ==
  ASSUME ExclusiveInv, Exclusive, NEW u \in EditCalls, Ask(u), BothOK'
  PROVE  ExclusiveInv'
<1>1. BothOK /\ LP!InFlight = {} /\ UP!InFlight = {}
  BY FreeIsQuiet DEF ExclusiveInv, Ask
<1>2. PICK r \in EditRequests :
        r.row = seen[u].row /\ r.expect = seen[u].cells /\ UP!Begin(u, r)
  BY <1>1, AskIsTheTool
<1>3. seen' = seen /\ seen[u] # None /\ UNCHANGED logVars
  BY DEF Ask
<1>4. LP!InFlight' = {}
  BY <1>1, <1>3 DEF LP!InFlight, logVars
<1>5. /\ editPc'[u] = "reading" /\ editReq'[u] = r
      /\ \A v \in EditCalls : v # u => editPc'[v] = editPc[v]
  BY <1>1, <1>2 DEF UP!Begin, BothOK, UP!IInv, UP!TypeOK
<1>6. OneAtATime' /\ AsksWhatWasShown' /\ PendingCorrection'
  BY <1>1, <1>2, <1>3, <1>4, <1>5
  DEF OneAtATime, AsksWhatWasShown, PendingCorrection, UP!InFlight
<1> QED BY <1>4, <1>6, NoSessions DEF ExclusiveInv, BothOK

LEMMA EditKeepsExclusive ==
  ASSUME ExclusiveInv, NEW u \in EditCalls, EditStep(u), BothOK'
  PROVE  ExclusiveInv'
<1>1. UP!IInv /\ UP!Step(u) /\ UP!Next /\ UNCHANGED <<logVars, seen>>
  BY EditStepIsTheTool, SameEditSteps DEF ExclusiveInv, BothOK, EditStep
<1>2. u \in UP!InFlight /\ UP!InFlight' \subseteq UP!InFlight
  BY <1>1, EditFlight
<1>3. LP!InFlight = {} /\ LP!InFlight' = {} /\ OneAtATime'
  BY <1>1, <1>2 DEF ExclusiveInv, OneAtATime, LP!InFlight, logVars
<1>4. AsksWhatWasShown'
  <2> SUFFICES ASSUME NEW v \in EditCalls, editPc'[v] \in {"reading", "writing", "checking"}
               PROVE  /\ seen'[v] # None
                      /\ editReq'[v].row = seen'[v].row
                      /\ editReq'[v].expect = seen'[v].cells
    BY DEF AsksWhatWasShown
  <2>1. v \in UP!InFlight
    BY <1>2 DEF UP!InFlight
  <2>2. editPc[v] \in {"reading", "writing", "checking"}
    BY <1>1, <2>1 DEF UP!IInv, UP!TypeOK, UP!InFlight
  <2>3. editReq'[v] = editReq[v]
    BY <1>1, <2>2, EditConstants, UP!CallSteps
  <2> QED BY <1>1, <2>2, <2>3 DEF ExclusiveInv, AsksWhatWasShown
<1>5. PendingCorrection'
  <2> SUFFICES ASSUME NEW v \in EditCalls, editPc'[v] = "writing"
               PROVE  \/ /\ UP!Verdict(sheet', editReq'[v]) = "ok"
                         /\ editFrom'[v] = UP!Current(sheet', editReq'[v])
                      \/ UP!BatchWrite(sheet', editReq'[v]) = sheet'
    BY DEF PendingCorrection
  <2>1. \/ editPc[v] = "writing" /\ editFrom'[v] = editFrom[v]
        \/ /\ UP!Verdict(sheet, editReq[v]) = "ok"
           /\ editFrom'[v] = UP!Current(sheet, editReq[v]) /\ sheet' = sheet
    BY <1>1, EditConstants, UP!CallSteps
  <2>2. v \in UP!InFlight
    BY <1>2 DEF UP!InFlight
  <2>3. editReq'[v] = editReq[v]
    BY <1>1, <2>2, EditConstants, UP!CallSteps DEF UP!InFlight
  <2>4. CASE editPc[v] = "writing" /\ editFrom'[v] = editFrom[v] /\ sheet' = sheet
    BY <2>3, <2>4 DEF ExclusiveInv, PendingCorrection
  <2>5. CASE editPc[v] = "writing" /\ sheet' # sheet
    <3>1. PICK w \in EditCalls : editPc[w] = "writing" /\ sheet' = UP!BatchWrite(sheet, editReq[w])
      BY <1>1, <2>5, EditConstants, UP!OnlyCorrectionsChangeTheSheet
    <3>2. w = v
      BY <2>2, <3>1 DEF ExclusiveInv, OneAtATime, UP!InFlight
    <3>3. /\ editReq[v] \in EditRequests /\ UP!Valid(editReq[v])
          /\ editReq[v].row \in UP!Rows /\ sheet \in UP!Sheet
      BY <1>1, <2>5 DEF UP!IInv, UP!TypeOK, UP!CallsOK
    <3>4. UP!BatchWrite(sheet', editReq[v]) = sheet'
      BY <3>1, <3>2, <3>3, EditConstants, UP!BatchWriteIsIdempotent
    <3> QED BY <2>3, <3>4
  <2> QED BY <2>1, <2>3, <2>4, <2>5
<1> QED BY <1>3, <1>4, <1>5, NoSessions DEF ExclusiveInv, BothOK

LEMMA NextExclusiveInv ==
  ASSUME Exclusive
  PROVE  ExclusiveInv /\ [Next]_vars => ExclusiveInv'
<1> SUFFICES ASSUME ExclusiveInv, [Next]_vars
             PROVE  ExclusiveInv'
  OBVIOUS
<1>1. BothOK' /\ LP!IInv'
  BY NextBothOK DEF ExclusiveInv, BothOK
<1>2. ASSUME LP!InFlight' = {}, UP!InFlight' = {}
      PROVE  ExclusiveInv'
  BY <1>1, <1>2, NoCorrections, NoSessions DEF ExclusiveInv
<1>3. ASSUME NEW c \in LogCalls, LogStep(c)
      PROVE  ExclusiveInv'
  BY <1>1, <1>3, LogKeepsExclusive
<1>4. ASSUME NEW u \in EditCalls, Find(u)
      PROVE  ExclusiveInv'
  <2>1. LP!InFlight = {} /\ UP!InFlight = {}
    BY <1>4, FreeIsQuiet DEF Find
  <2> QED BY <1>2, <1>4, <2>1 DEF Find, LP!InFlight, UP!InFlight, logVars, editVars
<1>5. ASSUME NEW u \in EditCalls, Ask(u)
      PROVE  ExclusiveInv'
  BY <1>1, <1>5, AskKeepsExclusive
<1>6. ASSUME NEW u \in EditCalls, EditStep(u)
      PROVE  ExclusiveInv'
  BY <1>1, <1>6, EditKeepsExclusive
<1>7. CASE OwnerEdit
  <2>1. LP!InFlight = {} /\ UP!InFlight = {}
    BY <1>7, FreeIsQuiet DEF OwnerEdit
  <2> QED BY <1>2, <1>7, <2>1 DEF OwnerEdit, LP!InFlight, UP!InFlight, logVars, editVars
<1>8. CASE Restart
  <2>1. LP!InFlight' = {} /\ UP!InFlight' = {}
    BY <1>8, SameLogSteps, SameEditSteps
    DEF Restart, LP!Lose, UP!Lose, LP!InFlight, UP!InFlight
  <2> QED BY <1>2, <2>1
<1>9. CASE Quiet \/ UNCHANGED vars
  BY <1>9 DEF Quiet, vars, logVars, editVars, ExclusiveInv, BothOK, OneAtATime,
     AsksWhatWasShown, PendingCorrection, LP!SerialInv, LP!IInv, LP!TypeOK, LP!InFlightOK,
     LP!AtMostOneInFlight, LP!PendingWriteIsSafe, LP!InFlight, UP!InFlight, UP!IInv,
     UP!TypeOK, UP!CallsOK, UP!Valid
<1> QED BY <1>3, <1>4, <1>5, <1>6, <1>7, <1>8, <1>9 DEF Next

LEMMA ExclusiveInvariance ==
  ASSUME Exclusive
  PROVE  Spec => []ExclusiveInv
BY InitExclusiveInv, NextExclusiveInv, PTL DEF Spec

\* The correction u takes effect now: its checks would still pass, and what it
\* reports as replaced is there.
TakesEffect(u) ==
  /\ editPc[u] = "writing"
  /\ sheet' = UP!BatchWrite(sheet, editReq[u])
  /\ editReq[u] \in EditRequests /\ UP!Valid(editReq[u]) /\ editReq[u].row \in Rows
  /\ UP!Verdict(sheet, editReq[u]) = "ok"
  /\ editFrom[u] = UP!Current(sheet, editReq[u])

\* What the server can do to a tab in one step: add below it, or apply one
\* correction for the first time.
LEMMA ServerSteps ==
  ASSUME ExclusiveInv, Next, edits' = edits, sheet' # sheet
  PROVE  \/ /\ UNCHANGED editVars
            /\ \A r \in Rows : Populated(sheet[r]) => sheet'[r] = sheet[r]
         \/ \E u \in EditCalls : TakesEffect(u)
<1>1. BothOK /\ LP!IInv /\ UP!IInv /\ sheet \in Sheet
  BY SameTab DEF ExclusiveInv, BothOK, LP!IInv, LP!TypeOK
<1>2. ASSUME NEW c \in LogCalls, LogStep(c)
      PROVE  /\ UNCHANGED editVars
             /\ \A r \in Rows : Populated(sheet[r]) => sheet'[r] = sheet[r]
  <2>1. LP!Next /\ UNCHANGED editVars
    BY <1>2, LogStepIsTheTool
  <2>2. PICK d \in LogCalls : logPc[d] = "writing" /\ sheet' = LP!Overwrite(sheet, logPlan[d])
    BY <2>1, LogConstants, LP!OnlyWritesChangeTheSheet
  <2>3. \A r \in LP!Rows : LP!Populated(sheet[r]) => sheet'[r] = sheet[r]
    BY <2>2 DEF ExclusiveInv, LP!SerialInv, LP!PendingWriteIsSafe
  <2> QED BY <2>1, <2>3, SameTab
<1>3. ASSUME NEW v \in EditCalls, EditStep(v)
      PROVE  \E u \in EditCalls : TakesEffect(u)
  <2>1. UP!Next
    BY <1>3, EditStepIsTheTool
  <2>2. PICK u \in EditCalls : editPc[u] = "writing" /\ sheet' = UP!BatchWrite(sheet, editReq[u])
    BY <2>1, EditConstants, UP!OnlyCorrectionsChangeTheSheet
  <2>3. /\ editReq[u] \in EditRequests /\ UP!Valid(editReq[u])
        /\ editReq[u].row \in Rows
    BY <1>1, <2>2, SameTab, EditConstants DEF UP!IInv, UP!TypeOK, UP!CallsOK, UP!CallAssumption
  <2>4. /\ UP!Verdict(sheet, editReq[u]) = "ok"
        /\ editFrom[u] = UP!Current(sheet, editReq[u])
    BY <2>2 DEF ExclusiveInv, PendingCorrection
  <2> QED BY <2>2, <2>3, <2>4 DEF TakesEffect
<1>4. ASSUME OwnerEdit PROVE FALSE
  BY <1>1, <1>4, SheetAssumption DEF OwnerEdit, BothOK
<1>5. ASSUME NEW u \in EditCalls, Ask(u) PROVE FALSE
  BY <1>1, <1>5, AskIsTheTool DEF UP!Begin
<1>6. ASSUME Restart PROVE FALSE
  BY <1>1, <1>6, RestartStops
<1> QED BY <1>2, <1>3, <1>4, <1>5, <1>6 DEF Next, Find, Quiet, vars

\* A correction that changes the sheet is the one that takes effect.
LEMMA CorrectionTakesEffect ==
  ASSUME ExclusiveInv, Next, NEW u \in EditCalls, Corrects(u)
  PROVE  TakesEffect(u)
<1>1. ~(UNCHANGED editVars)
  BY DEF Corrects, editVars
<1>2. ~OwnerEdit
  BY <1>1 DEF OwnerEdit
<1>3. edits' = edits
  BY <1>2 DEF Next, LogStep, Find, Ask, EditStep, Restart, Quiet, vars
<1>4. PICK v \in EditCalls : TakesEffect(v)
  BY <1>1, <1>3, ServerSteps DEF Corrects
<1>5. u = v
  BY <1>4 DEF Corrects, TakesEffect, ExclusiveInv, OneAtATime, UP!InFlight
<1> QED BY <1>4, <1>5

\* A correction only ever changes a row that still holds every text its client
\* was shown there, whoever did what to the tab in between.
THEOREM CorrectionsHitTheRow ==
  ASSUME Exclusive
  PROVE  Spec => CorrectionHitsTheRowShown
<1> DEFINE Hits == \A u \in EditCalls : Corrects(u) =>
       \A k \in DOMAIN seen[u].cells : sheet[seen[u].row][k] = seen[u].cells[k]
<1>1. ExclusiveInv /\ [Next]_vars => [Hits]_vars
  <2> SUFFICES ASSUME ExclusiveInv, Next, NEW u \in EditCalls, Corrects(u)
               PROVE  \A k \in DOMAIN seen[u].cells :
                        sheet[seen[u].row][k] = seen[u].cells[k]
    OBVIOUS
  <2>1. TakesEffect(u)
    BY CorrectionTakesEffect
  <2>2. editReq[u].row = seen[u].row /\ editReq[u].expect = seen[u].cells
    BY <2>1 DEF TakesEffect, ExclusiveInv, AsksWhatWasShown
  <2>3. UP!Matches(sheet, editReq[u])
    BY <2>1 DEF TakesEffect, UP!Verdict
  <2> QED BY <2>2, <2>3 DEF UP!Matches
<1>2. CorrectionHitsTheRowShown <=> [][Hits]_vars
  BY DEF CorrectionHitsTheRowShown
<1> HIDE DEF Hits
<1> QED BY <1>1, <1>2, ExclusiveInvariance, PTL DEF Spec

\* The text a correction reports as replaced is the text that was there, however
\* often its write was repeated.
THEOREM OverwritesAreReported ==
  ASSUME Exclusive
  PROVE  Spec => OverwrittenTextIsReported
<1> DEFINE Reported == \A u \in EditCalls : Corrects(u) =>
       \A k \in DOMAIN editReq[u].cells : editFrom[u][k] = sheet[editReq[u].row][k]
<1>1. ExclusiveInv /\ [Next]_vars => [Reported]_vars
  <2> SUFFICES ASSUME ExclusiveInv, Next, NEW u \in EditCalls, Corrects(u)
               PROVE  \A k \in DOMAIN editReq[u].cells :
                        editFrom[u][k] = sheet[editReq[u].row][k]
    OBVIOUS
  <2>1. TakesEffect(u)
    BY CorrectionTakesEffect
  <2> QED BY <2>1 DEF TakesEffect, UP!Current
<1>2. OverwrittenTextIsReported <=> [][Reported]_vars
  BY DEF OverwrittenTextIsReported
<1> HIDE DEF Reported
<1> QED BY <1>1, <1>2, ExclusiveInvariance, PTL DEF Spec

\* The server changes what a row holds only where a correction was asked to:
\* the blast radius of the two tools together.
THEOREM HistoryStays ==
  ASSUME Exclusive
  PROVE  Spec => HistoryIsKept
<1> DEFINE Kept == \A r \in Rows, k \in Columns :
       (edits' = edits /\ Populated(sheet[r]) /\ sheet'[r][k] # sheet[r][k]) =>
         \E u \in EditCalls :
           editPc[u] = "writing" /\ editReq[u].row = r /\ k \in DOMAIN editReq[u].cells
<1>1. ExclusiveInv /\ [Next]_vars => [Kept]_vars
  <2> SUFFICES ASSUME ExclusiveInv, Next, NEW r \in Rows, NEW k \in Columns,
                      edits' = edits, Populated(sheet[r]), sheet'[r][k] # sheet[r][k]
               PROVE  \E u \in EditCalls : /\ editPc[u] = "writing"
                                           /\ editReq[u].row = r
                                           /\ k \in DOMAIN editReq[u].cells
    OBVIOUS
  <2>1. PICK u \in EditCalls : TakesEffect(u)
    BY ServerSteps
  <2>2. sheet \in UP!Sheet
    BY DEF ExclusiveInv, BothOK, UP!IInv, UP!TypeOK
  <2>3. sheet'[r][k] # sheet[r][k] => r = editReq[u].row /\ k \in DOMAIN editReq[u].cells
    BY <2>1, <2>2, SameTab, EditConstants, UP!BatchWriteCells DEF TakesEffect
  <2> QED BY <2>1, <2>3 DEF TakesEffect
<1>2. HistoryIsKept <=> [][Kept]_vars
  BY DEF HistoryIsKept
<1> HIDE DEF Kept
<1> QED BY <1>1, <1>2, ExclusiveInvariance, PTL DEF Spec

\* No step of the server leaves a date row without a date, so no two sessions
\* are ever merged into one.
THEOREM SessionsStayApart ==
  ASSUME Exclusive
  PROVE  Spec => SessionsNeverMerge
<1> DEFINE Apart == edits' = edits => DateRows(sheet) \subseteq DateRows(sheet')
<1>1. ExclusiveInv /\ [Next]_vars => [Apart]_vars
  <2> SUFFICES ASSUME ExclusiveInv, Next, edits' = edits, sheet' # sheet,
                      NEW d \in DateRows(sheet)
               PROVE  d \in DateRows(sheet')
    BY DEF DateRows
  <2>1. sheet \in Sheet /\ sheet \in UP!Sheet /\ 0 \in Columns
    BY SameTab, LayoutAssumption DEF ExclusiveInv, BothOK, UP!IInv, UP!TypeOK, Columns
  <2>2. d \in Rows /\ Populated(sheet[d]) /\ sheet[d][0] \in Dates
    BY <2>1, DateRowsArePopulated DEF DateRows
  <2>3. CASE \A r \in Rows : Populated(sheet[r]) => sheet'[r] = sheet[r]
    BY <2>2, <2>3 DEF DateRows
  <2>4. ASSUME NEW u \in EditCalls, TakesEffect(u)
        PROVE  sheet'[d][0] \in Dates
    <3>1. /\ \A k \in DOMAIN editReq[u].cells : sheet'[editReq[u].row][k] = editReq[u].cells[k]
          /\ ~(d = editReq[u].row /\ 0 \in DOMAIN editReq[u].cells) =>
               sheet'[d][0] = sheet[d][0]
      BY <2>1, <2>2, <2>4, SameTab, EditConstants, UP!BatchWriteCells DEF TakesEffect
    <3>2. CASE d = editReq[u].row /\ 0 \in DOMAIN editReq[u].cells
      <4>1. UP!Writable(sheet, editReq[u])
        BY <2>4 DEF TakesEffect, UP!Verdict
      <4>2. editReq[u].row \notin UP!ItemRows(sheet)
        BY <2>2, <3>2, LayoutAssumption DEF UP!ItemRows
      <4>3. editReq[u].cells[0] \in Dates
        BY <4>1, <4>2 DEF UP!Writable
      <4> QED BY <3>1, <3>2, <4>3
    <3> QED BY <2>2, <3>1, <3>2
  <2> QED BY <2>2, <2>3, <2>4, ServerSteps DEF DateRows
<1>2. SessionsNeverMerge <=> [][Apart]_vars
  BY DEF SessionsNeverMerge
<1> HIDE DEF Apart
<1> QED BY <1>1, <1>2, ExclusiveInvariance, PTL DEF Spec
=============================================================================
