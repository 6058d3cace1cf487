--------------------------- MODULE UpdateRowProofs ---------------------------
(***************************************************************************)
(* Proofs about UpdateRow, for every tab, profile, set of calls, requests  *)
(* and failures: type correctness, and that overlapping corrections        *)
(* neither undo each other nor replace a text unnamed.                     *)
(***************************************************************************)
EXTENDS UpdateRow, DatedBlockProofs

-----------------------------------------------------------------------------
(* What the operators return.                                              *)

LEMMA CellMapElements ==
  ASSUME NEW m \in CellMap
  PROVE  /\ DOMAIN m \subseteq KeyColumns
         /\ m \in [DOMAIN m -> Text]
         /\ \A k \in DOMAIN m : m[k] \in Text
<1>1. PICK S \in SUBSET KeyColumns : m \in [S -> Text]
  BY DEF CellMap
<1> QED BY <1>1

LEMMA CellMapIntro ==
  ASSUME NEW S \in SUBSET KeyColumns, NEW m \in [S -> Text]
  PROVE  m \in CellMap
BY DEF CellMap

\* A request that passes validation names columns of the row, all of them.
LEMMA ValidRequests ==
  ASSUME NEW r \in Requests, Valid(r)
  PROVE  /\ r.row \in Int /\ r.row >= 1
         /\ DOMAIN r.cells \subseteq Columns
         /\ \A k \in DOMAIN r.cells : r.cells[k] \in Text
<1>1. r.row \in Int /\ r.cells \in CellMap
  BY CallAssumption DEF Request
<1> QED BY <1>1, CellMapElements DEF Valid

\* A row that passes the checks is a row of the tab.
LEMMA VerdictOnARow ==
  ASSUME NEW s \in Sheet, NEW r \in Requests, Valid(r), Verdict(s, r) = "ok"
  PROVE  r.row \in Rows
<1>1. ~(r.row > LastPopulatedRow(s))
  BY DEF Verdict
<1> QED BY <1>1, ValidRequests, LastPopulatedRowBounds, LayoutAssumption DEF Rows

\* What it holds is reported for exactly the cells named.
LEMMA CurrentType ==
  ASSUME NEW s \in Sheet, NEW r \in Requests, Valid(r), r.row \in Rows
  PROVE  /\ Current(s, r) \in CellMap
         /\ \A k \in DOMAIN r.cells : Current(s, r)[k] = s[r.row][k]
<1>1. DOMAIN r.cells \subseteq Columns
  BY ValidRequests
<1>2. DOMAIN r.cells \in SUBSET KeyColumns
  BY <1>1, LayoutAssumption DEF Columns, KeyColumns
<1>3. \A k \in DOMAIN r.cells : s[r.row][k] \in Text
  BY <1>1 DEF Sheet, Row
<1>4. Current(s, r) \in [DOMAIN r.cells -> Text]
  BY <1>3 DEF Current
<1> QED BY <1>2, <1>4, CellMapIntro DEF Current

\* The batch changes the cells it names, and no others.
LEMMA BatchWriteCells ==
  ASSUME NEW s \in Sheet, NEW r \in Requests, Valid(r), r.row \in Rows
  PROVE  /\ BatchWrite(s, r) \in Sheet
         /\ \A k \in DOMAIN r.cells : BatchWrite(s, r)[r.row][k] = r.cells[k]
         /\ \A q \in Rows, k \in Columns :
              ~(q = r.row /\ k \in DOMAIN r.cells) => BatchWrite(s, r)[q][k] = s[q][k]
<1> DEFINE row == [c \in Columns |-> IF c \in DOMAIN r.cells THEN r.cells[c]
                                     ELSE s[r.row][c]]
<1>1. DOMAIN r.cells \subseteq Columns /\ \A k \in DOMAIN r.cells : r.cells[k] \in Text
  BY ValidRequests
<1>2. row \in Row
  BY <1>1 DEF Sheet, Row
<1>3. BatchWrite(s, r) = [s EXCEPT ![r.row] = row]
  BY DEF BatchWrite
<1>4. \A k \in Columns : row[k] = IF k \in DOMAIN r.cells THEN r.cells[k] ELSE s[r.row][k]
  OBVIOUS
<1> HIDE DEF row
<1>5. BatchWrite(s, r)[r.row] = row
  BY <1>3 DEF Sheet
<1>6. \A q \in Rows : q # r.row => BatchWrite(s, r)[q] = s[q]
  BY <1>3 DEF Sheet
<1>7. BatchWrite(s, r) \in Sheet
  BY <1>2, <1>3 DEF Sheet
<1> QED BY <1>1, <1>4, <1>5, <1>6, <1>7

\* Repeating the batch changes nothing more.
LEMMA BatchWriteIsIdempotent ==
  ASSUME NEW s \in Sheet, NEW r \in Requests, Valid(r), r.row \in Rows
  PROVE  BatchWrite(BatchWrite(s, r), r) = BatchWrite(s, r)
<1> DEFINE t == BatchWrite(s, r)
<1>1. /\ t \in Sheet /\ \A k \in DOMAIN r.cells : t[r.row][k] = r.cells[k]
      /\ BatchWrite(t, r) \in Sheet
      /\ \A k \in DOMAIN r.cells : BatchWrite(t, r)[r.row][k] = r.cells[k]
      /\ \A q \in Rows, k \in Columns :
           ~(q = r.row /\ k \in DOMAIN r.cells) => BatchWrite(t, r)[q][k] = t[q][k]
  BY BatchWriteCells
<1> HIDE DEF t
<1>2. \A q \in Rows, k \in Columns : BatchWrite(t, r)[q][k] = t[q][k]
  BY <1>1
<1>3. \A q \in Rows : BatchWrite(t, r)[q] = t[q]
  BY <1>1, <1>2 DEF Sheet, Row
<1> QED BY <1>1, <1>3 DEF Sheet, t

-----------------------------------------------------------------------------
(* Type correctness.                                                       *)

\* A call past its validation has a valid request; one past its checks, a row
\* of the tab. Only a finished call has an answer.
CallsOK ==
  \A c \in Calls :
    /\ pc[c] = "idle" => req[c] = None
    /\ pc[c] \in {"reading", "writing", "checking"} \/ outcome[c] = "ok" =>
         req[c] \in Requests /\ Valid(req[c])
    /\ pc[c] \in {"writing", "checking"} \/ outcome[c] = "ok" => req[c].row \in Rows
    /\ pc[c] # "done" => outcome[c] = "none"

IInv == TypeOK /\ CallsOK

LEMMA InitIInv == Init => IInv
BY CallAssumption DEF Init, IInv, TypeOK, CallsOK

LEMMA EffectType ==
  ASSUME IInv, NEW c \in Calls, Effect(c)
  PROVE  sheet' \in Sheet
BY BatchWriteCells DEF IInv, TypeOK, CallsOK, Effect

LEMMA ValidIsStable ==
  ASSUME layout' = layout, NEW r
  PROVE  Valid(r)' <=> Valid(r)
BY DEF Valid

LEMMA NextIInv == IInv /\ [Next]_vars => IInv'
<1> SUFFICES ASSUME IInv, [Next]_vars
             PROVE  IInv'
  OBVIOUS
<1> USE DEF IInv, TypeOK, CallsOK
<1>0. layout' = layout
  BY DEF Next, Step, Begin, Refuse, Reject, DryRun, PlanWrite, Write, ReadBackRow,
     Retry, GiveUp, Fail, Restart, Lose, Quiet, vars
<1>1. ASSUME NEW c \in Calls, NEW r \in Requests, Begin(c, r)
      PROVE  IInv'
  BY <1>0, <1>1, CallAssumption DEF Begin, Valid
<1>2. ASSUME NEW c \in Calls, NEW r \in Requests, Refuse(c, r)
      PROVE  IInv'
  BY <1>0, <1>2 DEF Refuse, Finish, Valid
<1>3. ASSUME NEW c \in Calls, Reject(c)
      PROVE  IInv'
  <2>1. Verdict(sheet, req[c]) \in {"row_not_found", "protected_row", "conflict"}
    BY <1>3 DEF Reject, Verdict
  <2> QED BY <1>0, <1>3, <2>1 DEF Reject, Finish, Valid
<1>4. ASSUME NEW c \in Calls, DryRun(c)
      PROVE  IInv'
  <2>1. Current(sheet, req[c]) \in CellMap
    BY <1>4, VerdictOnARow, CurrentType DEF DryRun
  <2> QED BY <1>0, <1>4, <2>1 DEF DryRun, Finish, Valid
<1>5. ASSUME NEW c \in Calls, PlanWrite(c)
      PROVE  IInv'
  <2>1. req[c].row \in Rows
    BY <1>5, VerdictOnARow DEF PlanWrite
  <2>2. Current(sheet, req[c]) \in CellMap
    BY <1>5, <2>1, CurrentType DEF PlanWrite
  <2> QED BY <1>0, <1>5, <2>1, <2>2, CallAssumption DEF PlanWrite, Valid
<1>6. ASSUME NEW c \in Calls, Write(c)
      PROVE  IInv'
  <2>1. sheet' \in Sheet
    BY <1>6, BatchWriteCells DEF Write
  <2> QED BY <1>0, <1>6, <2>1, CallAssumption DEF Write, Valid
<1>7. ASSUME NEW c \in Calls, ReadBackRow(c)
      PROVE  IInv'
  BY <1>0, <1>7 DEF ReadBackRow, Finish, Valid
<1>8. ASSUME NEW c \in Calls, Retry(c)
      PROVE  IInv'
  <2>1. sheet' \in Sheet
    BY <1>8, EffectType DEF Retry
  <2>2. tries[c] + 1 \in 0..MaxAttempts
    BY <1>8, CallAssumption DEF Retry
  <2> QED BY <1>0, <1>8, <2>1, <2>2 DEF Retry, Valid
<1>9. ASSUME NEW c \in Calls, GiveUp(c)
      PROVE  IInv'
  <2>1. sheet' \in Sheet
    BY <1>9, EffectType DEF GiveUp
  <2> QED BY <1>0, <1>9, <2>1 DEF GiveUp, Finish, Valid
<1>10. ASSUME NEW c \in Calls, Fail(c)
       PROVE  IInv'
  <2>1. sheet' \in Sheet
    BY <1>10, EffectType DEF Fail
  <2> QED BY <1>0, <1>10, <2>1 DEF Fail, Finish, Valid
<1>11. CASE Restart
  BY <1>0, <1>11 DEF Restart, Lose, InFlight, Valid
<1>12. CASE Quiet \/ UNCHANGED vars
  BY <1>12 DEF Quiet, vars, callVars, Valid
<1> QED
  BY <1>1, <1>2, <1>3, <1>4, <1>5, <1>6, <1>7, <1>8, <1>9, <1>10, <1>11, <1>12
  DEF Next, Step

\* Every variable keeps its type in every behaviour of the tool.
THEOREM UpdateTypeCorrect == Spec => []TypeOK
<1>1. IInv => TypeOK
  BY DEF IInv
<1> QED BY <1>1, InitIInv, NextIInv, PTL DEF Spec

-----------------------------------------------------------------------------
(* Overlapping corrections.                                                *)

\* Another call was asked to change the k-th cell of the row c was asked to.
Contested(c, k) == \E d \in Calls \ {c} : Targets(d, req[c].row, k)

\* From its write on, a call's cells hold what it was asked to put in them,
\* unless another call was asked to change them.
Held ==
  \A c \in Calls : pc[c] = "checking" \/ outcome[c] = "ok" =>
    \A k \in DOMAIN req[c].cells :
      sheet[req[c].row][k] = req[c].cells[k] \/ Contested(c, k)

\* Until then they hold what was reported as replaced, or already, after an
\* attempt whose response was lost, what they were asked to.
Named ==
  \A c \in Calls : pc[c] = "writing" =>
    \A k \in DOMAIN req[c].cells :
      \/ sheet[req[c].row][k] \in {from[c][k], req[c].cells[k]}
      \/ Contested(c, k)

CorrectionInv == IInv /\ Held /\ Named

LEMMA InitCorrectionInv == Init => CorrectionInv
BY InitIInv DEF Init, CorrectionInv, Held, Named

\* What a step may do to a call: it keeps the request of a call under way, and
\* takes it from its checks to its write, and from there to its answer.
LEMMA CallSteps ==
  ASSUME IInv, Next, NEW c \in Calls
  PROVE  /\ pc[c] # "idle" => req'[c] = req[c]
         /\ pc'[c] = "writing" =>
              \/ pc[c] = "writing" /\ from'[c] = from[c]
              \/ /\ pc[c] = "reading" /\ Verdict(sheet, req[c]) = "ok"
                 /\ from'[c] = Current(sheet, req[c]) /\ sheet' = sheet
         /\ pc'[c] = "checking" =>
              \/ pc[c] = "checking"
              \/ pc[c] = "writing" /\ sheet' = BatchWrite(sheet, req[c])
         /\ outcome'[c] = "ok" => outcome[c] = "ok" \/ pc[c] = "checking"
<1> USE DEF IInv, TypeOK, CallsOK
<1>1. ASSUME NEW d \in Calls, NEW r \in Requests, Begin(d, r) \/ Refuse(d, r)
      PROVE  /\ pc[c] # "idle" => req'[c] = req[c]
             /\ pc'[c] \in {"writing", "checking"} => pc'[c] = pc[c]
             /\ from' = from /\ (outcome'[c] = "ok" => outcome[c] = "ok")
  BY <1>1 DEF Begin, Refuse, Finish
<1>2. ASSUME NEW d \in Calls, Reject(d) \/ DryRun(d)
      PROVE  /\ req' = req
             /\ pc'[c] \in {"writing", "checking"} => pc'[c] = pc[c] /\ from'[c] = from[c]
             /\ outcome'[c] = "ok" => outcome[c] = "ok"
  <2>1. Verdict(sheet, req[d]) # "ok" =>
          Verdict(sheet, req[d]) \in {"row_not_found", "protected_row", "conflict"}
    BY DEF Verdict
  <2> QED BY <1>2, <2>1 DEF Reject, DryRun, Finish
<1>3. ASSUME NEW d \in Calls, PlanWrite(d)
      PROVE  /\ req' = req /\ outcome' = outcome /\ sheet' = sheet
             /\ c # d => pc'[c] = pc[c] /\ from'[c] = from[c]
             /\ c = d => /\ pc[c] = "reading" /\ Verdict(sheet, req[c]) = "ok"
                         /\ pc'[c] = "writing" /\ from'[c] = Current(sheet, req[c])
  BY <1>3 DEF PlanWrite
<1>4. ASSUME NEW d \in Calls, Write(d)
      PROVE  /\ req' = req /\ outcome' = outcome /\ from' = from
             /\ c # d => pc'[c] = pc[c]
             /\ c = d => /\ pc[c] = "writing" /\ pc'[c] = "checking"
                         /\ sheet' = BatchWrite(sheet, req[c])
  BY <1>4 DEF Write
<1>5. ASSUME NEW d \in Calls, ReadBackRow(d) \/ Retry(d) \/ GiveUp(d) \/ Fail(d)
      PROVE  /\ req' = req /\ from' = from
             /\ pc'[c] \in {"writing", "checking"} => pc'[c] = pc[c]
             /\ outcome'[c] = "ok" => outcome[c] = "ok" \/ pc[c] = "checking"
  BY <1>5 DEF ReadBackRow, Retry, GiveUp, Fail, Finish
<1>6. ASSUME Restart \/ Quiet
      PROVE  /\ req' = req /\ from' = from
             /\ pc'[c] \in {"writing", "checking"} => pc'[c] = pc[c]
             /\ outcome'[c] = "ok" => outcome[c] = "ok"
  BY <1>6 DEF Restart, Lose, Quiet, vars, callVars
<1> QED BY <1>1, <1>2, <1>3, <1>4, <1>5, <1>6 DEF Next, Step

\* Only the write of a call changes the tab, by the batch it was asked for.
LEMMA OnlyCorrectionsChangeTheSheet ==
  ASSUME Next, sheet' # sheet
  PROVE  \E c \in Calls : pc[c] = "writing" /\ sheet' = BatchWrite(sheet, req[c])
BY DEF Next, Step, Begin, Refuse, Reject, DryRun, PlanWrite, Write, ReadBackRow,
       Retry, GiveUp, Fail, Effect, Restart, Lose, Quiet, vars

\* What another call was asked to change, it stays asked to change.
LEMMA ContestedIsStable ==
  ASSUME IInv, Next, NEW c \in Calls, pc[c] # "idle", NEW k, Contested(c, k)
  PROVE  Contested(c, k)'
<1>1. PICK d \in Calls \ {c} : Targets(d, req[c].row, k)
  BY DEF Contested
<1>2. pc[d] # "idle"
  BY <1>1 DEF Targets, IInv, CallsOK
<1>3. req'[d] = req[d] /\ req'[c] = req[c]
  BY <1>2, CallSteps
<1> QED BY <1>1, <1>3 DEF Contested, Targets

\* A step leaves a cell a call is to change as it is, or puts there what the
\* call was asked to, while it writes, unless the cell is contested.
LEMMA CellSteps ==
  ASSUME IInv, Next, NEW c \in Calls, req[c] \in Requests, Valid(req[c]),
         req[c].row \in Rows, NEW k \in DOMAIN req[c].cells
  PROVE  \/ sheet'[req[c].row][k] = sheet[req[c].row][k]
         \/ pc[c] = "writing" /\ sheet'[req[c].row][k] = req[c].cells[k]
         \/ Contested(c, k)
<1>1. CASE sheet' = sheet
  BY <1>1
<1>2. CASE sheet' # sheet
  <2>1. PICK d \in Calls : pc[d] = "writing" /\ sheet' = BatchWrite(sheet, req[d])
    BY <1>2, OnlyCorrectionsChangeTheSheet
  <2>2. req[d] \in Requests /\ Valid(req[d]) /\ req[d].row \in Rows /\ sheet \in Sheet
    BY <2>1 DEF IInv, TypeOK, CallsOK
  <2>3. k \in Columns
    BY ValidRequests
  <2>4. CASE d = c
    BY <2>1, <2>2, <2>4, BatchWriteCells
  <2>5. CASE d # c /\ req[d].row = req[c].row /\ k \in DOMAIN req[d].cells
    <3>1. req[d] # None
      BY <2>2, CallAssumption
    <3> QED BY <2>5, <3>1 DEF Contested, Targets
  <2>6. CASE ~(req[d].row = req[c].row /\ k \in DOMAIN req[d].cells)
    BY <2>1, <2>2, <2>3, <2>6, BatchWriteCells
  <2> QED BY <2>4, <2>5, <2>6
<1> QED BY <1>1, <1>2

LEMMA NextCorrectionInv == CorrectionInv /\ [Next]_vars => CorrectionInv'
<1> SUFFICES ASSUME CorrectionInv, [Next]_vars
             PROVE  CorrectionInv'
  OBVIOUS
<1>1. IInv /\ IInv'
  BY NextIInv DEF CorrectionInv
<1>2. CASE UNCHANGED vars
  BY <1>1, <1>2 DEF vars, callVars, CorrectionInv, Held, Named, Contested, Targets
<1>3. ASSUME Next
      PROVE  Held'
  <2> SUFFICES ASSUME NEW c \in Calls, pc'[c] = "checking" \/ outcome'[c] = "ok",
                      NEW k \in DOMAIN req'[c].cells
               PROVE  \/ sheet'[req'[c].row][k] = req'[c].cells[k]
                      \/ Contested(c, k)'
    BY DEF Held
  <2>1. \/ pc[c] = "checking" \/ outcome[c] = "ok"
        \/ pc[c] = "writing" /\ sheet' = BatchWrite(sheet, req[c])
    BY <1>1, <1>3, CallSteps
  <2>2. /\ pc[c] # "idle" /\ req[c] \in Requests /\ Valid(req[c])
        /\ req[c].row \in Rows /\ sheet \in Sheet
    BY <1>1, <2>1 DEF IInv, TypeOK, CallsOK
  <2>3. req'[c] = req[c]
    BY <1>1, <1>3, <2>2, CallSteps
  <2>4. CASE pc[c] = "checking" \/ outcome[c] = "ok"
    <3>1. pc[c] # "writing"
      BY <1>1, <2>4 DEF IInv, CallsOK
    <3>2. sheet[req[c].row][k] = req[c].cells[k] \/ Contested(c, k)
      BY <2>3, <2>4 DEF CorrectionInv, Held
    <3>3. sheet'[req[c].row][k] = sheet[req[c].row][k] \/ Contested(c, k)
      BY <1>1, <1>3, <2>2, <2>3, <3>1, CellSteps
    <3>4. Contested(c, k) => Contested(c, k)'
      BY <1>1, <1>3, <2>2, ContestedIsStable
    <3> QED BY <2>3, <3>2, <3>3, <3>4
  <2>5. CASE pc[c] = "writing" /\ sheet' = BatchWrite(sheet, req[c])
    <3>1. \A j \in DOMAIN req[c].cells :
            BatchWrite(sheet, req[c])[req[c].row][j] = req[c].cells[j]
      BY <2>2, BatchWriteCells
    <3> QED BY <2>3, <2>5, <3>1
  <2> QED BY <2>1, <2>4, <2>5
<1>4. ASSUME Next
      PROVE  Named'
  <2> SUFFICES ASSUME NEW c \in Calls, pc'[c] = "writing", NEW k \in DOMAIN req'[c].cells
               PROVE  \/ sheet'[req'[c].row][k] \in {from'[c][k], req'[c].cells[k]}
                      \/ Contested(c, k)'
    BY DEF Named
  <2>1. \/ pc[c] = "writing" /\ from'[c] = from[c]
        \/ /\ pc[c] = "reading" /\ Verdict(sheet, req[c]) = "ok"
           /\ from'[c] = Current(sheet, req[c]) /\ sheet' = sheet
    BY <1>1, <1>4, CallSteps
  <2>2. pc[c] # "idle" /\ req[c] \in Requests /\ Valid(req[c]) /\ sheet \in Sheet
    BY <1>1, <2>1 DEF IInv, TypeOK, CallsOK
  <2>3. req'[c] = req[c]
    BY <1>1, <1>4, <2>2, CallSteps
  <2>4. CASE pc[c] = "writing" /\ from'[c] = from[c]
    <3>1. req[c].row \in Rows
      BY <1>1, <2>4 DEF IInv, CallsOK
    <3>2. \/ sheet[req[c].row][k] \in {from[c][k], req[c].cells[k]}
          \/ Contested(c, k)
      BY <2>3, <2>4 DEF CorrectionInv, Named
    <3>3. \/ sheet'[req[c].row][k] \in {sheet[req[c].row][k], req[c].cells[k]}
          \/ Contested(c, k)
      BY <1>1, <1>4, <2>2, <2>3, <3>1, CellSteps
    <3>4. Contested(c, k) => Contested(c, k)'
      BY <1>1, <1>4, <2>2, ContestedIsStable
    <3> QED BY <2>3, <2>4, <3>2, <3>3, <3>4
  <2>5. CASE /\ pc[c] = "reading" /\ Verdict(sheet, req[c]) = "ok"
             /\ from'[c] = Current(sheet, req[c]) /\ sheet' = sheet
    <3>1. req[c].row \in Rows
      BY <2>2, <2>5, VerdictOnARow
    <3>2. from'[c][k] = sheet'[req'[c].row][k]
      BY <2>2, <2>3, <2>5, <3>1, CurrentType
    <3> QED BY <3>2
  <2> QED BY <2>1, <2>4, <2>5
<1> QED BY <1>1, <1>2, <1>3, <1>4 DEF CorrectionInv

LEMMA CorrectionInvariance == Spec => []CorrectionInv
BY InitCorrectionInv, NextCorrectionInv, PTL DEF Spec

\* However calls overlap, and whatever fails or is repeated, a correction
\* reported as done stays done unless another call was asked to change that
\* very cell.
THEOREM CorrectionsStand == Spec => []CorrectionsCompose
<1>1. CorrectionInv => CorrectionsCompose
  BY DEF CorrectionInv, Held, CorrectionsCompose, Contested
<1> QED BY <1>1, CorrectionInvariance, PTL

\* However often a write is repeated, it replaces no text that the call does
\* not name, unless another call was asked to change that very cell.
THEOREM ReplacedTextIsKnown == Spec => ReplacedTextIsNamed
<1> DEFINE Known == \A c \in Calls : Corrects(c) =>
       \A k \in DOMAIN req[c].cells :
         \/ sheet'[req[c].row][k] = sheet[req[c].row][k]
         \/ sheet[req[c].row][k] = from[c][k]
         \/ \E d \in Calls \ {c} : Targets(d, req[c].row, k)
<1>1. CorrectionInv /\ [Next]_vars => [Known]_vars
  <2> SUFFICES ASSUME CorrectionInv, Next, NEW c \in Calls, Corrects(c),
                      NEW k \in DOMAIN req[c].cells
               PROVE  \/ sheet'[req[c].row][k] = sheet[req[c].row][k]
                      \/ sheet[req[c].row][k] = from[c][k]
                      \/ Contested(c, k)
    BY DEF Contested
  <2>1. IInv /\ pc[c] = "writing"
    BY DEF CorrectionInv, Corrects
  <2>2. req[c] \in Requests /\ Valid(req[c]) /\ req[c].row \in Rows
    BY <2>1 DEF IInv, CallsOK
  <2>3. \/ sheet[req[c].row][k] \in {from[c][k], req[c].cells[k]}
        \/ Contested(c, k)
    BY <2>1 DEF CorrectionInv, Named
  <2> QED BY <2>1, <2>2, <2>3, CellSteps
<1>2. ReplacedTextIsNamed <=> [][Known]_vars
  BY DEF ReplacedTextIsNamed
<1> HIDE DEF Known
<1> QED BY <1>1, <1>2, CorrectionInvariance, PTL DEF Spec
=============================================================================
