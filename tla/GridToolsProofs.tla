--------------------------- MODULE GridToolsProofs ---------------------------
(***************************************************************************)
(* Proofs about GridTools, for every tab, profile, set of clients and      *)
(* requests: type correctness, and what holds when calls do not overlap.   *)
(***************************************************************************)
EXTENDS GridTools, GridBlockProofs

\* The calendar knows every month.
WholeCalendar == DOMAIN DaysIn = Int \X Months

\* A request for a grid whose date or period has been resolved.
Ready(r) ==
  /\ HasLayout(r.profile, "grid")
  /\ \/ r \in SetRequest /\ r.when \in Date
     \/ r \in CreateRequest /\ r.period \in DOMAIN DaysIn

\* What set_grid_value plans: the text is the hours, a multiple of the step.
SetPlanOK(p, r) ==
  /\ p \in SetPlan
  /\ ValueType(r) \in DurationTypes =>
       p.text = Render(p.hours, ValueType(r)) /\ \E k \in Int : p.hours = k * Step

\* What create_period_block plans for a request.
BlockPlanOK(b, r) ==
  /\ b \in BlockPlan
  /\ b.name = MonthHeader(r.period[2], 0)
  /\ b.first = b.header - HeaderOffset /\ b.label = b.first + LabelOffset
  /\ b.last - b.first + 1 = DaysIn[r.period] /\ b.first <= b.last

PlanOK(p, r) == IF r.tool = "set" THEN SetPlanOK(p, r) ELSE BlockPlanOK(p, r)

-----------------------------------------------------------------------------
(* What the decisions return.                                              *)

LEMMA NextDayType ==
  ASSUME NEW d \in Date
  PROVE  NextDay(d) \in Date
<1>1. d.year \in Int /\ d.month \in Nat \ {0} /\ d.month <= MonthsInYear /\ d.day \in Nat \ {0}
  BY DEF Date, Months
<1>2. MonthsInYear \in Nat \ {0}
  BY GridAssumption
<1>3. CASE d.day < DaysIn[<<d.year, d.month>>]
  BY <1>1, <1>3 DEF NextDay, Date
<1>4. CASE ~(d.day < DaysIn[<<d.year, d.month>>]) /\ d.month < MonthsInYear
  <2>1. d.month + 1 \in Months
    BY <1>1, <1>2, <1>4 DEF Months
  <2>2. NextDay(d) = [year |-> d.year, month |-> d.month + 1, day |-> 1]
    BY <1>4 DEF NextDay, Date
  <2> QED BY <1>1, <2>1, <2>2 DEF Date
<1>5. CASE ~(d.day < DaysIn[<<d.year, d.month>>]) /\ ~(d.month < MonthsInYear)
  <2>1. NextDay(d) = [year |-> d.year + 1, month |-> 1, day |-> 1]
    BY <1>5 DEF NextDay
  <2>2. d.year + 1 \in Int /\ 1 \in Months
    BY <1>1, <1>2 DEF Months
  <2> QED BY <2>1, <2>2 DEF Date
<1> QED BY <1>3, <1>4, <1>5

LEMMA DayBeforeType ==
  ASSUME WholeCalendar, NEW d \in Date
  PROVE  DayBefore(d) \in Date
<1> DEFINE y == IF d.month > 1 THEN d.year ELSE d.year - 1
           m == IF d.month > 1 THEN d.month - 1 ELSE MonthsInYear
<1>1. d.year \in Int /\ d.month \in Nat \ {0} /\ d.month <= MonthsInYear /\ d.day \in Nat \ {0}
  BY DEF Date, Months
<1>2. MonthsInYear \in Nat \ {0}
  BY GridAssumption
<1>3. y \in Int /\ m \in Months
  BY <1>1, <1>2 DEF Months
<1>4. DaysIn[<<y, m>>] \in Nat \ {0}
  BY <1>3, GridAssumption DEF WholeCalendar
<1>5. CASE d.day > 1
  BY <1>1, <1>5 DEF DayBefore, Date
<1>6. CASE ~(d.day > 1)
  <2>1. DayBefore(d) = [year |-> y, month |-> m, day |-> DaysIn[<<y, m>>]]
    BY <1>6 DEF DayBefore
  <2> QED BY <1>3, <1>4, <2>1 DEF Date
<1> QED BY <1>5, <1>6

LEMMA ResolvedType ==
  ASSUME WholeCalendar, NEW r \in Requests, Valid(r), today \in Date
  PROVE  Resolved(r) \in Request /\ Ready(Resolved(r))
<1>1. (r \in SetRequest \/ r \in CreateRequest) /\ HasLayout(r.profile, "grid")
  BY ToolsAssumption DEF Request, Valid
<1>2. CASE r \in SetRequest
  <2>1. r.tool = "set" /\ r.when \in Date \cup {Today, Yesterday}
    BY <1>2 DEF Valid, SetRequest
  <2>2. DayBefore(today) \in Date
    BY DayBeforeType
  <2>3. PICK w \in Date : Resolved(r) = [r EXCEPT !.when = w]
    BY <2>1, <2>2 DEF Resolved
  <2>4. Resolved(r) \in SetRequest /\ Resolved(r).when \in Date
    BY <1>2, <2>3 DEF SetRequest
  <2>5. Resolved(r).profile = r.profile
    BY <1>2, <2>3 DEF SetRequest
  <2> QED BY <1>1, <2>4, <2>5 DEF Request, Ready
<1>3. CASE r \in CreateRequest
  <2>1. r.tool = "create" /\ r.period \in DOMAIN DaysIn \cup {Today}
    BY <1>3 DEF Valid, CreateRequest
  <2>2. <<today.year, today.month>> \in DOMAIN DaysIn
    BY DEF WholeCalendar, Date
  <2>3. PICK w \in DOMAIN DaysIn : Resolved(r) = [r EXCEPT !.period = w]
    BY <2>1, <2>2 DEF Resolved
  <2>4. Resolved(r) \in CreateRequest /\ Resolved(r).period \in DOMAIN DaysIn
    BY <1>3, <2>3 DEF CreateRequest
  <2>5. Resolved(r).profile = r.profile
    BY <1>3, <2>3 DEF CreateRequest
  <2> QED BY <1>1, <2>4, <2>5 DEF Request, Ready
<1> QED BY <1>1, <1>2, <1>3

\* A value that is asked for, as hours and as the text of a cell.
LEMMA ValueTypes ==
  ASSUME NEW v \in Value
  PROVE  AsHours(v) \in Int /\ AsText(v) \in Text
<1>1. v.n \in Int /\ v.year \in Nat /\ v.kind \in Kinds \cup {"number"}
  BY DEF Value
<1>2. AsHours(v) \in Int
  BY <1>1, ParseType DEF AsHours
<1>3. CASE v.kind = "number"
  <2>1. AsText(v) = Hours(v.n)
    BY <1>3 DEF AsText
  <2>2. Hours(v.n) \in Text
    BY <1>1, TextTypes
  <2> QED BY <1>2, <2>1, <2>2
<1>4. CASE v.kind # "number"
  <2>1. v = [kind |-> v.kind, n |-> v.n, year |-> v.year]
    BY DEF Value
  <2>2. v \in Text
    BY <1>1, <1>4, <2>1 DEF Text
  <2>3. AsText(v) = v
    BY <1>4 DEF AsText
  <2> QED BY <1>2, <2>2, <2>3
<1> QED BY <1>3, <1>4

\* set_grid_value plans for a cell of the tab, and names the text in it.
LEMMA PlanSetType ==
  ASSUME NEW s \in Tab, NEW r \in SetRequest, r.when \in Date,
         SetOutcome(s, r) \in {"dry_run", "write"}
  PROVE  LET p == PlanSet(s, r)
         IN SetPlanOK(p, r) /\ p.previous = s[p.row][p.col]
<1> DEFINE q == Topmost(Named(s, r.when.month))
           row == DayRow(q, r.when.day)
           col == ResolveColumn(s, q, r.column)
<1>1. Named(s, r.when.month) # {} /\ col # 0 /\ row # 0
  BY DEF SetOutcome
<1>2. q \in Periods(s)
  <2>1. Named(s, r.when.month) \in SUBSET Periods(s)
    BY DEF Named
  <2> QED BY <1>1, <2>1, TopmostAndLowest
<1>3. row \in Rows
  <2>1. r.when.day \in Nat \ {0}
    BY DEF Date
  <2> QED BY <1>1, <1>2, <2>1, DayRowType
<1>4. col \in 0..Width
  BY <1>1, <1>2, ResolveColumnType
<1>5. s[row][col] \in Text /\ s[q.label][col] \in Text
  <2>1. q.label \in Rows
    BY <1>2, PeriodType
  <2> QED BY <1>3, <1>4, <2>1 DEF Tab
<1>6. NewHours(r, s[row][col]) \in Int
      /\ \E k \in Int : NewHours(r, s[row][col]) = k * Step
  <2>1. AsHours(r.value) \in Int
    BY ValueTypes DEF SetRequest
  <2>2. Parse(s[row][col]) \in Int
    BY <1>5, ParseType DEF Text
  <2>3. AsHours(r.value) + (IF r.mode = "increment" THEN Parse(s[row][col]) ELSE 0) \in Int
    BY <2>1, <2>2
  <2> QED BY <2>3, RoundToStepType, ToolsAssumption DEF NewHours
<1>7. AsText(r.value) \in Text /\ Render(NewHours(r, s[row][col]), ValueType(r)) \in Text
  BY <1>6, ValueTypes, RenderType DEF SetRequest
<1>8. PlanSet(s, r) = ValuePlan(r, <<row, col>>, s[row][col], s[q.label][col])
  BY DEF PlanSet
<1> HIDE DEF q, row, col
<1>9. ValuePlan(r, <<row, col>>, s[row][col], s[q.label][col]) \in SetPlan
  BY <1>3, <1>4, <1>5, <1>6, <1>7 DEF ValuePlan, SetPlan
<1> QED BY <1>6, <1>8, <1>9 DEF ValuePlan, SetPlanOK

\* The decisions of both tools.
LEMMA PlanOfType ==
  ASSUME WholeCalendar, NEW s \in Tab, NEW r, Ready(r),
         OutcomeOf(s, r) \in {"dry_run", "write"}
  PROVE  PlanOK(PlanOf(s, r), r)
<1>1. CASE r \in SetRequest /\ r.when \in Date
  <2>1. r.tool = "set"
    BY <1>1 DEF SetRequest
  <2> QED BY <1>1, <2>1, PlanSetType DEF OutcomeOf, PlanOf, PlanOK
<1>2. CASE r \in CreateRequest /\ r.period \in DOMAIN DaysIn
  <2>1. r.tool = "create" /\ r.labels \in Seq(Text)
    BY <1>2 DEF CreateRequest
  <2>2. r.period = <<r.period[1], r.period[2]>> /\ r.period[2] \in Int
    BY <1>2 DEF WholeCalendar, Months
  <2>3. PlanOf(s, r) = PlanBlock(s, r.period[1], r.period[2], r.labels)
    BY <2>1 DEF PlanOf, PlanCreate
  <2> HIDE DEF WholeCalendar
  <2>4. BlockPlanOK(PlanBlock(s, r.period[1], r.period[2], r.labels), r)
    <3> DEFINE y == r.period[1]
               m == r.period[2]
               b == PlanBlock(s, y, m, r.labels)
    <3>1. <<y, m>> \in DOMAIN DaysIn /\ <<y, m>> = r.period /\ m \in Int
      BY <1>2, <2>2
    <3> HIDE DEF y, m
    <3>2. /\ b \in BlockPlan
          /\ b.name = MonthHeader(m, 0)
          /\ b.first = b.header - HeaderOffset /\ b.label = b.first + LabelOffset
          /\ b.last - b.first + 1 = DaysIn[<<y, m>>] /\ b.first <= b.last
      BY <1>2, <2>1, <3>1, PlanBlockType
    <3> HIDE DEF b
    <3>3. BlockPlanOK(b, r)
      BY <3>1, <3>2 DEF BlockPlanOK, m
    <3> QED BY <3>3 DEF b, y, m
  <2> QED BY <2>1, <2>3, <2>4 DEF PlanOK
<1> QED BY <1>1, <1>2 DEF Ready

LEMMA OutcomeOfType ==
  ASSUME NEW s, NEW r
  PROVE  OutcomeOf(s, r) \in Outcomes \cup {"write"}
BY DEF OutcomeOf, SetOutcome, CreateOutcome, Outcomes

LEMMA OutcomeNotOk ==
  ASSUME NEW s, NEW r
  PROVE  OutcomeOf(s, r) # "ok"
BY DEF OutcomeOf, SetOutcome, CreateOutcome

LEMMA LaidOutIsTyped ==
  ASSUME NEW b \in BlockPlan
  PROVE  IsBlockPlan(b)
<1>1. /\ DOMAIN b = {"name", "heading", "labels", "header", "label", "first", "last"}
      /\ b.name \in Text \ {Blank} /\ b.heading \in Text /\ b.labels \in LabelRow
      /\ {b.header, b.label, b.first, b.last} \subseteq Int
  BY DEF BlockPlan
<1> QED BY <1>1, LabelRowBounds DEF IsBlockPlan

LEMMA PlanTypes ==
  ASSUME NEW p, NEW r, PlanOK(p, r)
  PROVE  p \in SetPlan \cup BlockPlan
<1>1. CASE r.tool = "set"
  BY <1>1 DEF PlanOK, SetPlanOK
<1>2. CASE r.tool # "set"
  BY <1>2 DEF PlanOK, BlockPlanOK
<1> QED BY <1>1, <1>2

-----------------------------------------------------------------------------
(* Type correctness.                                                       *)

\* A call past its validation has a request that is resolved; one past its
\* reading, a plan for it.
MidCall ==
  \A c \in Clients :
    /\ pc[c] \in {"reading", "writing", "checking"} => Ready(req[c])
    /\ pc[c] \in {"writing", "checking"} => PlanOK(plan[c], req[c])

PlansTyped == plan \in [Clients -> SetPlan \cup BlockPlan \cup {None}]

GridIInv == VarsTyped /\ PlansTyped /\ MidCall

LEMMA InitGridIInv == Init => GridIInv
<1> SUFFICES ASSUME Init PROVE GridIInv
  OBVIOUS
<1>1. sheet \in Tab /\ today \in Date
  BY ToolsAssumption DEF Init
<1>2. 0 \in 0..MaxAttempts /\ 0 \in 0..MaxCalls /\ 0 \in 0..MaxEdits /\ Blank \in Text
  BY ToolsAssumption, TextTypes
<1> QED BY <1>1, <1>2 DEF Init, GridIInv, VarsTyped, PlansTyped, MidCall, Outcomes

\* The cells of a planned write are texts.
LEMMA PlannedCellsType ==
  ASSUME NEW c \in Clients, PlanOK(plan[c], req[c])
  PROVE  \A x \in DOMAIN PlannedCells(c) : PlannedCells(c)[x] \in Text
<1>1. CASE req[c].tool = "set"
  BY <1>1 DEF PlannedCells, PlanOK, SetPlanOK, SetPlan
<1>2. CASE req[c].tool # "set"
  BY <1>2, BlockCellsType DEF PlannedCells, PlanOK, BlockPlanOK
<1> QED BY <1>1, <1>2

LEMMA ApplyType ==
  ASSUME GridIInv, NEW c \in Clients, pc[c] = "writing", Apply(c)
  PROVE  sheet' \in Tab /\ advice' \in [Clients -> {"none", "exists", "missing"}]
<1>1. \A x \in DOMAIN PlannedCells(c) : PlannedCells(c)[x] \in Text
  BY PlannedCellsType DEF GridIInv, MidCall
<1>2. sheet' \in Tab
  BY <1>1, OverwriteType DEF Apply, GridIInv, VarsTyped, PlansTyped
<1> QED BY <1>2 DEF Apply, Forget

LEMMA EffectType ==
  ASSUME GridIInv, NEW c \in Clients, Effect(c)
  PROVE  sheet' \in Tab /\ advice' \in [Clients -> {"none", "exists", "missing"}]
<1>1. CASE UNCHANGED <<sheet, advice>>
  BY <1>1 DEF GridIInv, VarsTyped, PlansTyped
<1>2. CASE pc[c] = "writing" /\ Fits(c) /\ Apply(c)
  BY <1>2, ApplyType
<1> QED BY <1>1, <1>2 DEF Effect

\* The owner types texts, and touches nothing but the tab.
LEMMA OwnerEdits ==
  ASSUME GridIInv, Owner
  PROVE  /\ Free /\ edits < MaxEdits /\ edits' = edits + 1
         /\ sheet' \in Tab /\ Forget
         /\ UNCHANGED <<callVars, today, overnight>>
<1>1. PICK cells : (\A x \in DOMAIN cells : cells[x] \in Text) /\ Edit(cells)
  <2>1. CASE EditValue
    BY <2>1, ToolsAssumption DEF EditValue
  <2>2. CASE Relabel
    BY <2>2, ToolsAssumption DEF Relabel
  <2>3. CASE MarkYear
    <3>1. PICK p \in Recognised(sheet) :
            LET year == YearOf(sheet, today)[p]
            IN /\ year \in Nat \ {0}
               /\ Edit([x \in {<<p.header, Min(Filled(sheet, p.header))>>} |->
                         MonthHeader(MonthOf(p), year)])
      BY <2>3 DEF MarkYear
    <3>2. p.name \in Text
      BY PeriodType DEF Recognised, GridIInv, VarsTyped, PlansTyped
    <3>3. MonthOf(p) \in Int
      BY <3>2 DEF MonthOf, Text
    <3>4. MonthHeader(MonthOf(p), YearOf(sheet, today)[p]) \in Text
      BY <3>1, <3>3, TextTypes
    <3> QED BY <3>1, <3>4
  <2>4. CASE StrayRow
    BY <2>4, ToolsAssumption DEF StrayRow
  <2> QED BY <2>1, <2>2, <2>3, <2>4 DEF Owner
<1>2. sheet' \in Tab
  BY <1>1, OverwriteType DEF Edit, GridIInv, VarsTyped, PlansTyped
<1> QED BY <1>1, <1>2 DEF Edit

LEMMA CellType ==
  ASSUME NEW s \in Tab, NEW r \in Rows, NEW c \in 0..Width
  PROVE  s[r][c] \in Text
BY DEF Tab

LEMMA NextGridIInv ==
  ASSUME WholeCalendar
  PROVE  GridIInv /\ [Next]_vars => GridIInv'
<1> SUFFICES ASSUME GridIInv, [Next]_vars
             PROVE  GridIInv'
  OBVIOUS
<1>0. 0 \in 0..MaxAttempts
  BY ToolsAssumption
<1> USE <1>0 DEF GridIInv, VarsTyped, PlansTyped, MidCall, callVars, ownerVars
<1>1. ASSUME NEW c \in Clients, Begin(c)
      PROVE  GridIInv'
  <2>1. PICK r \in Requests : Valid(r) /\ Accept(c, Resolved(r))
    BY <1>1 DEF Begin
  <2>2. Resolved(r) \in Request /\ Ready(Resolved(r))
    BY <2>1, ResolvedType
  <2>3. made + 1 \in 0..MaxCalls /\ 1 \in 0..MaxAttempts
    BY <1>1, ToolsAssumption DEF Begin, Callable
  <2> QED BY <1>1, <2>1, <2>2, <2>3, TextTypes DEF Begin, Accept, Outcomes
<1>2. ASSUME NEW c \in Clients, Refuse(c)
      PROVE  GridIInv'
  <2>1. PICK r \in Requests : Accept(c, r)
    BY <1>2 DEF Refuse
  <2>2. r \in Request /\ made + 1 \in 0..MaxCalls
    BY <1>2, ToolsAssumption DEF Refuse, Callable
  <2> QED BY <1>2, <2>1, <2>2, TextTypes DEF Refuse, Accept, Finish, Outcomes
<1>3. ASSUME NEW c \in Clients, Describe(c)
      PROVE  GridIInv'
  BY <1>3 DEF Describe, Finish, Outcomes
<1>4. ASSUME NEW c \in Clients, Reject(c)
      PROVE  GridIInv'
  <2>1. OutcomeOf(sheet, req[c]) \in Outcomes
    BY <1>4, OutcomeOfType DEF Reject
  <2> QED BY <1>4, <2>1 DEF Reject, Finish
<1>5. ASSUME NEW c \in Clients, DryRun(c)
      PROVE  GridIInv'
  <2>1. PlanOK(PlanOf(sheet, req[c]), req[c])
    BY <1>5, PlanOfType DEF DryRun
  <2>2. PlanOf(sheet, req[c]) \in SetPlan \cup BlockPlan
    BY <2>1, PlanTypes
  <2> QED BY <1>5, <2>2 DEF DryRun, Finish, Outcomes
<1>6. ASSUME NEW c \in Clients, PlanWrite(c)
      PROVE  GridIInv'
  <2>1. PlanOK(PlanOf(sheet, req[c]), req[c])
    BY <1>6, PlanOfType DEF PlanWrite
  <2>2. PlanOf(sheet, req[c]) \in SetPlan \cup BlockPlan
    BY <2>1, PlanTypes
  <2> QED BY <1>6, <2>1, <2>2, ToolsAssumption DEF PlanWrite
<1>7. ASSUME NEW c \in Clients, Write(c)
      PROVE  GridIInv'
  <2>1. sheet' \in Tab /\ advice' \in [Clients -> {"none", "exists", "missing"}]
    BY <1>7, ApplyType DEF Write
  <2>2. 1 \in 0..MaxAttempts
    BY ToolsAssumption
  <2> QED BY <1>7, <2>1, <2>2 DEF Write
<1>8. ASSUME NEW c \in Clients, RefuseRange(c)
      PROVE  GridIInv'
  BY <1>8 DEF RefuseRange, Finish, Outcomes
<1>9. ASSUME NEW c \in Clients, ReadBackWritten(c)
      PROVE  GridIInv'
  <2>1. Found(c) \in Text
    <3>1. PlanOK(plan[c], req[c])
      BY <1>9 DEF ReadBackWritten
    <3>2. CASE req[c].tool = "set"
      <4>1. plan[c].row \in Rows /\ plan[c].col \in 0..Width
        BY <3>1, <3>2 DEF PlanOK, SetPlanOK, SetPlan
      <4>2. Found(c) = sheet[plan[c].row][plan[c].col]
        BY <3>2 DEF Found
      <4>3. sheet[plan[c].row][plan[c].col] \in Text
        BY <4>1, CellType
      <4> QED BY <4>2, <4>3
    <3>3. CASE req[c].tool # "set"
      BY <3>1, <3>3, TextTypes DEF Found, PlanOK, BlockPlanOK, BlockPlan
    <3> QED BY <3>2, <3>3
  <2> QED BY <1>9, <2>1 DEF ReadBackWritten, Finish, Outcomes
<1>10. ASSUME NEW c \in Clients, Retry(c)
       PROVE  GridIInv'
  <2>1. sheet' \in Tab /\ advice' \in [Clients -> {"none", "exists", "missing"}]
    BY <1>10, EffectType DEF Retry
  <2>2. tries[c] + 1 \in 0..MaxAttempts
    BY <1>10, ToolsAssumption DEF Retry
  <2> QED BY <1>10, <2>1, <2>2 DEF Retry
<1>11. ASSUME NEW c \in Clients, GiveUp(c)
       PROVE  GridIInv'
  <2>1. sheet' \in Tab /\ advice' \in [Clients -> {"none", "exists", "missing"}]
    BY <1>11, EffectType DEF GiveUp
  <2> QED BY <1>11, <2>1 DEF GiveUp, Finish, Outcomes
<1>12. ASSUME NEW c \in Clients, Fail(c)
       PROVE  GridIInv'
  <2>1. sheet' \in Tab /\ advice' \in [Clients -> {"none", "exists", "missing"}]
    BY <1>12, EffectType DEF Fail
  <2> QED BY <1>12, <2>1 DEF Fail, Finish, Outcomes
<1>13. ASSUME Restart
       PROVE  GridIInv'
  BY <1>13 DEF Restart, InFlight, Outcomes
<1>14. ASSUME Owner
       PROVE  GridIInv'
  <2>1. /\ edits < MaxEdits /\ edits' = edits + 1 /\ sheet' \in Tab /\ Forget
        /\ UNCHANGED <<callVars, today, overnight>>
    BY <1>14, OwnerEdits
  <2>2. edits' \in 0..MaxEdits
    BY <2>1, ToolsAssumption
  <2> QED BY <2>1, <2>2 DEF Forget
<1>15. ASSUME Tick
       PROVE  GridIInv'
  <2>1. today' \in Date
    BY <1>15, NextDayType DEF Tick
  <2> QED BY <1>15, <2>1 DEF Tick, Forget, InFlight
<1>16. CASE Quiet \/ UNCHANGED vars
  BY <1>16 DEF Quiet, vars
<1> QED
  BY <1>1, <1>2, <1>3, <1>4, <1>5, <1>6, <1>7, <1>8, <1>9, <1>10, <1>11, <1>12,
     <1>13, <1>14, <1>15, <1>16 DEF Next, Act

LEMMA GridInvariance ==
  ASSUME WholeCalendar
  PROVE  Spec => []GridIInv
BY InitGridIInv, NextGridIInv, PTL DEF Spec

\* Every variable of the grid tools keeps its type, however many calls overlap
\* and whatever the owner types.
THEOREM GridTypeCorrect ==
  ASSUME WholeCalendar
  PROVE  Spec => []TypeOK
<1>1. GridIInv => TypeOK
  <2> SUFFICES ASSUME GridIInv, NEW c \in Clients, plan[c] \in BlockPlan
               PROVE  IsBlockPlan(plan[c])
    BY DEF GridIInv, PlansTyped, TypeOK
  <2> QED BY LaidOutIsTyped
<1> QED BY <1>1, GridInvariance, PTL

-----------------------------------------------------------------------------
(* Calls that do not overlap.                                              *)

OneAtATime == \A c, d \in Clients : (c \in InFlight /\ d \in InFlight) => c = d

\* A block was just written, whether any of its labels can be seen or not.
Laid(c) == pc[c] = "checking" /\ req[c].tool = "create"

\* What the tab is like while a call writes and reads back: the cell holds what
\* was found or what is being written; the rows of a block are blank or written,
\* and no block above has its name.
Undisturbed(c) ==
  /\ Setting(c) => sheet[plan[c].row][plan[c].col] \in {plan[c].previous, plan[c].text}
  /\ (pc[c] = "checking" /\ req[c].tool = "set") =>
       sheet[plan[c].row][plan[c].col] = plan[c].text
  /\ (pc[c] = "writing" /\ req[c].tool = "create") =>
       Room(sheet, plan[c]) /\ NameIsFree(sheet, plan[c])
  /\ Laid(c) =>
       Stands(sheet, plan[c]) /\ NameIsFree(sheet, plan[c]) /\ BlockFits(plan[c])

SerialInv == GridIInv /\ OneAtATime /\ \A c \in Clients : Undisturbed(c)

\* Nothing is asked of the tab where no call writes or reads back.
LEMMA NobodyWrites ==
  ASSUME \A c \in Clients : pc[c] \notin {"writing", "checking"}
  PROVE  \A c \in Clients : Undisturbed(c)
BY DEF Undisturbed, Setting, Laid

LEMMA TheOthersIdle ==
  ASSUME OneAtATime, GridIInv, NEW c \in InFlight, NEW d \in Clients \ {c}
  PROVE  pc[d] \in {"idle", "done"}
BY DEF OneAtATime, InFlight

\* What the plan of a call finds in the tab it was made from.
LEMMA PlannedIsUndisturbed ==
  ASSUME WholeCalendar, NEW s \in Tab, NEW r, Ready(r), OutcomeOf(s, r) = "write"
  PROVE  LET p == PlanOf(s, r)
         IN /\ r.tool = "set" => p.previous = s[p.row][p.col]
            /\ r.tool = "create" => Room(s, p) /\ NameIsFree(s, p)
<1>1. CASE r \in SetRequest /\ r.when \in Date
  <2>1. r.tool = "set"
    BY <1>1 DEF SetRequest
  <2> QED BY <1>1, <2>1, PlanSetType DEF OutcomeOf, PlanOf
<1>2. CASE r \in CreateRequest /\ r.period \in DOMAIN DaysIn
  <2> DEFINE y == r.period[1]
             m == r.period[2]
             b == PlanBlock(s, y, m, r.labels)
  <2>1. r.tool = "create" /\ r.labels \in Seq(Text)
    BY <1>2 DEF CreateRequest
  <2>2. <<y, m>> \in DOMAIN DaysIn /\ m \in Int
    BY <1>2 DEF WholeCalendar, Months
  <2>3. PlanOf(s, r) = b
    BY <2>1 DEF PlanOf, PlanCreate
  <2>4. Named(s, m) = {}
    BY <2>1 DEF OutcomeOf, CreateOutcome
  <2>5. b \in BlockPlan /\ b.name = MonthHeader(m, 0) /\ b.header = LastPopulatedRow(s) + 2
    <3> HIDE DEF y, m, WholeCalendar
    <3> QED BY <1>2, <2>1, <2>2, PlanBlockType
  <2>6. Room(s, b) /\ NameIsFree(s, b)
    <3> HIDE DEF b
    <3> QED BY <2>4, <2>5, RoomBelowEverything, MissingNameIsFree
  <2> QED BY <2>1, <2>3, <2>6
<1> QED BY <1>1, <1>2 DEF Ready

\* A write, applied once or again, leaves the tab as the plan has it.
LEMMA AppliedIsUndisturbed ==
  ASSUME GridIInv, NEW c \in Clients, pc[c] = "writing", Undisturbed(c), Apply(c)
  PROVE  /\ req[c].tool = "set" => sheet'[plan[c].row][plan[c].col] = plan[c].text
         /\ req[c].tool = "create" =>
              /\ Stands(sheet', plan[c]) /\ Room(sheet', plan[c])
              /\ NameIsFree(sheet', plan[c])
              /\ \A r \in Rows : Populated(sheet[r]) => sheet'[r] = sheet[r]
<1>1. sheet \in Tab /\ sheet' \in Tab /\ PlanOK(plan[c], req[c])
  BY ApplyType DEF GridIInv, VarsTyped, PlansTyped, MidCall
<1>2. ASSUME req[c].tool = "set"
      PROVE  sheet'[plan[c].row][plan[c].col] = plan[c].text
  <2>1. plan[c].row \in Rows /\ plan[c].col \in 0..Width
    BY <1>1, <1>2 DEF PlanOK, SetPlanOK, SetPlan
  <2>2. PlannedCells(c) = [x \in {<<plan[c].row, plan[c].col>>} |-> plan[c].text]
    BY <1>2 DEF PlannedCells
  <2>3. sheet' = Overwrite(sheet, PlannedCells(c))
    BY DEF Apply
  <2> QED BY <2>1, <2>2, <2>3 DEF Overwrite
<1>3. ASSUME req[c].tool = "create"
      PROVE  /\ Stands(sheet', plan[c]) /\ Room(sheet', plan[c])
             /\ NameIsFree(sheet', plan[c])
             /\ \A r \in Rows : Populated(sheet[r]) => sheet'[r] = sheet[r]
  <2>1. plan[c] \in BlockPlan
    BY <1>1, <1>3 DEF PlanOK, BlockPlanOK
  <2>2. sheet' = Overwrite(sheet, BlockCells(plan[c]))
    BY <1>3 DEF Apply, PlannedCells
  <2>3. Room(sheet, plan[c]) /\ NameIsFree(sheet, plan[c])
    BY <1>3 DEF Undisturbed
  <2>4. /\ \A r \in Rows : r < plan[c].header => sheet'[r] = sheet[r]
        /\ Stands(sheet', plan[c]) /\ Room(sheet', plan[c])
        /\ \A r \in Rows : Populated(sheet[r]) => sheet'[r] = sheet[r]
    BY <1>1, <2>1, <2>2, <2>3, WriteBlock
  <2>5. NameIsFree(sheet', plan[c])
    BY <1>1, <2>1, <2>3, <2>4, NameStaysFree
  <2> QED BY <2>4, <2>5
<1> QED BY <1>2, <1>3

LEMMA InitSerialInv == Init => SerialInv
<1> SUFFICES ASSUME Init PROVE SerialInv
  OBVIOUS
<1>1. GridIInv
  BY InitGridIInv
<1>2. InFlight = {}
  BY DEF Init, InFlight
<1>3. \A c \in Clients : Undisturbed(c)
  BY NobodyWrites DEF Init
<1> QED BY <1>1, <1>2, <1>3 DEF SerialInv, OneAtATime

LEMMA NextSerialInv ==
  ASSUME WholeCalendar, Exclusive
  PROVE  SerialInv /\ [Next]_vars => SerialInv'
<1> SUFFICES ASSUME SerialInv, [Next]_vars
             PROVE  OneAtATime' /\ (\A c \in Clients : Undisturbed(c))'
  BY NextGridIInv DEF SerialInv
<1>0. GridIInv /\ GridIInv' /\ OneAtATime /\ \A c \in Clients : Undisturbed(c)
  BY NextGridIInv DEF SerialInv
<1>1. /\ pc \in [Clients -> {"idle", "reading", "writing", "checking", "done"}]
      /\ plan \in [Clients -> SetPlan \cup BlockPlan \cup {None}] /\ sheet \in Tab
      /\ tries \in [Clients -> 0..MaxAttempts]
  BY <1>0 DEF GridIInv, VarsTyped, PlansTyped
\* Whoever starts finds nobody in flight.
<1>2. ASSUME NEW c \in Clients, Begin(c) \/ Refuse(c) \/ Describe(c)
      PROVE  OneAtATime' /\ (\A d \in Clients : Undisturbed(d))'
  <2>1. InFlight = {} /\ \E v \in {"reading", "done"} : pc' = [pc EXCEPT ![c] = v]
    BY <1>2 DEF Begin, Refuse, Describe, Callable, Free, Finish
  <2>2. \A d \in Clients : pc'[d] \notin {"writing", "checking"}
    BY <1>1, <2>1 DEF InFlight
  <2>3. OneAtATime'
    BY <1>1, <2>1 DEF InFlight, OneAtATime
  <2> QED BY <2>2, <2>3 DEF Undisturbed, Setting, Laid
\* Whoever is answered leaves nobody in flight.
<1>3. ASSUME NEW c \in Clients, c \in InFlight, pc' = [pc EXCEPT ![c] = "done"]
      PROVE  OneAtATime' /\ (\A d \in Clients : Undisturbed(d))'
  <2>1. \A d \in Clients : pc'[d] \in {"idle", "done"}
    BY <1>0, <1>1, <1>3, TheOthersIdle
  <2> QED BY <2>1 DEF OneAtATime, InFlight, Undisturbed, Setting, Laid
<1>4. ASSUME NEW c \in Clients,
             Reject(c) \/ DryRun(c) \/ RefuseRange(c) \/ ReadBackWritten(c)
               \/ GiveUp(c) \/ Fail(c)
      PROVE  OneAtATime' /\ (\A d \in Clients : Undisturbed(d))'
  <2>1. c \in InFlight /\ pc' = [pc EXCEPT ![c] = "done"]
    BY <1>4 DEF Reject, DryRun, RefuseRange, ReadBackWritten, GiveUp, Fail, Finish, InFlight
  <2> QED BY <1>3, <2>1
<1>5. ASSUME NEW c \in Clients, PlanWrite(c)
      PROVE  OneAtATime' /\ (\A d \in Clients : Undisturbed(d))'
  <2>1. /\ c \in InFlight /\ pc' = [pc EXCEPT ![c] = "writing"]
        /\ plan'[c] = PlanOf(sheet, req[c]) /\ UNCHANGED <<sheet, req>>
    BY <1>1, <1>5 DEF PlanWrite, InFlight
  <2>2. InFlight' = InFlight
    BY <1>1, <2>1 DEF InFlight
  <2>3. \A d \in Clients \ {c} : pc'[d] \in {"idle", "done"}
    BY <1>0, <1>1, <2>1, TheOthersIdle
  <2>4. Undisturbed(c)'
    <3>1. Ready(req[c]) /\ OutcomeOf(sheet, req[c]) = "write"
      BY <1>0, <1>5 DEF PlanWrite, GridIInv, MidCall
    <3>2. /\ req'[c].tool = "set" => plan'[c].previous = sheet'[plan'[c].row][plan'[c].col]
          /\ req'[c].tool = "create" => Room(sheet', plan'[c]) /\ NameIsFree(sheet', plan'[c])
      BY <1>1, <2>1, <3>1, PlannedIsUndisturbed
    <3>3. pc'[c] = "writing"
      BY <1>1, <2>1
    <3> QED BY <3>2, <3>3 DEF Undisturbed, Setting, Laid
  <2> QED BY <1>0, <2>2, <2>3, <2>4 DEF OneAtATime, Undisturbed, Setting, Laid
<1>6. ASSUME NEW c \in Clients, Write(c)
      PROVE  OneAtATime' /\ (\A d \in Clients : Undisturbed(d))'
  <2>1. /\ c \in InFlight /\ pc[c] = "writing" /\ pc' = [pc EXCEPT ![c] = "checking"]
        /\ Fits(c) /\ Apply(c) /\ UNCHANGED <<plan, req>>
    BY <1>6 DEF Write, InFlight
  <2>2. InFlight' = InFlight
    BY <1>1, <2>1 DEF InFlight
  <2>3. \A d \in Clients \ {c} : pc'[d] \in {"idle", "done"}
    BY <1>0, <1>1, <2>1, TheOthersIdle
  <2>4. Undisturbed(c)'
    <3>1. pc'[c] = "checking"
      BY <1>1, <2>1
    <3> QED BY <1>0, <2>1, <3>1, AppliedIsUndisturbed DEF Undisturbed, Setting, Laid, Fits
  <2> QED BY <1>0, <2>2, <2>3, <2>4 DEF OneAtATime, Undisturbed, Setting, Laid
<1>7. ASSUME NEW c \in Clients, Retry(c)
      PROVE  OneAtATime' /\ (\A d \in Clients : Undisturbed(d))'
  <2>1. c \in InFlight /\ Effect(c) /\ UNCHANGED <<pc, plan, req>>
    BY <1>7 DEF Retry
  <2>2. InFlight' = InFlight
    BY <2>1 DEF InFlight
  <2>3. \A d \in Clients \ {c} : pc'[d] \in {"idle", "done"}
    BY <1>0, <1>1, <2>1, TheOthersIdle
  <2>4. Undisturbed(c)'
    <3>1. CASE UNCHANGED sheet
      BY <1>0, <2>1, <3>1 DEF Undisturbed, Setting, Laid
    <3>2. CASE pc[c] = "writing" /\ Apply(c)
      BY <1>0, <2>1, <3>2, AppliedIsUndisturbed DEF Undisturbed, Setting, Laid
    <3> QED BY <2>1, <3>1, <3>2 DEF Effect
  <2> QED BY <1>0, <2>2, <2>3, <2>4 DEF OneAtATime, Undisturbed, Setting, Laid
<1>8. ASSUME Restart
      PROVE  OneAtATime' /\ (\A d \in Clients : Undisturbed(d))'
  <2>1. \A d \in Clients : pc'[d] \in {"idle", "done"}
    BY <1>1, <1>8 DEF Restart, InFlight
  <2> QED BY <2>1 DEF OneAtATime, InFlight, Undisturbed, Setting, Laid
<1>9. ASSUME Owner
      PROVE  OneAtATime' /\ (\A d \in Clients : Undisturbed(d))'
  <2>1. InFlight = {} /\ UNCHANGED pc
    BY <1>0, <1>9, OwnerEdits DEF Free, callVars
  <2>2. \A d \in Clients : pc'[d] \in {"idle", "done"}
    BY <2>1 DEF InFlight
  <2> QED BY <2>2 DEF OneAtATime, InFlight, Undisturbed, Setting, Laid
<1>10. CASE Tick \/ Quiet \/ UNCHANGED vars
  <2>1. UNCHANGED <<sheet, pc, plan, req>>
    BY <1>10 DEF Tick, Quiet, vars, callVars
  <2> QED BY <1>0, <2>1 DEF OneAtATime, InFlight, Undisturbed, Setting, Laid
<1> QED
  BY <1>2, <1>4, <1>5, <1>6, <1>7, <1>8, <1>9, <1>10 DEF Next, Act

LEMMA SerialInvariance ==
  ASSUME WholeCalendar, Exclusive
  PROVE  Spec => []SerialInv
BY InitSerialInv, NextSerialInv, PTL DEF Spec

-----------------------------------------------------------------------------
(* What a write may change.                                                *)

\* The server changes the tab only by the write of a call that fits.
LEMMA OnlyWritesChange ==
  ASSUME GridIInv, [Next]_vars, ServerStep, sheet' # sheet
  PROVE  \E c \in Clients : pc[c] = "writing" /\ Fits(c) /\ Apply(c)
<1>1. ASSUME NEW c \in Clients, Begin(c) \/ Refuse(c) \/ Describe(c) \/ Act(c)
      PROVE  pc[c] = "writing" /\ Fits(c) /\ Apply(c)
  <2>1. CASE Begin(c) \/ Refuse(c)
    BY <2>1 DEF Begin, Refuse, Accept
  <2>2. CASE Act(c)
    BY <2>2 DEF Act, Reject, DryRun, PlanWrite, Write, RefuseRange, ReadBackWritten,
                Retry, GiveUp, Fail, Effect
  <2>3. CASE Describe(c)
    BY <2>3 DEF Describe
  <2> QED BY <1>1, <2>1, <2>2, <2>3
<1>2. ~Owner
  <2> SUFFICES ASSUME Owner PROVE FALSE
    OBVIOUS
  <2>1. edits' = edits + 1 /\ edits \in Int
    BY OwnerEdits DEF GridIInv, VarsTyped, PlansTyped
  <2> QED BY <2>1 DEF ServerStep
<1>3. ~(Restart \/ Tick \/ Quiet \/ UNCHANGED vars)
  BY DEF Restart, Tick, Quiet, vars
<1> QED BY <1>1, <1>2, <1>3 DEF Next

\* ... and with calls that do not overlap, a cell of a row that holds something
\* only by set_grid_value, which replaces the text it found by the one it names.
LEMMA CellsThatChange ==
  ASSUME SerialInv, [Next]_vars, ServerStep,
         NEW r \in Rows, NEW col \in 0..Width, Populated(sheet[r]),
         sheet'[r][col] # sheet[r][col]
  PROVE  \E c \in Clients : /\ Setting(c)
                            /\ <<r, col>> = <<plan[c].row, plan[c].col>>
                            /\ sheet[r][col] = plan[c].previous
                            /\ sheet'[r][col] = plan[c].text
<1>1. PICK c \in Clients : pc[c] = "writing" /\ Apply(c)
  BY OnlyWritesChange DEF SerialInv
<1>2. Ready(req[c]) /\ PlanOK(plan[c], req[c]) /\ Undisturbed(c) /\ GridIInv
  BY <1>1 DEF SerialInv, GridIInv, MidCall
<1>3. req[c].tool \in {"set", "create"}
  BY <1>2 DEF Ready, SetRequest, CreateRequest
<1>4. req[c].tool # "create"
  BY <1>1, <1>2, AppliedIsUndisturbed
<1>5. Setting(c)
  BY <1>1, <1>3, <1>4 DEF Setting
<1>6. sheet' = Overwrite(sheet, [x \in {<<plan[c].row, plan[c].col>>} |-> plan[c].text])
  BY <1>1, <1>3, <1>4 DEF Apply, PlannedCells
<1>7. sheet \in Tab
  BY <1>2 DEF GridIInv, VarsTyped, PlansTyped
<1>8. <<r, col>> = <<plan[c].row, plan[c].col>>
  BY <1>6 DEF Overwrite
<1>9. sheet'[r][col] = plan[c].text
  BY <1>6, <1>8 DEF Overwrite
<1>10. sheet[r][col] \in {plan[c].previous, plan[c].text}
  BY <1>2, <1>5, <1>8 DEF Undisturbed
<1> QED BY <1>5, <1>8, <1>9, <1>10

\* Whatever stands around the blocks, whatever fails and however often a write
\* is repeated: a row that holds something changes only in the one cell of a
\* set_grid_value.
THEOREM GridKeepsRows ==
  ASSUME WholeCalendar, Exclusive
  PROVE  Spec => RowsAreKept
<1> DEFINE Kept == ServerStep =>
             \A r \in Rows : Populated(sheet[r]) =>
               \A col \in 0..Width : sheet'[r][col] # sheet[r][col] =>
                 \E c \in Clients :
                   Setting(c) /\ <<r, col>> = <<plan[c].row, plan[c].col>>
<1>1. SerialInv /\ [Next]_vars => [Kept]_sheet
  <2> SUFFICES ASSUME SerialInv, [Next]_vars PROVE Kept
    OBVIOUS
  <2> QED BY CellsThatChange
<1>2. RowsAreKept <=> [][Kept]_sheet
  BY DEF RowsAreKept
<1> HIDE DEF Kept
<1> QED BY <1>1, <1>2, SerialInvariance, PTL DEF Spec

\* No text is lost that the response of the call does not carry as what the
\* cell held before.
THEOREM GridNamesPrevious ==
  ASSUME WholeCalendar, Exclusive
  PROVE  Spec => PreviousIsReplaced
<1> DEFINE Replaced == ServerStep =>
             \A r \in Rows, col \in 0..Width :
               (sheet[r][col] # Blank /\ sheet'[r][col] # sheet[r][col]) =>
                 \E c \in Clients :
                   /\ Setting(c)
                   /\ <<r, col>> = <<plan[c].row, plan[c].col>>
                   /\ sheet[r][col] = plan[c].previous
                   /\ sheet'[r][col] = plan[c].text
<1>1. SerialInv /\ [Next]_vars => [Replaced]_sheet
  <2> SUFFICES ASSUME SerialInv, [Next]_vars, ServerStep,
                      NEW r \in Rows, NEW col \in 0..Width,
                      sheet[r][col] # Blank, sheet'[r][col] # sheet[r][col]
               PROVE  \E c \in Clients :
                        /\ Setting(c)
                        /\ <<r, col>> = <<plan[c].row, plan[c].col>>
                        /\ sheet[r][col] = plan[c].previous
                        /\ sheet'[r][col] = plan[c].text
    OBVIOUS
  <2>1. Populated(sheet[r])
    BY DEF Populated, SerialInv, GridIInv, VarsTyped, PlansTyped, Tab
  <2> QED BY <2>1, CellsThatChange
<1>2. PreviousIsReplaced <=> [][Replaced]_sheet
  BY DEF PreviousIsReplaced
<1> HIDE DEF Replaced
<1> QED BY <1>1, <1>2, SerialInvariance, PTL DEF Spec

-----------------------------------------------------------------------------
(* A block that was written.                                               *)

\* With rows that follow each other, a block that stands is the only one of its
\* name, and is read as it was planned.
LEMMA StandingIsNamed ==
  ASSUME SerialInv, CloseOffsets, NEW c \in Clients, Created(c)
  PROVE  /\ Named(sheet, req[c].period[2]) =
              {[name |-> plan[c].name, header |-> plan[c].header, label |-> plan[c].label,
                first |-> plan[c].first, last |-> plan[c].last]}
         /\ Close(plan[c]) /\ Stands(sheet, plan[c]) /\ sheet \in Tab
         /\ BlockPlanOK(plan[c], req[c])
<1> DEFINE b == plan[c]
<1>1. /\ sheet \in Tab /\ BlockPlanOK(b, req[c])
      /\ Stands(sheet, b) /\ NameIsFree(sheet, b) /\ BlockFits(b)
  BY DEF SerialInv, GridIInv, VarsTyped, PlansTyped, MidCall, PlanOK, Undisturbed, Laid, Created
<1>2. b \in BlockPlan /\ b.name = MonthHeader(req[c].period[2], 0)
  BY <1>1 DEF BlockPlanOK
<1>3. Close(b)
  BY <1>1, <1>2 DEF Close, CloseOffsets, BlockPlanOK, BlockPlan, BlockFits
<1>4. {p \in Periods(sheet) : p.name = b.name} =
        {[name |-> b.name, header |-> b.header, label |-> b.label,
          first |-> b.first, last |-> b.last]}
  BY <1>1, <1>2, <1>3, StandingBlockIsFound DEF Created
<1> QED BY <1>1, <1>2, <1>3, <1>4 DEF Named

\* Whatever labels are asked for: if any of them is one that a reading sees, the
\* block that was written is the one the next set_grid_value will use, with those
\* of its labels and the days of its month.
THEOREM CreatedIsUsable ==
  ASSUME WholeCalendar, Exclusive, CloseOffsets
  PROVE  Spec => []CreatedBlockIsUsable
<1>1. SerialInv => CreatedBlockIsUsable
  <2> SUFFICES ASSUME SerialInv, NEW c \in Clients, Created(c)
               PROVE  LET named == Named(sheet, req[c].period[2])
                          p == Topmost(named)
                      IN /\ named # {}
                         /\ p.header = plan[c].header /\ p.label = plan[c].label
                         /\ p.first = plan[c].first /\ p.last = plan[c].last
                         /\ LabelColumns(sheet, p) = Shown(plan[c])
                         /\ \A col \in Shown(plan[c]) :
                              sheet[p.label][col] = plan[c].labels[col]
                         /\ p.last - p.first + 1 = DaysIn[req[c].period]
    BY DEF CreatedBlockIsUsable
  <2> DEFINE b == plan[c]
             found == [name |-> b.name, header |-> b.header, label |-> b.label,
                       first |-> b.first, last |-> b.last]
  <2>1. Named(sheet, req[c].period[2]) = {found}
    BY StandingIsNamed
  <2>2. Topmost({found}) = found
    <3>1. found.first <= found.first
      BY StandingIsNamed DEF BlockPlanOK, BlockPlan
    <3> QED BY <3>1 DEF Topmost
  <2>3. LabelColumns(sheet, found) = Filled(sheet, b.label)
    BY DEF LabelColumns
  <2>4. /\ Filled(sheet, b.label) = Shown(b)
        /\ \A col \in Shown(b) : sheet[b.label][col] = b.labels[col]
    BY StandingIsNamed, StandingLabels DEF BlockPlanOK
  <2>5. b.last - b.first + 1 = DaysIn[req[c].period]
    BY StandingIsNamed DEF BlockPlanOK
  <2>6. /\ found.header = b.header /\ found.label = b.label
        /\ found.first = b.first /\ found.last = b.last
        /\ LabelColumns(sheet, found) = Shown(b)
        /\ \A col \in Shown(b) : sheet[found.label][col] = b.labels[col]
    BY <2>3, <2>4
  <2>7. Named(sheet, req[c].period[2]) # {} /\ Topmost(Named(sheet, req[c].period[2])) = found
    BY <2>1, <2>2
  <2> HIDE DEF found
  <2> QED BY <2>5, <2>6, <2>7
<1> QED BY <1>1, SerialInvariance, PTL

-----------------------------------------------------------------------------
(* What a successful answer says.                                          *)

\* A call in flight has not been answered.
Unanswered ==
  \A c \in Clients : pc[c] \in {"reading", "writing", "checking"} => outcome[c] = "none"

LEMMA NextUnanswered ==
  ASSUME GridIInv, Unanswered, [Next]_vars
  PROVE  Unanswered'
<1>1. /\ pc \in [Clients -> {"idle", "reading", "writing", "checking", "done"}]
      /\ outcome \in [Clients -> Outcomes]
  BY DEF GridIInv, VarsTyped, PlansTyped
<1>2. ASSUME NEW c \in Clients, Begin(c) \/ PlanWrite(c) \/ Write(c) \/ Retry(c)
      PROVE  Unanswered'
  BY <1>1, <1>2 DEF Begin, PlanWrite, Write, Retry, Unanswered
<1>3. ASSUME NEW c \in Clients,
             Refuse(c) \/ Describe(c) \/ Reject(c) \/ DryRun(c) \/ RefuseRange(c)
               \/ ReadBackWritten(c) \/ GiveUp(c) \/ Fail(c)
      PROVE  Unanswered'
  <2>1. PICK result : Finish(c, result)
    BY <1>3 DEF Refuse, Describe, Reject, DryRun, RefuseRange, ReadBackWritten, GiveUp, Fail
  <2> QED BY <1>1, <2>1 DEF Finish, Unanswered
<1>4. CASE Restart
  BY <1>1, <1>4 DEF Restart, InFlight, Unanswered
<1>5. CASE Owner \/ Tick \/ Quiet \/ UNCHANGED vars
  <2>1. UNCHANGED <<pc, outcome>>
    BY <1>5, OwnerEdits DEF Tick, Quiet, vars, callVars
  <2> QED BY <2>1 DEF Unanswered
<1> QED BY <1>2, <1>3, <1>4, <1>5 DEF Next, Act

\* Tallies are written with whole half hours.
WholeHalves ==
  \A i \in DOMAIN Profiles :
    (Profiles[i].layout = "grid" /\ Profiles[i].valueType = "duration-tally") =>
      Step % 2 = 0

\* The notation of a request is that of the one profile it names.
LEMMA TallyHalves ==
  ASSUME WholeHalves, NEW r, HasLayout(r.profile, "grid"), ValueType(r) = "duration-tally"
  PROVE  Step % 2 = 0
<1>1. PICK i \in Resolve(r.profile) : Profiles[i].layout = "grid"
  BY DEF HasLayout
<1>2. \A j \in Resolve(r.profile) : j = i
  BY RegistryAssumption DEF Resolve
<1>3. (CHOOSE j \in Resolve(r.profile) : TRUE) = i
  BY <1>1, <1>2
<1>4. i \in DOMAIN Profiles /\ Profiles[i].valueType = "duration-tally"
  BY <1>1, <1>3 DEF ValueType, Resolve
<1> QED BY <1>1, <1>4 DEF WholeHalves

\* The hours of a plan are the hours its text reads back as, or the text is empty.
LEMMA PlannedReadsBack ==
  ASSUME WholeHalves, NEW p, NEW r, SetPlanOK(p, r), ValueType(r) \in DurationTypes,
         HasLayout(r.profile, "grid")
  PROVE  IF p.hours >= 0 THEN Parse(p.text) = p.hours ELSE p.text = Blank
<1>1. PICK k \in Int : p.hours = k * Step
  BY DEF SetPlanOK
<1>2. p.hours \in Int /\ p.text = Render(p.hours, ValueType(r))
  BY DEF SetPlanOK, SetPlan
<1>3. ValueType(r) = "duration-tally" => p.hours % 2 = 0
  <2> SUFFICES ASSUME ValueType(r) = "duration-tally" PROVE p.hours % 2 = 0
    OBVIOUS
  <2>1. Step \in Int /\ Step = 2 * (Step \div 2)
    BY TallyHalves, ToolsAssumption
  <2>2. p.hours = 2 * (k * (Step \div 2))
    BY <1>1, <2>1
  <2>3. k * (Step \div 2) \in Int
    BY <1>1, <2>1
  <2> QED BY <2>2, <2>3
<1>4. Parse(p.text) = Max({0, p.hours})
  BY <1>2, <1>3, RenderReadsBack
<1>5. p.hours >= 0 => Parse(p.text) = p.hours
  BY <1>2, <1>4, MaxWithZero
<1>6. p.hours < 0 => p.text = Blank
  BY <1>2 DEF Render
<1> QED BY <1>2, <1>5, <1>6

\* What the read-back finds: the text that was written, or, with rows that
\* follow each other, the block, unless none of its labels can be seen.
LEMMA FoundIsPlanned ==
  ASSUME SerialInv, NEW c \in Clients, pc[c] = "checking"
  PROVE  /\ Ready(req[c]) /\ PlanOK(plan[c], req[c])
         /\ req[c].tool = "set" => Found(c) = plan[c].text
         /\ (req[c].tool = "create" /\ CloseOffsets) =>
              ((Found(c) = plan[c].name) <=> (Shown(plan[c]) # {}))
<1>1. Ready(req[c]) /\ PlanOK(plan[c], req[c]) /\ Undisturbed(c)
  BY DEF SerialInv, GridIInv, MidCall
<1>2. ASSUME req[c].tool = "create", CloseOffsets, Shown(plan[c]) # {}
      PROVE  Found(c) = plan[c].name
  <2> DEFINE found == [name |-> plan[c].name, header |-> plan[c].header,
                       label |-> plan[c].label, first |-> plan[c].first,
                       last |-> plan[c].last]
  <2>1. Named(sheet, req[c].period[2]) = {found}
    BY <1>2, StandingIsNamed DEF Created
  <2>2. found \in Periods(sheet) /\ found.name = plan[c].name
    BY <2>1 DEF Named
  <2> HIDE DEF found
  <2> QED BY <1>2, <2>2 DEF Found
<1>3. ASSUME req[c].tool = "create", CloseOffsets, Shown(plan[c]) = {}
      PROVE  Found(c) # plan[c].name
  <2>1. /\ sheet \in Tab /\ BlockPlanOK(plan[c], req[c]) /\ plan[c] \in BlockPlan
        /\ Stands(sheet, plan[c]) /\ NameIsFree(sheet, plan[c]) /\ BlockFits(plan[c])
    BY <1>1, <1>3 DEF SerialInv, GridIInv, VarsTyped, PlanOK, BlockPlanOK, Undisturbed, Laid
  <2>2. Close(plan[c])
    BY <1>3, <2>1 DEF Close, CloseOffsets, BlockPlanOK, BlockPlan, BlockFits
  <2>3. \A p \in Periods(sheet) : p.name # plan[c].name
    BY <1>3, <2>1, <2>2, StandingIsTheOne
  <2>4. Found(c) = Blank
    BY <1>3, <2>3 DEF Found
  <2> QED BY <2>1, <2>4 DEF BlockPlan
<1> QED BY <1>1, <1>2, <1>3 DEF Undisturbed, Found

\* A successful answer carries what its plan was for.
Answered ==
  \A c \in Clients : outcome[c] = "ok" =>
    /\ req[c].tool = "set" =>
         /\ SetPlanOK(plan[c], req[c]) /\ HasLayout(req[c].profile, "grid")
         /\ readback[c] = plan[c].text
    /\ (req[c].tool = "create" /\ CloseOffsets) =>
         ((readback[c] = plan[c].name) <=> (Shown(plan[c]) # {}))

AnswerInv == SerialInv /\ Unanswered /\ Answered

LEMMA NextAnswerInv ==
  ASSUME WholeCalendar, Exclusive, AnswerInv, [Next]_vars
  PROVE  AnswerInv'
<1> SUFFICES Answered'
  BY NextSerialInv, NextUnanswered DEF SerialInv, AnswerInv
<1>0. GridIInv /\ SerialInv /\ Unanswered /\ Answered
  BY DEF SerialInv, AnswerInv
<1>1. /\ pc \in [Clients -> {"idle", "reading", "writing", "checking", "done"}]
      /\ outcome \in [Clients -> Outcomes] /\ readback \in [Clients -> Text]
      /\ plan \in [Clients -> SetPlan \cup BlockPlan \cup {None}]
      /\ req \in [Clients -> Request \cup {None}]
  BY <1>0 DEF GridIInv, VarsTyped, PlansTyped
\* Whose answer does not change, or is no success, need not be looked at.
<1>2. ASSUME NEW c \in Clients,
             \A d \in Clients \ {c} :
               /\ outcome'[d] = outcome[d] /\ readback'[d] = readback[d]
               /\ plan'[d] = plan[d] /\ req'[d] = req[d],
             outcome'[c] # "ok"
      PROVE  Answered'
  BY <1>0, <1>2 DEF Answered
<1>3. ASSUME NEW c \in Clients,
             Begin(c) \/ Refuse(c) \/ Describe(c) \/ Reject(c) \/ DryRun(c)
               \/ RefuseRange(c) \/ GiveUp(c) \/ Fail(c)
      PROVE  Answered'
  <2>1. /\ \A d \in Clients \ {c} :
             /\ outcome'[d] = outcome[d] /\ readback'[d] = readback[d]
             /\ plan'[d] = plan[d] /\ req'[d] = req[d]
        /\ outcome'[c] # "ok"
    <3>1. CASE Begin(c) \/ Refuse(c) \/ Describe(c)
      BY <1>1, <3>1 DEF Begin, Refuse, Describe, Accept, Finish
    <3>2. CASE Reject(c)
      BY <1>1, <3>2, OutcomeNotOk DEF Reject, Finish
    <3>3. CASE DryRun(c) \/ RefuseRange(c) \/ GiveUp(c) \/ Fail(c)
      BY <1>1, <3>3 DEF DryRun, RefuseRange, GiveUp, Fail, Finish
    <3> QED BY <1>3, <3>1, <3>2, <3>3
  <2> QED BY <1>2, <2>1
<1>4. CASE Quiet \/ Tick \/ Owner \/ UNCHANGED vars
  <2>1. UNCHANGED <<outcome, readback, plan, req>>
    BY <1>0, <1>4, OwnerEdits DEF Quiet, Tick, vars, callVars
  <2> QED BY <1>0, <2>1 DEF Answered
<1>5. CASE Restart
  BY <1>0, <1>1, <1>5 DEF Restart, Answered
<1>6. ASSUME NEW c \in Clients, ReadBackWritten(c)
      PROVE  Answered'
  <2>1. /\ pc[c] = "checking" /\ readback'[c] = Found(c)
        /\ UNCHANGED <<plan, req>>
        /\ \A d \in Clients \ {c} : outcome'[d] = outcome[d] /\ readback'[d] = readback[d]
    BY <1>1, <1>6 DEF ReadBackWritten, Finish
  <2>2. /\ PlanOK(plan[c], req[c]) /\ HasLayout(req[c].profile, "grid")
        /\ req[c].tool = "set" => readback'[c] = plan[c].text
        /\ (req[c].tool = "create" /\ CloseOffsets) =>
             ((readback'[c] = plan[c].name) <=> (Shown(plan[c]) # {}))
    BY <1>0, <2>1, FoundIsPlanned DEF Ready
  <2>3. req[c].tool = "set" => SetPlanOK(plan[c], req[c])
    BY <2>2 DEF PlanOK
  <2> QED BY <1>0, <2>1, <2>2, <2>3 DEF Answered
\* A call that has not been answered has no outcome to be looked at.
<1>7. ASSUME NEW c \in Clients, PlanWrite(c) \/ Write(c) \/ Retry(c)
      PROVE  Answered'
  <2>1. CASE PlanWrite(c)
    <3>1. outcome'[c] # "ok" /\ \A d \in Clients \ {c} : plan'[d] = plan[d]
      BY <1>0, <1>1, <2>1 DEF PlanWrite, Unanswered
    <3> QED BY <1>2, <2>1, <3>1 DEF PlanWrite
  <2>2. CASE Write(c) \/ Retry(c)
    BY <1>0, <2>2 DEF Write, Retry, Answered
  <2> QED BY <1>7, <2>1, <2>2
<1> QED BY <1>3, <1>4, <1>5, <1>6, <1>7 DEF Next, Act

LEMMA AnswerInvariance ==
  ASSUME WholeCalendar, Exclusive
  PROVE  Spec => []AnswerInv
<1>1. Init => AnswerInv
  BY InitSerialInv DEF AnswerInv, Unanswered, Answered, Init
<1>2. AnswerInv /\ [Next]_vars => AnswerInv'
  BY NextAnswerInv
<1> QED BY <1>1, <1>2, PTL DEF Spec

\* Figures a successful set_grid_value reports that are not negative are the
\* hours the cell reads back as, in both notations and for every step they can
\* express; a figure below zero stands for an empty cell.
THEOREM ReportedIsTrue ==
  ASSUME WholeCalendar, Exclusive, WholeHalves
  PROVE  Spec => []PositiveIsRecorded
<1>1. AnswerInv => PositiveIsRecorded
  <2> SUFFICES ASSUME AnswerInv, NEW c \in Clients, Reported(c)
               PROVE  IF plan[c].hours >= 0 THEN Parse(readback[c]) = plan[c].hours
                      ELSE readback[c] = Blank
    BY DEF PositiveIsRecorded
  <2>1. /\ SetPlanOK(plan[c], req[c]) /\ HasLayout(req[c].profile, "grid")
        /\ readback[c] = plan[c].text /\ ValueType(req[c]) \in DurationTypes
    BY DEF Reported, AnswerInv, Answered
  <2>2. IF plan[c].hours >= 0 THEN Parse(plan[c].text) = plan[c].hours
        ELSE plan[c].text = Blank
    BY <2>1, PlannedReadsBack
  <2> QED BY <2>1, <2>2
<1> QED BY <1>1, AnswerInvariance, PTL

\* `verified` is true exactly of the blocks with a label that a reading sees.
THEOREM VerifiedIsTrue ==
  ASSUME WholeCalendar, Exclusive, CloseOffsets
  PROVE  Spec => []VerifiedIsFound
<1>1. AnswerInv => VerifiedIsFound
  BY DEF AnswerInv, Answered, VerifiedIsFound
<1> QED BY <1>1, AnswerInvariance, PTL

-----------------------------------------------------------------------------
(* What describe_profile said.                                             *)

\* Advice that still counts is true of the tab as it is today.
AdviceIsFresh ==
  \A c \in Clients :
    /\ advice[c] = "exists" => Named(sheet, today.month) # {}
    /\ advice[c] = "missing" => Named(sheet, today.month) = {}

LEMMA RefusalsSayWhy ==
  ASSUME NEW s, NEW r
  PROVE  /\ OutcomeOf(s, r) = "period_missing" => Named(s, r.when.month) = {}
         /\ OutcomeOf(s, r) = "period_exists" => Named(s, r.period[2]) # {}
BY DEF OutcomeOf, SetOutcome, CreateOutcome

LEMMA NextAdvice ==
  ASSUME GridIInv, AdviceIsFresh, AdviceHolds, [Next]_vars
  PROVE  AdviceIsFresh' /\ AdviceHolds'
<1>1. /\ advice \in [Clients -> {"none", "exists", "missing"}]
      /\ outcome \in [Clients -> Outcomes]
      /\ req \in [Clients -> Request \cup {None}]
  BY DEF GridIInv, VarsTyped
\* Whatever changes the tab or the day takes all advice back.
<1>2. ASSUME Forget
      PROVE  AdviceIsFresh' /\ AdviceHolds'
  BY <1>2 DEF Forget, AdviceIsFresh, AdviceHolds
<1>3. ASSUME UNCHANGED <<sheet, today, advice>>
      PROVE  AdviceIsFresh'
  BY <1>3 DEF AdviceIsFresh
\* A call that is asked, or answered without a word of a block, says nothing.
<1>4. ASSUME NEW c \in Clients, UNCHANGED <<sheet, today, advice>>,
             outcome'[c] \notin {"period_missing", "period_exists"},
             \A d \in Clients \ {c} : outcome'[d] = outcome[d] /\ req'[d] = req[d]
      PROVE  AdviceIsFresh' /\ AdviceHolds'
  BY <1>3, <1>4 DEF AdviceHolds
<1>5. ASSUME NEW c \in Clients, Begin(c) \/ Refuse(c)
      PROVE  AdviceIsFresh' /\ AdviceHolds'
  BY <1>1, <1>4, <1>5 DEF Begin, Refuse, Accept, Finish
<1>6. ASSUME NEW c \in Clients, Describe(c)
      PROVE  AdviceIsFresh' /\ AdviceHolds'
  <2>1. /\ UNCHANGED <<sheet, today, req>>
        /\ advice' = [advice EXCEPT ![c] = IF CurrentPeriodExists THEN "exists" ELSE "missing"]
        /\ outcome' = [outcome EXCEPT ![c] = "none"]
    BY <1>6 DEF Describe, Finish, ownerVars
  <2>2. AdviceIsFresh'
    BY <1>1, <2>1 DEF AdviceIsFresh, CurrentPeriodExists
  <2>3. AdviceHolds'
    BY <1>1, <2>1 DEF AdviceHolds
  <2> QED BY <2>2, <2>3
<1>7. ASSUME NEW c \in Clients, Reject(c)
      PROVE  AdviceIsFresh' /\ AdviceHolds'
  <2>1. /\ UNCHANGED <<sheet, today, advice, req>>
        /\ outcome' = [outcome EXCEPT ![c] = OutcomeOf(sheet, req[c])]
    BY <1>7 DEF Reject, Finish, ownerVars
  <2>2. /\ OutcomeOf(sheet, req[c]) = "period_missing" => Named(sheet, req[c].when.month) = {}
        /\ OutcomeOf(sheet, req[c]) = "period_exists" => Named(sheet, req[c].period[2]) # {}
    BY RefusalsSayWhy
  <2>3. AdviceHolds'
    BY <1>1, <2>1, <2>2 DEF AdviceIsFresh, AdviceHolds
  <2> QED BY <1>3, <2>1, <2>3
<1>8. ASSUME NEW c \in Clients,
             DryRun(c) \/ PlanWrite(c) \/ RefuseRange(c) \/ ReadBackWritten(c)
      PROVE  AdviceIsFresh' /\ AdviceHolds'
  <2>1. /\ UNCHANGED <<sheet, today, advice, req>>
        /\ outcome' = outcome \/ \E v \in {"dry_run", "bad_range", "ok"} :
                                    outcome' = [outcome EXCEPT ![c] = v]
    BY <1>8 DEF DryRun, PlanWrite, RefuseRange, ReadBackWritten, Finish, ownerVars
  <2> QED BY <1>1, <1>3, <2>1 DEF AdviceHolds
<1>9. ASSUME NEW c \in Clients, Write(c) \/ Retry(c) \/ GiveUp(c) \/ Fail(c)
      PROVE  AdviceIsFresh' /\ AdviceHolds'
  <2>1. /\ UNCHANGED <<today, req>> /\ (Forget \/ UNCHANGED <<sheet, advice>>)
        /\ outcome' = outcome \/ \E v \in {"upstream", "failed"} :
                                    outcome' = [outcome EXCEPT ![c] = v]
    BY <1>9 DEF Write, Retry, GiveUp, Fail, Effect, Apply, Finish, ownerVars
  <2> QED BY <1>1, <1>2, <1>3, <2>1 DEF AdviceHolds
<1>10. CASE Restart
  BY <1>1, <1>3, <1>10 DEF Restart, ownerVars, AdviceHolds
<1>11. CASE Owner \/ Tick
  BY <1>2, <1>11, OwnerEdits DEF Tick
<1>12. CASE Quiet \/ UNCHANGED vars
  BY <1>12 DEF Quiet, vars, callVars, ownerVars, AdviceIsFresh, AdviceHolds
<1> QED
  BY <1>5, <1>6, <1>7, <1>8, <1>9, <1>10, <1>11, <1>12 DEF Next, Act

\* However calls overlap, a client that heeds describe_profile while what it said
\* is still fresh is refused neither for want of this month's block nor because
\* it exists.
THEOREM AdviceIsSound ==
  ASSUME WholeCalendar
  PROVE  Spec => []AdviceHolds
<1> DEFINE AInv == GridIInv /\ AdviceIsFresh /\ AdviceHolds
<1>1. Init => AInv
  BY InitGridIInv DEF Init, AdviceIsFresh, AdviceHolds
<1>2. AInv /\ [Next]_vars => AInv'
  BY NextGridIInv, NextAdvice
<1>3. AInv => AdviceHolds
  OBVIOUS
<1> HIDE DEF AInv
<1> QED BY <1>1, <1>2, <1>3, PTL DEF Spec

-----------------------------------------------------------------------------
(* One block per month.                                                    *)

\* The owner found or made a tab in order, and types no 1 over a day number, which
\* would begin a block of its own.
OrderlyOwner ==
  /\ \A s \in InitSheets : Tidy(s)
  /\ \A t \in OwnerTexts : DayIn(t) # 1

\* A cell planned for a day of a block.
InABlock(s, p) ==
  /\ p.col \in DayColumn + 1 .. Width
  /\ \E start \in BlockStarts(s) : p.row \in start..RunEnd(s, start)

\* What a pending write aims at.
Aimed(c) ==
  pc[c] = "writing" =>
    /\ req[c].tool = "set" => InABlock(sheet, plan[c])
    /\ req[c].tool = "create" => DayIn(plan[c].heading) = 0

TidyInv == SerialInv /\ Tidy(sheet) /\ \A c \in Clients : Aimed(c)

LEMMA PeriodStarts ==
  ASSUME NEW s \in Tab, NEW p \in Periods(s)
  PROVE  /\ p.first \in BlockStarts(s) /\ p.last = RunEnd(s, p.first)
         /\ p.header = p.first + HeaderOffset /\ p.label = p.first + LabelOffset
<1>1. PICK start \in BlockStarts(s) : p = PeriodAt(s, start)
  BY DEF Periods, BlockStarts
<1> QED BY <1>1 DEF PeriodAt

\* The heading a new block takes over is no day number.
LEMMA HeadingIsNoDay ==
  ASSUME NEW s \in Tab, Tidy(s)
  PROVE  DayIn(DayColumnHeading(s)) = 0
<1>1. CASE Periods(s) = {}
  BY <1>1 DEF DayColumnHeading, DayIn, Blank
<1>2. CASE Periods(s) # {}
  <2> DEFINE newest == Lowest(Periods(s))
  <2>1. newest \in Periods(s)
    BY <1>2, TopmostAndLowest
  <2> HIDE DEF newest
  <2>2. newest.first \in BlockStarts(s) /\ newest.header = newest.first + HeaderOffset
    BY <2>1, PeriodStarts
  <2>3. Day(s, newest.header) = 0
    BY <2>2 DEF Tidy
  <2> QED BY <1>2, <2>3 DEF DayColumnHeading, Day, DayIn, newest
<1> QED BY <1>1, <1>2

LEMMA PlannedIsAimed ==
  ASSUME NEW s \in Tab, Tidy(s), NEW r, Ready(r), OutcomeOf(s, r) = "write"
  PROVE  /\ r.tool = "set" => InABlock(s, PlanOf(s, r))
         /\ r.tool = "create" => DayIn(PlanOf(s, r).heading) = 0
<1>1. CASE r \in SetRequest /\ r.when \in Date
  <2> DEFINE q == Topmost(Named(s, r.when.month))
             row == DayRow(q, r.when.day)
             col == ResolveColumn(s, q, r.column)
  <2>1. r.tool = "set" /\ SetOutcome(s, r) = "write"
    BY <1>1 DEF SetRequest, OutcomeOf
  <2>2. Named(s, r.when.month) # {} /\ col # 0 /\ row # 0
    BY <2>1 DEF SetOutcome
  <2>3. q \in Periods(s)
    <3>1. Named(s, r.when.month) \in SUBSET Periods(s)
      BY DEF Named
    <3> QED BY <2>2, <3>1, TopmostAndLowest
  <2>4. PlanOf(s, r).row = row /\ PlanOf(s, r).col = col
    BY <2>1 DEF PlanOf, PlanSet, ValuePlan
  <2>5. col \in DayColumn + 1 .. Width
    <3>1. col \in LabelColumns(s, q) /\ q.label \in Rows
      BY <2>2, <2>3, ResolveColumnType, PeriodType
    <3> QED BY <3>1, FilledType DEF LabelColumns
  <2> HIDE DEF q, col
  <2>6. row \in q.first..q.last
    <3>1. r.when.day \in Nat \ {0} /\ q.first \in Rows /\ q.last \in q.first..MaxRow
      BY <1>1, <2>3, PeriodType DEF Date
    <3>2. q.first \in Int /\ q.last \in Int /\ r.when.day \in Int /\ r.when.day >= 1
      BY <3>1, GridAssumption DEF Rows
    <3> HIDE DEF q
    <3>3. row = q.first + r.when.day - 1 /\ q.first + r.when.day - 1 <= q.last
      BY <2>2 DEF DayRow
    <3> QED BY <3>2, <3>3
  <2> HIDE DEF row
  <2>7. q.first \in BlockStarts(s) /\ q.last = RunEnd(s, q.first)
    BY <2>3, PeriodStarts
  <2> QED BY <2>1, <2>4, <2>5, <2>6, <2>7 DEF InABlock
<1>2. CASE r \in CreateRequest
  <2>1. r.tool = "create"
    BY <1>2 DEF CreateRequest
  <2>2. PlanOf(s, r).heading = DayColumnHeading(s)
    BY <2>1 DEF PlanOf, PlanCreate, PlanBlock
  <2> QED BY <2>1, <2>2, HeadingIsNoDay
<1> QED BY <1>1, <1>2 DEF Ready

\* A write, applied once or again, keeps the tab tidy and its aim.
LEMMA AppliedIsTidy ==
  ASSUME CloseOffsets, TidyInv, NEW c \in Clients, pc[c] = "writing", Fits(c), Apply(c)
  PROVE  /\ Tidy(sheet')
         /\ req[c].tool = "set" => InABlock(sheet', plan[c])
<1>1. /\ sheet \in Tab /\ sheet' \in Tab /\ Tidy(sheet) /\ Aimed(c) /\ Undisturbed(c)
      /\ GridIInv /\ Ready(req[c]) /\ PlanOK(plan[c], req[c])
  <2>1. GridIInv /\ Undisturbed(c) /\ Tidy(sheet) /\ Aimed(c)
    BY DEF TidyInv, SerialInv
  <2> QED BY <2>1, ApplyType DEF GridIInv, VarsTyped, MidCall
<1>2. CASE req[c].tool = "set"
  <2> DEFINE row == plan[c].row
             col == plan[c].col
             v == plan[c].text
  <2>1. v \in Text /\ col \in DayColumn + 1 .. Width
    BY <1>1, <1>2 DEF PlanOK, SetPlanOK, SetPlan, Aimed, InABlock
  <2>2. PICK p \in BlockStarts(sheet) : row \in p..RunEnd(sheet, p)
    BY <1>1, <1>2 DEF Aimed, InABlock
  <2>3. sheet' = WithCell(sheet, row, col, v)
    BY <1>2 DEF Apply, PlannedCells, WithCell
  <2> HIDE DEF row, col, v
  <2>4. /\ Tidy(sheet') /\ BlockStarts(sheet') = BlockStarts(sheet)
        /\ RunEnd(sheet', p) = RunEnd(sheet, p)
    <3>1. LET t == WithCell(sheet, row, col, v)
          IN /\ Tidy(t) /\ BlockStarts(t) = BlockStarts(sheet)
             /\ \A q \in BlockStarts(sheet) : RunEnd(t, q) = RunEnd(sheet, q)
      BY <1>1, <2>1, <2>2, ValueMovesNoBlock
    <3> QED BY <2>3, <3>1
  <2>5. InABlock(sheet', plan[c])
    BY <2>1, <2>2, <2>4 DEF InABlock, row, col
  <2> QED BY <2>4, <2>5
<1>3. CASE req[c].tool = "create"
  <2> DEFINE b == plan[c]
  <2>1. /\ b \in BlockPlan /\ BlockPlanOK(b, req[c]) /\ BlockFits(b)
        /\ DayIn(b.heading) = 0 /\ Room(sheet, b)
    BY <1>1, <1>3 DEF PlanOK, BlockPlanOK, Fits, Aimed, Undisturbed
  <2>2. Close(b)
    BY <2>1 DEF Close, CloseOffsets, BlockPlanOK, BlockPlan, BlockFits
  <2>3. Stands(sheet', b) /\ NameIsFree(sheet', b)
    BY <1>1, <1>3, AppliedIsUndisturbed
  <2>4. sheet' = Overwrite(sheet, BlockCells(b))
    BY <1>3 DEF Apply, PlannedCells
  <2>5. \A r \in Rows : r < b.header => sheet'[r] = sheet[r]
    BY <1>1, <2>1, <2>4, WriteBlock
  <2> HIDE DEF b
  <2>6. Tidy(sheet')
    BY <1>1, <2>1, <2>2, <2>3, <2>5, BlockAdded
  <2> QED BY <1>3, <2>6
<1> QED BY <1>1, <1>2, <1>3 DEF Ready, SetRequest, CreateRequest

\* So does the owner.
LEMMA OwnerStaysTidy ==
  ASSUME CloseOffsets, OrderlyOwner, sheet \in Tab, Tidy(sheet), Owner
  PROVE  Tidy(sheet')
<1>1. CASE EditValue
  <2>0. PICK p \in Periods(sheet), t \in OwnerTexts :
          \E r \in p.first .. p.last, c \in LabelColumns(sheet, p) \cup {DayColumn} :
            Edit([x \in {<<r, c>>} |-> t])
    BY <1>1 DEF EditValue
  <2>1. PICK r \in p.first .. p.last, c \in LabelColumns(sheet, p) \cup {DayColumn} :
          Edit([x \in {<<r, c>>} |-> t])
    BY <2>0
  <2>2. sheet' = WithCell(sheet, r, c, t)
    BY <2>1 DEF Edit, WithCell
  <2>3. t \in Text /\ DayIn(t) # 1
    BY ToolsAssumption DEF OrderlyOwner
  <2>4. p.first \in BlockStarts(sheet) /\ r \in p.first..RunEnd(sheet, p.first)
    BY PeriodStarts
  <2>5. CASE c = DayColumn
    BY <2>2, <2>3, <2>4, <2>5, DayOverwritten
  <2>6. CASE c # DayColumn
    <3>1. c \in DayColumn + 1 .. Width
      BY <2>1, <2>6, PeriodType, FilledType DEF LabelColumns
    <3>2. LET t2 == WithCell(sheet, r, c, t)
          IN /\ Tidy(t2) /\ BlockStarts(t2) = BlockStarts(sheet)
             /\ \A q \in BlockStarts(sheet) : RunEnd(t2, q) = RunEnd(sheet, q)
      BY <2>3, <2>4, <3>1, ValueMovesNoBlock
    <3> QED BY <2>2, <3>2
  <2> QED BY <2>5, <2>6
<1>2. CASE Relabel
  <2>0. PICK p \in Periods(sheet), label \in OwnerLabels :
          \E c \in LabelColumns(sheet, p) : Edit([x \in {<<p.label, c>>} |-> label])
    BY <1>2 DEF Relabel
  <2>1. PICK c \in LabelColumns(sheet, p) : Edit([x \in {<<p.label, c>>} |-> label])
    BY <2>0
  <2>2. sheet' = WithCell(sheet, p.label, c, label)
    BY <2>1 DEF Edit, WithCell
  <2>3. p.first \in BlockStarts(sheet) /\ p.label = p.first + LabelOffset
        /\ c \in Filled(sheet, p.first + LabelOffset) /\ label \in Text
    BY PeriodStarts, ToolsAssumption DEF LabelColumns
  <2> QED BY <2>2, <2>3, LabelReplaced
<1>3. CASE MarkYear
  <2>1. PICK p \in Recognised(sheet) :
          LET year == YearOf(sheet, today)[p]
          IN /\ year \in Nat \ {0}
             /\ Edit([x \in {<<p.header, Min(Filled(sheet, p.header))>>} |->
                       MonthHeader(MonthOf(p), year)])
    BY <1>3 DEF MarkYear
  <2> DEFINE year == YearOf(sheet, today)[p]
             v == MonthHeader(MonthOf(p), year)
  <2>2. sheet' = WithCell(sheet, p.header, Min(Filled(sheet, p.header)), v)
    BY <2>1 DEF Edit, WithCell
  <2>3. p \in Periods(sheet) /\ p.name \in Text
    BY PeriodType DEF Recognised
  <2>4. MonthOf(p) \in Int /\ year \in Nat /\ year # 0
    BY <2>1, <2>3 DEF MonthOf, Text
  <2> HIDE DEF year
  <2>5. v \in Text \ {Blank} /\ \A m \in Months : v # MonthHeader(m, 0)
    <3>1. v \in Text
      BY <2>4, TextTypes
    <3> QED BY <2>4, <3>1 DEF MonthHeader, Blank
  <2>6. p.first \in BlockStarts(sheet) /\ p.header = p.first + HeaderOffset
    BY <2>3, PeriodStarts
  <2> HIDE DEF v
  <2> QED BY <2>2, <2>5, <2>6, HeaderDated
<1>4. CASE StrayRow
  <2> DEFINE row == LastPopulatedRow(sheet) + 2
  <2>1. PICK t \in OwnerTexts : Edit([x \in {<<row, DayColumn + 1>>} |-> t])
    BY <1>4 DEF StrayRow
  <2>2. sheet' = WithCell(sheet, row, DayColumn + 1, t)
    BY <2>1 DEF Edit, WithCell
  <2>3. LastPopulatedRow(sheet) \in Nat /\ row \in Rows /\ row > LastPopulatedRow(sheet)
    <3>1. LastPopulatedRow(sheet) \in Nat
      BY LastPopulatedRowBounds, GridAssumption
    <3> QED BY <1>4, <3>1, GridAssumption DEF StrayRow, Rows
  <2>4. t \in Text
    BY ToolsAssumption
  <2> HIDE DEF row
  <2>5. CASE DayColumn + 1 \in DayColumn + 1 .. Width
    BY <2>2, <2>3, <2>4, <2>5, NoteBelow
  \* A note right of the last column read changes nothing that is seen.
  <2>6. CASE DayColumn + 1 \notin DayColumn + 1 .. Width
    <3>1. DayColumn + 1 \notin 0..Width
      BY <2>6, GridAssumption
    <3>2. sheet' = sheet
      BY <2>2, <3>1 DEF WithCell, Overwrite, Tab
    <3> QED BY <3>2
  <2> QED BY <2>5, <2>6
<1> QED BY <1>1, <1>2, <1>3, <1>4 DEF Owner

\* A call that is about to write has just planned, or was about to already and has
\* at most been applied.
LEMMA WritersStay ==
  ASSUME Exclusive, SerialInv, [Next]_vars, NEW c \in Clients, pc'[c] = "writing"
  PROVE  \/ PlanWrite(c)
         \/ /\ pc[c] = "writing" /\ plan'[c] = plan[c] /\ req'[c] = req[c]
            /\ sheet' = sheet \/ (Fits(c) /\ Apply(c))
<1>0. GridIInv /\ OneAtATime
  BY DEF SerialInv
<1>1. /\ pc \in [Clients -> {"idle", "reading", "writing", "checking", "done"}]
      /\ plan \in [Clients -> SetPlan \cup BlockPlan \cup {None}]
  BY <1>0 DEF GridIInv, VarsTyped, PlansTyped
<1>2. ASSUME NEW d \in Clients, Begin(d) \/ Refuse(d) \/ Describe(d)
      PROVE  FALSE
  <2>1. InFlight = {} /\ \E v \in {"reading", "done"} : pc' = [pc EXCEPT ![d] = v]
    BY <1>2 DEF Begin, Refuse, Describe, Callable, Free, Finish
  <2> QED BY <1>1, <2>1 DEF InFlight
<1>3. ASSUME NEW d \in Clients, Act(d), d # c
      PROVE  FALSE
  <2>1. d \in InFlight /\ pc'[c] = pc[c]
    BY <1>1, <1>3 DEF Act, Reject, DryRun, PlanWrite, Write, RefuseRange, ReadBackWritten,
                      Retry, GiveUp, Fail, Finish, InFlight
  <2> QED BY <1>0, <1>1, <1>3, <2>1, TheOthersIdle
<1>4. ASSUME Act(c)
      PROVE  PlanWrite(c) \/ Retry(c)
  BY <1>1, <1>4 DEF Act, Reject, DryRun, Write, RefuseRange, ReadBackWritten,
                    GiveUp, Fail, Finish
<1>5. ASSUME Retry(c)
      PROVE  /\ pc[c] = "writing" /\ plan'[c] = plan[c] /\ req'[c] = req[c]
             /\ sheet' = sheet \/ (Fits(c) /\ Apply(c))
  BY <1>5 DEF Retry, Effect
<1>6. ~Restart
  BY <1>1 DEF Restart, InFlight
<1>7. ~Owner
  <2> SUFFICES ASSUME Owner PROVE FALSE
    OBVIOUS
  <2>1. InFlight = {} /\ UNCHANGED pc
    BY <1>0, OwnerEdits DEF Free, callVars
  <2> QED BY <2>1 DEF InFlight
<1>8. ASSUME Tick \/ Quiet \/ UNCHANGED vars
      PROVE  UNCHANGED <<sheet, pc, plan, req>>
  BY <1>8 DEF Tick, Quiet, vars, callVars
<1> QED BY <1>2, <1>3, <1>4, <1>5, <1>6, <1>7, <1>8 DEF Next

LEMMA WhoChangesTheTab ==
  ASSUME GridIInv, [Next]_vars, sheet' # sheet
  PROVE  Owner \/ \E c \in Clients : pc[c] = "writing" /\ Fits(c) /\ Apply(c)
<1>1. ASSUME NEW c \in Clients, Begin(c) \/ Refuse(c) \/ Describe(c) \/ Act(c)
      PROVE  ServerStep
  <2>1. CASE Begin(c) \/ Refuse(c)
    BY <2>1 DEF Begin, Refuse, Accept, ServerStep
  <2>2. CASE Act(c)
    BY <2>2 DEF Act, Reject, DryRun, PlanWrite, Write, RefuseRange, ReadBackWritten,
                Retry, GiveUp, Fail, ownerVars, ServerStep
  <2>3. CASE Describe(c)
    BY <2>3 DEF Describe, ownerVars, ServerStep
  <2> QED BY <1>1, <2>1, <2>2, <2>3
<1>2. ASSUME Restart \/ Tick \/ Quiet \/ UNCHANGED vars
      PROVE  ServerStep
  BY <1>2 DEF Restart, Tick, Quiet, vars, ownerVars, ServerStep
<1> QED BY <1>1, <1>2, OnlyWritesChange DEF Next

LEMMA NextTidyInv ==
  ASSUME WholeCalendar, Exclusive, CloseOffsets, OrderlyOwner
  PROVE  TidyInv /\ [Next]_vars => TidyInv'
<1> SUFFICES ASSUME TidyInv, [Next]_vars PROVE TidyInv'
  OBVIOUS
<1>1. SerialInv /\ SerialInv' /\ GridIInv /\ sheet \in Tab /\ Tidy(sheet)
  BY NextSerialInv DEF TidyInv, SerialInv, GridIInv, VarsTyped
<1>2. Tidy(sheet')
  <2>1. CASE sheet' = sheet
    BY <1>1, <2>1
  <2>2. CASE Owner
    BY <1>1, <2>2, OwnerStaysTidy
  <2>3. ASSUME NEW c \in Clients, pc[c] = "writing", Fits(c), Apply(c)
        PROVE  Tidy(sheet')
    BY <2>3, AppliedIsTidy
  <2> QED BY <1>1, <2>1, <2>2, <2>3, WhoChangesTheTab
<1>3. ASSUME NEW c \in Clients, pc'[c] = "writing"
      PROVE  /\ req'[c].tool = "set" => InABlock(sheet', plan'[c])
             /\ req'[c].tool = "create" => DayIn(plan'[c].heading) = 0
  <2>1. CASE PlanWrite(c)
    <3>1. /\ Ready(req[c]) /\ OutcomeOf(sheet, req[c]) = "write"
          /\ plan'[c] = PlanOf(sheet, req[c]) /\ UNCHANGED <<sheet, req>>
      BY <1>1, <2>1 DEF PlanWrite, GridIInv, VarsTyped, PlansTyped, MidCall
    <3> QED BY <1>1, <3>1, PlannedIsAimed
  <2>2. CASE /\ pc[c] = "writing" /\ plan'[c] = plan[c] /\ req'[c] = req[c]
             /\ sheet' = sheet \/ (Fits(c) /\ Apply(c))
    <3>1. Aimed(c)
      BY DEF TidyInv
    <3>2. CASE sheet' = sheet
      BY <2>2, <3>1, <3>2 DEF Aimed
    <3>3. CASE Fits(c) /\ Apply(c)
      BY <2>2, <3>1, <3>3, AppliedIsTidy DEF Aimed
    <3> QED BY <2>2, <3>2, <3>3
  <2> QED BY <1>1, <1>3, <2>1, <2>2, WritersStay
<1>4. (\A c \in Clients : Aimed(c))'
  BY <1>3 DEF Aimed
<1> QED BY <1>1, <1>2, <1>4 DEF TidyInv

\* Blocks are made one per month: however often a write is repeated and whatever
\* the owner does to the blocks in between, a month's plain name heads one block
\* at most, so that set_grid_value has no choice of blocks.
THEOREM MonthsHaveOneBlock ==
  ASSUME WholeCalendar, Exclusive, CloseOffsets, OrderlyOwner
  PROVE  Spec => []OneBlockPerMonth
<1>1. Init => TidyInv
  BY InitSerialInv DEF Init, TidyInv, Aimed, OrderlyOwner
<1>2. TidyInv => OneBlockPerMonth
  BY OneIsNamed DEF TidyInv, SerialInv, GridIInv, VarsTyped, OneBlockPerMonth
<1> QED BY <1>1, <1>2, NextTidyInv, PTL DEF Spec

-----------------------------------------------------------------------------
(* The year of a block that was written.                                   *)

\* Blocks are asked for the current month only, and a year has several.
CurrentMonthOnly ==
  /\ MonthsInYear > 1
  /\ \A r \in Requests : r.tool = "create" => r.period \in {Today, Unread}

\* The month of a call that makes a block is today's, or yesterday's where a
\* midnight has passed since.
OfItsDay(c) ==
  (c \in InFlight /\ req[c].tool = "create") =>
    IF c \in overnight
    THEN \E d \in Date : today = NextDay(d) /\ req[c].period = <<d.year, d.month>>
    ELSE req[c].period = <<today.year, today.month>>

DayInv == SerialInv /\ \A c \in Clients : OfItsDay(c)

LEMMA NextDayInv ==
  ASSUME WholeCalendar, Exclusive, CurrentMonthOnly
  PROVE  DayInv /\ [Next]_vars => DayInv'
<1> SUFFICES ASSUME DayInv, [Next]_vars, NEW c \in Clients, c \in InFlight',
                    req'[c].tool = "create"
             PROVE  IF c \in overnight'
                    THEN \E d \in Date : today' = NextDay(d) /\ req'[c].period = <<d.year, d.month>>
                    ELSE req'[c].period = <<today'.year, today'.month>>
  BY NextSerialInv DEF DayInv, OfItsDay
<1>1. /\ pc \in [Clients -> {"idle", "reading", "writing", "checking", "done"}]
      /\ req \in [Clients -> Request \cup {None}] /\ today \in Date /\ OfItsDay(c)
  BY DEF DayInv, SerialInv, GridIInv, VarsTyped
<1>2. CASE /\ c \in InFlight
           /\ req'[c] = req[c] /\ today' = today /\ (c \in overnight' <=> c \in overnight)
  BY <1>1, <1>2 DEF OfItsDay
<1>3. CASE Begin(c)
  <2>1. PICK r \in Requests : Valid(r) /\ Accept(c, Resolved(r))
    BY <1>3 DEF Begin
  <2>2. req'[c] = Resolved(r) /\ c \notin overnight' /\ today' = today
    BY <1>1, <2>1 DEF Accept
  <2>3. r \in SetRequest \/ r \in CreateRequest
    BY ToolsAssumption DEF Request
  <2>4. CASE r \in SetRequest
    <3>1. Resolved(r).tool = "set"
      BY <2>4 DEF Resolved, SetRequest
    <3> QED BY <2>2, <3>1
  <2>5. CASE r \in CreateRequest
    <3>1. r.tool = "create" /\ r.period = Today
      BY <2>1, <2>5 DEF CreateRequest, CurrentMonthOnly, Valid
    <3>2. Resolved(r).period = <<today.year, today.month>>
      BY <2>5, <3>1 DEF Resolved, CreateRequest
    <3> QED BY <2>2, <3>2
  <2> QED BY <2>3, <2>4, <2>5
<1>4. CASE Refuse(c) \/ Describe(c)
  <2>1. pc'[c] = "done"
    BY <1>1, <1>4 DEF Refuse, Describe, Finish
  <2> QED BY <2>1 DEF InFlight
<1>5. ASSUME NEW d \in Clients \ {c}, Begin(d) \/ Refuse(d) \/ Describe(d)
      PROVE  /\ c \in InFlight
             /\ req'[c] = req[c] /\ today' = today /\ (c \in overnight' <=> c \in overnight)
  BY <1>1, <1>5 DEF Begin, Refuse, Describe, Accept, Finish, ownerVars, InFlight
<1>6. ASSUME NEW d \in Clients, Act(d)
      PROVE  /\ c \in InFlight
             /\ req'[c] = req[c] /\ today' = today /\ (c \in overnight' <=> c \in overnight)
  <2>1. UNCHANGED <<req, today, overnight>>
    BY <1>6 DEF Act, Reject, DryRun, PlanWrite, Write, RefuseRange, ReadBackWritten,
                Retry, GiveUp, Fail, ownerVars
  <2>2. d \in InFlight /\ (UNCHANGED pc \/ \E v : pc' = [pc EXCEPT ![d] = v])
    BY <1>6 DEF Act, Reject, DryRun, PlanWrite, Write, RefuseRange, ReadBackWritten,
                Retry, GiveUp, Fail, Finish, InFlight
  <2>3. c \in InFlight
    BY <1>1, <2>2 DEF InFlight
  <2> QED BY <2>1, <2>3
<1>7. CASE Restart
  BY <1>1, <1>7 DEF Restart, InFlight
<1>8. CASE Owner \/ Quiet \/ UNCHANGED vars
  <2>1. UNCHANGED <<pc, req, today, overnight>>
    BY <1>1, <1>8, OwnerEdits DEF DayInv, SerialInv, GridIInv, VarsTyped, Quiet, vars,
                               callVars, ownerVars
  <2> QED BY <1>2, <2>1 DEF InFlight
<1>9. CASE Tick
  <2>1. /\ c \in InFlight /\ c \notin overnight /\ c \in overnight'
        /\ req'[c] = req[c] /\ today' = NextDay(today)
    BY <1>9 DEF Tick, callVars, InFlight
  <2>2. req[c].period = <<today.year, today.month>>
    BY <1>1, <2>1 DEF OfItsDay
  <2> QED BY <1>1, <2>1, <2>2
<1> QED
  BY <1>2, <1>3, <1>4, <1>5, <1>6, <1>7, <1>8, <1>9 DEF Next

LEMMA DayInvariance ==
  ASSUME WholeCalendar, Exclusive, CurrentMonthOnly
  PROVE  Spec => []DayInv
<1>1. Init => DayInv
  BY InitSerialInv DEF Init, DayInv, OfItsDay, InFlight
<1> QED BY <1>1, NextDayInv, PTL DEF Spec

\* The newest block of a month is of this year, today and on the day after, when
\* the year may be a new one.
LEMMA SeededByItsDay ==
  ASSUME MonthsInYear > 1, NEW d \in Date
  PROVE  SeedYear(d.month, d) = d.year /\ SeedYear(d.month, NextDay(d)) = d.year
<1>1. d.year \in Int /\ d.month \in Nat \ {0} /\ d.month <= MonthsInYear
      /\ MonthsInYear \in Nat \ {0}
  BY GridAssumption DEF Date, Months
<1>2. SeedYear(d.month, d) = d.year
  BY <1>1 DEF SeedYear
<1>3. CASE d.day < DaysIn[<<d.year, d.month>>]
  <2>1. NextDay(d).year = d.year /\ NextDay(d).month = d.month
    BY <1>3 DEF NextDay, Date
  <2> QED BY <1>1, <1>2, <2>1 DEF SeedYear
<1>4. CASE ~(d.day < DaysIn[<<d.year, d.month>>]) /\ d.month < MonthsInYear
  <2>1. NextDay(d).year = d.year /\ NextDay(d).month = d.month + 1
    BY <1>4 DEF NextDay, Date
  <2> QED BY <1>1, <1>2, <2>1 DEF SeedYear
<1>5. CASE ~(d.day < DaysIn[<<d.year, d.month>>]) /\ ~(d.month < MonthsInYear)
  <2>1. NextDay(d) = [year |-> d.year + 1, month |-> 1, day |-> 1]
    BY <1>5 DEF NextDay
  <2> QED BY <1>1, <1>2, <1>5, <2>1 DEF SeedYear
<1> QED BY <1>3, <1>4, <1>5

\* Nothing that is a block lies below one that stands, so that its year is the
\* calendar's.
LEMMA StandingIsNewest ==
  ASSUME SerialInv, CloseOffsets, NEW c \in Clients, Created(c), req[c].period[2] \in Months
  PROVE  \E p \in Recognised(sheet) :
           /\ p.first = plan[c].first /\ MonthOf(p) = req[c].period[2]
           /\ YearOf(sheet, today)[p] = SeedYear(req[c].period[2], today)
<1> DEFINE b == plan[c]
           m == req[c].period[2]
           p == [name |-> b.name, header |-> b.header, label |-> b.label,
                 first |-> b.first, last |-> b.last]
<1>1. /\ Named(sheet, m) = {p} /\ Close(b) /\ Stands(sheet, b) /\ sheet \in Tab
      /\ b \in BlockPlan /\ b.name = MonthHeader(m, 0)
  BY StandingIsNamed DEF BlockPlanOK
<1>2. m # 0 /\ today \in Date
  BY GridAssumption DEF Months, SerialInv, GridIInv, VarsTyped
<1>3. p \in Periods(sheet) /\ MonthOf(p) = m /\ ExplicitYear(p) = 0 /\ p.first = b.first
  <2>1. p \in Named(sheet, m) /\ p.name = MonthHeader(m, 0) /\ p.first = b.first
    BY <1>1
  <2> HIDE DEF p
  <2> QED BY <2>1 DEF Named, MonthOf, ExplicitYear, MonthHeader
<1>4. p \in Recognised(sheet)
  <2> HIDE DEF p
  <2> QED BY <1>2, <1>3 DEF Recognised
<1>5. ASSUME NEW q \in Recognised(sheet), b.first < q.first
      PROVE  FALSE
  <2>1. q \in Periods(sheet)
    BY DEF Recognised
  <2>2. q.first \in RunStarts(sheet)
    BY <2>1 DEF Periods, PeriodAt
  <2>3. q.first \in Rows /\ Day(sheet, q.first) = 1
    BY <2>2 DEF RunStarts
  <2>4. b.header \in Nat /\ q.first \in Nat /\ b.first = b.header + 2
    BY <1>1, <2>3 DEF BlockPlan, Close, Rows
  <2>5. q.first > b.header
    BY <1>5, <2>4
  <2>6. Day(sheet, q.first) = IF b.first <= q.first /\ q.first <= b.last
                              THEN q.first - b.first + 1 ELSE 0
    <3> HIDE DEF b
    <3> QED BY <1>1, <2>3, <2>5, StandingDays
  <2> HIDE DEF b
  <2> QED BY <1>5, <2>3, <2>4, <2>6
<1>6. BelowOf(sheet, p) = {}
  <2> HIDE DEF p, b
  <2> QED BY <1>3, <1>5 DEF BelowOf
<1>7. YearOf(sheet, today)[p] = SeedYear(m, today)
  <2> HIDE DEF p, m
  <2>1. YearOf(sheet, today)[p] = YearRule(sheet, today, YearOf(sheet, today), p)
    BY <1>1, <1>2, <1>4, YearsFollowTheRule
  <2> QED BY <1>3, <1>6, <2>1 DEF YearRule
<1> HIDE DEF p, m, b
<1>8. \E x \in Recognised(sheet) : x.first = b.first /\ MonthOf(x) = m
                                   /\ YearOf(sheet, today)[x] = SeedYear(m, today)
  BY <1>3, <1>4, <1>7
<1> QED BY <1>8 DEF b, m

\* The block that was written for the current month is dated to the month and
\* the year it was made for, even when midnight ends the year meanwhile.
THEOREM CreatedIsDated ==
  ASSUME WholeCalendar, Exclusive, CloseOffsets, CurrentMonthOnly
  PROVE  Spec => []CreatedBlockIsDated
<1>1. DayInv => CreatedBlockIsDated
  <2> SUFFICES ASSUME DayInv, NEW c \in Clients, Created(c)
               PROVE  \E p \in Dated(sheet, today, req[c].period[1], req[c].period[2]) :
                        p.first = plan[c].first
    BY DEF CreatedBlockIsDated
  <2>1. SerialInv /\ OfItsDay(c) /\ c \in InFlight /\ req[c].tool = "create" /\ today \in Date
    BY DEF DayInv, Created, InFlight, SerialInv, GridIInv, VarsTyped
  <2>2. PICK d \in Date : /\ req[c].period = <<d.year, d.month>>
                          /\ today = d \/ today = NextDay(d)
    BY <2>1 DEF OfItsDay
  <2>3. req[c].period[1] = d.year /\ req[c].period[2] = d.month /\ d.month \in Months
    BY <2>2 DEF Date
  <2>4. SeedYear(d.month, today) = d.year
    BY <2>2, SeededByItsDay DEF CurrentMonthOnly
  <2>5. PICK p \in Recognised(sheet) :
          /\ p.first = plan[c].first /\ MonthOf(p) = d.month
          /\ YearOf(sheet, today)[p] = SeedYear(d.month, today)
    BY <2>1, <2>3, StandingIsNewest
  <2> QED BY <2>3, <2>4, <2>5 DEF Dated
<1> QED BY <1>1, DayInvariance, PTL
=============================================================================
