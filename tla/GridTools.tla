----------------------------- MODULE GridTools ------------------------------
(***************************************************************************)
(* set_grid_value and create_period_block (tools/grid_tools.py) on one     *)
(* tab, with describe_profile, the owner who edits the tab, and the days   *)
(* that pass. A call validates its arguments, reads the tab, decides from  *)
(* that reading, writes and reads back; other calls, the owner and         *)
(* midnight come in wherever it awaits the API. An operation of the API is *)
(* retried, given up or failed as in LogSession: a failed write may have   *)
(* been applied.                                                           *)
(***************************************************************************)
EXTENDS GridDates, Registry

CONSTANTS Clients,      \* each has one call at a time
          Requests,     \* the arguments a call may carry
          InitSheets,   \* tabs the server may find
          FirstDay,     \* the day it starts
          Step,         \* duration_step, in quarter hours
          OwnerTexts,   \* what the owner types into a day's cell
          OwnerLabels,  \* labels the owner gives a column
          MaxAttempts,  \* _MAX_ATTEMPTS of the retry loop
          MaxCalls,     \* calls made in all
          MaxEdits,     \* changes by the owner in all
          LastDay,      \* no day after this one
          Exclusive,    \* calls do not overlap, nor edits with calls
          KeepsUp,      \* a month's plain header is marked before it returns
          Today, Yesterday, Unread,  \* what `when` and `period` may say
          None          \* no request, no plan

NextDay(d) ==
  IF d.day < DaysIn[<<d.year, d.month>>] THEN [d EXCEPT !.day = @ + 1]
  ELSE IF d.month < MonthsInYear
  THEN [d EXCEPT !.month = @ + 1, !.day = 1]
  ELSE [year |-> d.year + 1, month |-> 1, day |-> 1]

DayBefore(d) ==
  IF d.day > 1 THEN [d EXCEPT !.day = @ - 1]
  ELSE LET y == IF d.month > 1 THEN d.year ELSE d.year - 1
           m == IF d.month > 1 THEN d.month - 1 ELSE MonthsInYear
       IN [year |-> y, month |-> m, day |-> DaysIn[<<y, m>>]]

DurationTypes == {"duration-tally", "duration-hours"}
Value == [kind : Kinds \cup {"number"}, n : Int, year : Nat]

SetRequest ==
  [tool : {"set"}, profile : STRING, column : Text, value : Value,
   when : Date \cup {Today, Yesterday, Unread}, mode : STRING, dryRun : BOOLEAN]
CreateRequest ==
  [tool : {"create"}, profile : STRING, period : DOMAIN DaysIn \cup {Today, Unread},
   labels : Seq(Text), dryRun : BOOLEAN]
Request == SetRequest \cup CreateRequest

SetPlan == [row : Rows, col : 0..Width, previous : Text, text : Text, hours : Int,
            label : Text]

ASSUME ToolsAssumption ==
  /\ IsFiniteSet(Clients)
  /\ Requests \subseteq Request
  /\ InitSheets \subseteq Tab
  /\ FirstDay \in Date /\ LastDay \in Date
  /\ OwnerTexts \subseteq Text /\ OwnerLabels \subseteq Text
  /\ Step \in Nat \ {0}
  /\ MaxAttempts \in Nat \ {0}
  /\ MaxCalls \in Nat /\ MaxEdits \in Nat
  /\ Exclusive \in BOOLEAN /\ KeepsUp \in BOOLEAN
  /\ None \notin Request

VARIABLES sheet,     \* the tab
          today,     \* dates.today in the server's timezone
          pc,        \* where each client's call is
          req,       \* its arguments, dates resolved
          plan,      \* what it will write
          tries,     \* attempts made of the operation it awaits
          outcome,   \* what the client was told
          readback,  \* the text the response says was found after the write
          advice,    \* current_period_exists, as far as it is still fresh
          overnight, \* calls during which a midnight has passed
          made,      \* calls so far
          edits      \* the owner's changes so far

callVars == <<pc, req, plan, tries, outcome, readback, made>>
ownerVars == <<today, overnight, edits>>
vars == <<sheet, advice, callVars, ownerVars>>

InFlight == {c \in Clients : pc[c] \notin {"idle", "done"}}

Outcomes == {"none", "invalid", "period_missing", "column_not_found",
             "day_out_of_range", "unparseable", "period_exists", "dry_run", "ok",
             "bad_range", "upstream", "failed", "lost"}

IsBlockPlan(p) ==
  /\ DOMAIN p = {"name", "heading", "labels", "header", "label", "first", "last"}
  /\ p.name \in Text \ {Blank} /\ p.heading \in Text
  /\ {p.header, p.label, p.first, p.last} \subseteq Int
  /\ DOMAIN p.labels # {} /\ IsFiniteSet(DOMAIN p.labels)
  /\ \A c \in DOMAIN p.labels : c \in Nat /\ c > DayColumn /\ p.labels[c] \in Text

VarsTyped ==
  /\ sheet \in Tab
  /\ today \in Date
  /\ pc \in [Clients -> {"idle", "reading", "writing", "checking", "done"}]
  /\ req \in [Clients -> Request \cup {None}]
  /\ tries \in [Clients -> 0..MaxAttempts]
  /\ outcome \in [Clients -> Outcomes]
  /\ readback \in [Clients -> Text]
  /\ advice \in [Clients -> {"none", "exists", "missing"}]
  /\ overnight \subseteq Clients
  /\ made \in 0..MaxCalls
  /\ edits \in 0..MaxEdits

\* Every variable has its type.
TypeOK ==
  /\ VarsTyped
  /\ \A c \in Clients : plan[c] = None \/ plan[c] \in SetPlan \/ IsBlockPlan(plan[c])

Init ==
  /\ sheet \in InitSheets
  /\ today = FirstDay
  /\ pc = [c \in Clients |-> "idle"]
  /\ req = [c \in Clients |-> None]
  /\ plan = [c \in Clients |-> None]
  /\ tries = [c \in Clients |-> 0]
  /\ outcome = [c \in Clients |-> "none"]
  /\ readback = [c \in Clients |-> Blank]
  /\ advice = [c \in Clients |-> "none"]
  /\ overnight = {}
  /\ made = 0
  /\ edits = 0

\* Whoever wants to act now may.
Free == Exclusive => InFlight = {}

\* What was said of the tab no longer counts.
Forget == advice' = [c \in Clients |-> "none"]

-----------------------------------------------------------------------------
(* Arguments.                                                              *)

Modes == {"set", "increment"}

\* The checks before the API is called: _require_grid, the mode, and a date or
\* period that can be read.
Valid(r) ==
  /\ HasLayout(r.profile, "grid")
  /\ r.tool = "set" => r.mode \in Modes /\ r.when # Unread
  /\ r.tool = "create" => r.period # Unread

\* Today is what the server's clock says when the call comes in.
Resolved(r) ==
  IF r.tool = "set"
  THEN [r EXCEPT !.when = IF @ = Today THEN today
                          ELSE IF @ = Yesterday THEN DayBefore(today) ELSE @]
  ELSE [r EXCEPT !.period = IF @ = Today THEN <<today.year, today.month>> ELSE @]

Callable(c) == pc[c] \in {"idle", "done"} /\ made < MaxCalls /\ Free

Accept(c, r) ==
  /\ req' = [req EXCEPT ![c] = r]
  /\ plan' = [plan EXCEPT ![c] = None]
  /\ readback' = [readback EXCEPT ![c] = Blank]
  /\ made' = made + 1
  /\ overnight' = overnight \ {c}
  /\ UNCHANGED <<sheet, advice, today, edits>>

\* The call is accepted: it now awaits its read.
Begin(c) ==
  /\ Callable(c)
  /\ \E r \in Requests : Valid(r) /\ Accept(c, Resolved(r))
  /\ pc' = [pc EXCEPT ![c] = "reading"]
  /\ tries' = [tries EXCEPT ![c] = 1]
  /\ outcome' = [outcome EXCEPT ![c] = "none"]

Finish(c, result) ==
  /\ pc' = [pc EXCEPT ![c] = "done"]
  /\ outcome' = [outcome EXCEPT ![c] = result]
  /\ tries' = [tries EXCEPT ![c] = 0]

\* PROFILE_NOT_FOUND, WRONG_LAYOUT or a ValidationError.
Refuse(c) ==
  /\ Callable(c)
  /\ \E r \in Requests : ~Valid(r) /\ Accept(c, r)
  /\ Finish(c, "invalid")

-----------------------------------------------------------------------------
(* describe_profile.                                                       *)

\* Fault: a header that merely mentions the month counts.
MentionedPeriodExists ==
  \E p \in Periods(sheet) : MonthOf(p) = today.month

CurrentPeriodExists == Named(sheet, today.month) # {}

\* The client is told whether this month has a block: it should write, or
\* create the block first. A tab without blocks is described by a note only.
Describe(c) ==
  /\ pc[c] \in {"idle", "done"}
  /\ Free
  /\ Periods(sheet) # {}
  /\ advice' = [advice EXCEPT ![c] = IF CurrentPeriodExists THEN "exists" ELSE "missing"]
  /\ Finish(c, "none")
  /\ UNCHANGED <<sheet, req, plan, readback, made, ownerVars>>

-----------------------------------------------------------------------------
(* set_grid_value: everything decided from the reading.                    *)

\* value_type of the profile asked for.
ValueType(r) ==
  LET i == CHOOSE i \in Resolve(r.profile) : TRUE IN Profiles[i].valueType

\* A number is taken as hours, a text as what a cell with it would hold.
Readable(v) == v.kind = "number" \/ Parse(v) # Unreadable
AsHours(v) == IF v.kind = "number" THEN v.n ELSE Parse(v)
AsText(v) == IF v.kind = "number" THEN Hours(v.n) ELSE v

\* Rounded after the addition.
NewHours(r, previous) ==
  RoundToStep(AsHours(r.value) + (IF r.mode = "increment" THEN Parse(previous) ELSE 0),
              Step)

\* Fault: the amount is reported as it came.
UnroundedPlan(r, where, previous, label) ==
  [row |-> where[1], col |-> where[2], previous |-> previous, label |-> label,
   text |-> Render(NewHours(r, previous), ValueType(r)),
   hours |-> AsHours(r.value) + (IF r.mode = "increment" THEN Parse(previous) ELSE 0)]

\* What the response says, and what the write will put there. Values that are
\* no durations are stored as they are, and no hours are reported.
ValuePlan(r, where, previous, label) ==
  [row |-> where[1], col |-> where[2], previous |-> previous, label |-> label,
   text |-> IF ValueType(r) \in DurationTypes
            THEN Render(NewHours(r, previous), ValueType(r)) ELSE AsText(r.value),
   hours |-> IF ValueType(r) \in DurationTypes THEN NewHours(r, previous) ELSE 0]

\* A value that cannot be read as a duration, or an increment of what is none.
BadValue(r) ==
  IF ValueType(r) \in DurationTypes THEN ~Readable(r.value) ELSE r.mode = "increment"

\* An increment of a cell that cannot be read.
BadCell(r, previous) ==
  /\ ValueType(r) \in DurationTypes
  /\ r.mode = "increment"
  /\ Parse(previous) = Unreadable

\* The block is found by the month's name alone: whichever is topmost.
SetOutcome(s, r) ==
  LET p == Topmost(Named(s, r.when.month))
      row == DayRow(p, r.when.day)
      col == ResolveColumn(s, p, r.column)
  IN CASE Named(s, r.when.month) = {} -> "period_missing"
       [] Named(s, r.when.month) # {} /\ col = 0 -> "column_not_found"
       [] Named(s, r.when.month) # {} /\ col # 0 /\ row = 0 -> "day_out_of_range"
       [] OTHER -> IF BadValue(r) THEN "invalid"
                   ELSE IF BadCell(r, s[row][col]) THEN "unparseable"
                   ELSE IF r.dryRun THEN "dry_run" ELSE "write"

\* Fault: rows counted from 0 and from 1 are mixed up.
PlanSetRowBelow(s, r) ==
  LET p == Topmost(Named(s, r.when.month))
      row == DayRow(p, r.when.day)
      col == ResolveColumn(s, p, r.column)
  IN ValuePlan(r, <<row, col>>, s[row + 1][col], s[p.label][col])

PlanSet(s, r) ==
  LET p == Topmost(Named(s, r.when.month))
      row == DayRow(p, r.when.day)
      col == ResolveColumn(s, p, r.column)
  IN ValuePlan(r, <<row, col>>, s[row][col], s[p.label][col])

-----------------------------------------------------------------------------
(* create_period_block: the same.                                          *)

\* Fault: only the newest block is looked at.
CreateUnlessNewest(s, r) ==
  IF Periods(s) # {} /\ Lowest(Periods(s)) \in Named(s, r.period[2])
  THEN "period_exists"
  ELSE IF r.dryRun THEN "dry_run" ELSE "write"

CreateOutcome(s, r) ==
  IF Named(s, r.period[2]) # {} THEN "period_exists"
  ELSE IF r.dryRun THEN "dry_run" ELSE "write"

PlanCreate(s, r) == PlanBlock(s, r.period[1], r.period[2], r.labels)

-----------------------------------------------------------------------------
(* From the read to the answer.                                            *)

OutcomeOf(s, r) == IF r.tool = "set" THEN SetOutcome(s, r) ELSE CreateOutcome(s, r)
PlanOf(s, r) == IF r.tool = "set" THEN PlanSet(s, r) ELSE PlanCreate(s, r)

\* The reading shows that the call cannot be done: nothing is written.
Reject(c) ==
  /\ pc[c] = "reading"
  /\ OutcomeOf(sheet, req[c]) \notin {"dry_run", "write"}
  /\ Finish(c, OutcomeOf(sheet, req[c]))
  /\ UNCHANGED <<sheet, req, plan, readback, advice, made, ownerVars>>

\* A dry run answers with the plan.
DryRun(c) ==
  /\ pc[c] = "reading"
  /\ OutcomeOf(sheet, req[c]) = "dry_run"
  /\ plan' = [plan EXCEPT ![c] = PlanOf(sheet, req[c])]
  /\ Finish(c, "dry_run")
  /\ UNCHANGED <<sheet, req, readback, advice, made, ownerVars>>

PlanWrite(c) ==
  /\ pc[c] = "reading"
  /\ OutcomeOf(sheet, req[c]) = "write"
  /\ plan' = [plan EXCEPT ![c] = PlanOf(sheet, req[c])]
  /\ pc' = [pc EXCEPT ![c] = "writing"]
  /\ tries' = [tries EXCEPT ![c] = 1]
  /\ UNCHANGED <<sheet, req, outcome, readback, advice, made, ownerVars>>

\* What the write covers: one cell, or a whole block.
PlannedCells(c) ==
  IF req[c].tool = "set"
  THEN [x \in {<<plan[c].row, plan[c].col>>} |-> plan[c].text]
  ELSE BlockCells(plan[c])

Fits(c) == req[c].tool = "create" => BlockFits(plan[c])

Apply(c) == sheet' = Overwrite(sheet, PlannedCells(c)) /\ Forget

\* values.update succeeds and the response arrives.
Write(c) ==
  /\ pc[c] = "writing"
  /\ Fits(c)
  /\ Apply(c)
  /\ pc' = [pc EXCEPT ![c] = "checking"]
  /\ tries' = [tries EXCEPT ![c] = 1]
  /\ UNCHANGED <<req, plan, outcome, readback, made, ownerVars>>

\* A 400 for the range: not retried.
RefuseRange(c) ==
  /\ pc[c] = "writing"
  /\ ~Fits(c)
  /\ Finish(c, "bad_range")
  /\ UNCHANGED <<sheet, req, plan, readback, advice, made, ownerVars>>

\* The response carries the text of the cell, or whether a block with the
\* planned name is there; here, that name if it is.
Found(c) ==
  IF req[c].tool = "set" THEN sheet[plan[c].row][plan[c].col]
  ELSE IF \E p \in Periods(sheet) : p.name = plan[c].name THEN plan[c].name
  ELSE Blank

ReadBackWritten(c) ==
  /\ pc[c] = "checking"
  /\ readback' = [readback EXCEPT ![c] = Found(c)]
  /\ Finish(c, "ok")
  /\ UNCHANGED <<sheet, req, plan, advice, made, ownerVars>>

-----------------------------------------------------------------------------
(* Failures of an API operation.                                           *)

\* What a failed attempt may have done: a write may have been applied.
Effect(c) ==
  \/ UNCHANGED <<sheet, advice>>
  \/ pc[c] = "writing" /\ Fits(c) /\ Apply(c)

\* Fault: one attempt too many.
RetryOnceMore(c) ==
  /\ c \in InFlight
  /\ tries[c] <= MaxAttempts
  /\ tries' = [tries EXCEPT ![c] = tries[c] + 1]
  /\ Effect(c)
  /\ UNCHANGED <<pc, req, plan, outcome, readback, made, ownerVars>>

\* 429 or 5xx with attempts left: the same request is sent again.
Retry(c) ==
  /\ c \in InFlight
  /\ tries[c] < MaxAttempts
  /\ tries' = [tries EXCEPT ![c] = tries[c] + 1]
  /\ Effect(c)
  /\ UNCHANGED <<pc, req, plan, outcome, readback, made, ownerVars>>

\* 429 or 5xx on the last attempt: RateLimited or UpstreamError.
GiveUp(c) ==
  /\ c \in InFlight
  /\ tries[c] = MaxAttempts
  /\ Finish(c, "upstream")
  /\ Effect(c)
  /\ UNCHANGED <<req, plan, readback, made, ownerVars>>

\* A failure that is never retried.
Fail(c) ==
  /\ c \in InFlight
  /\ Finish(c, "failed")
  /\ Effect(c)
  /\ UNCHANGED <<req, plan, readback, made, ownerVars>>

\* The process stops: the calls in flight are never answered.
Restart ==
  /\ InFlight # {}
  /\ pc' = [c \in Clients |-> IF c \in InFlight THEN "done" ELSE pc[c]]
  /\ outcome' = [c \in Clients |-> IF c \in InFlight THEN "lost" ELSE outcome[c]]
  /\ tries' = [c \in Clients |-> 0]
  /\ UNCHANGED <<sheet, req, plan, readback, advice, made, ownerVars>>

-----------------------------------------------------------------------------
(* The owner, and the calendar.                                            *)

\* One change, made where the owner may act at all.
Edit(cells) ==
  /\ edits < MaxEdits
  /\ Free
  /\ sheet' = Overwrite(sheet, cells)
  /\ edits' = edits + 1
  /\ Forget
  /\ UNCHANGED <<callVars, today, overnight>>

\* A day's cell is filled in by hand, or its day number overwritten.
EditValue ==
  \E p \in Periods(sheet), t \in OwnerTexts :
    \E r \in p.first .. p.last, c \in LabelColumns(sheet, p) \cup {DayColumn} :
      /\ sheet[r][c] # t
      /\ Edit([x \in {<<r, c>>} |-> t])

\* An activity is replaced by another.
Relabel ==
  \E p \in Periods(sheet), label \in OwnerLabels :
    \E c \in LabelColumns(sheet, p) :
      /\ \A d \in LabelColumns(sheet, p) : sheet[p.label][d] # label
      /\ Edit([x \in {<<p.label, c>>} |-> label])

\* A header gets the year of its block; of a past month's, if the owner only
\* does it in order to keep up.
MarkYear ==
  \E p \in Recognised(sheet) :
    LET year == YearOf(sheet, today)[p]
    IN /\ ExplicitYear(p) = 0 /\ year \in Nat \ {0}
       /\ KeepsUp => <<year, MonthOf(p)>> # <<today.year, today.month>>
       /\ Edit([x \in {<<p.header, Min(Filled(sheet, p.header))>>} |->
                 MonthHeader(MonthOf(p), year)])

\* Something is noted below everything, in a row without a day number.
StrayRow ==
  /\ LastPopulatedRow(sheet) + 2 <= MaxRow
  /\ \E t \in OwnerTexts :
       Edit([x \in {<<LastPopulatedRow(sheet) + 2, DayColumn + 1>>} |-> t])

Owner == EditValue \/ Relabel \/ MarkYear \/ StrayRow

\* When a month returns, its plain header must be this year's.
MonthIsNew(date) ==
  \A p \in Named(sheet, date.month) : YearOf(sheet, today)[p] = date.year

\* Midnight. No call lasts longer than a day.
Tick ==
  /\ today # LastDay
  /\ InFlight \cap overnight = {}
  /\ KeepsUp => MonthIsNew(NextDay(today))
  /\ today' = NextDay(today)
  /\ overnight' = InFlight
  /\ Forget
  /\ UNCHANGED <<sheet, callVars, edits>>

-----------------------------------------------------------------------------
(* Specification.                                                          *)

\* No calls and no days are left: nothing more is modelled.
Quiet ==
  /\ made = MaxCalls
  /\ InFlight = {}
  /\ UNCHANGED vars

Act(c) ==
  \/ Reject(c) \/ DryRun(c) \/ PlanWrite(c)
  \/ Write(c) \/ RefuseRange(c) \/ ReadBackWritten(c)
  \/ Retry(c) \/ GiveUp(c) \/ Fail(c)

Next ==
  \/ \E c \in Clients : Begin(c) \/ Refuse(c) \/ Describe(c) \/ Act(c)
  \/ Restart
  \/ Owner
  \/ Tick
  \/ Quiet

Spec == Init /\ [][Next]_vars

-----------------------------------------------------------------------------
(* Properties.                                                             *)

ServerStep == edits' = edits

\* A call that is about to write one cell.
Setting(c) == pc[c] = "writing" /\ req[c].tool = "set"

\* "Writes are single-cell updates" and blocks go below everything
\* (models.py, grid.py): in a row that holds something the server changes only
\* the cell of a set_grid_value, whatever notes stand around the blocks and
\* however often a write is repeated.
RowsAreKept ==
  [][ServerStep =>
       \A r \in Rows : Populated(sheet[r]) =>
         \A col \in 0..Width : sheet'[r][col] # sheet[r][col] =>
           \E c \in Clients : Setting(c) /\ <<r, col>> = <<plan[c].row, plan[c].col>>]_sheet

\* "A response that always carries the cell's previous content": no text of a
\* cell is replaced that the response of that call does not name.
PreviousIsReplaced ==
  [][ServerStep =>
       \A r \in Rows, col \in 0..Width :
         (sheet[r][col] # Blank /\ sheet'[r][col] # sheet[r][col]) =>
           \E c \in Clients :
             /\ Setting(c)
             /\ <<r, col>> = <<plan[c].row, plan[c].col>>
             /\ sheet[r][col] = plan[c].previous
             /\ sheet'[r][col] = plan[c].text]_sheet

\* A client whose set_grid_value of a duration was answered with success.
Reported(c) ==
  outcome[c] = "ok" /\ req[c].tool = "set" /\ ValueType(req[c]) \in DurationTypes

\* "The rounded figure is reported back so you can tell the owner what was
\* actually recorded": the hours reported are the hours the cell reads back as.
\* It fails: a sum below zero is reported as it is, and leaves an empty cell.
ReportedIsRecorded ==
  \A c \in Clients : Reported(c) => Parse(readback[c]) = plan[c].hours

\* The same as far as the code keeps it: a figure that is not negative is the
\* one recorded, whichever notation, rounding and mode led to it; one below zero
\* was recorded as an empty cell.
PositiveIsRecorded ==
  \A c \in Clients : Reported(c) =>
    IF plan[c].hours >= 0 THEN Parse(readback[c]) = plan[c].hours
    ELSE readback[c] = Blank

\* `verified` of create_period_block tells whether the month now has a block that
\* readers find: it is false exactly if no label asked for can be seen.
VerifiedIsFound ==
  \A c \in Clients :
    (outcome[c] = "ok" /\ req[c].tool = "create") =>
      (readback[c] = plan[c].name) = (Shown(plan[c]) # {})

\* A block was just written that has a label to be found by. (A block without
\* one, which the code also accepts, is none to any later reading.)
Created(c) ==
  pc[c] = "checking" /\ req[c].tool = "create" /\ Shown(plan[c]) # {}

\* The block that was written is the one the next set_grid_value will use: found
\* by its name, where it was planned, with exactly the days of its month and
\* with the planned labels, but for those that no reading can see.
CreatedBlockIsUsable ==
  \A c \in Clients : Created(c) =>
    LET named == Named(sheet, req[c].period[2])
        p == Topmost(named)
    IN /\ named # {}
       /\ p.header = plan[c].header /\ p.label = plan[c].label
       /\ p.first = plan[c].first /\ p.last = plan[c].last
       /\ LabelColumns(sheet, p) = Shown(plan[c])
       /\ \A col \in Shown(plan[c]) : sheet[p.label][col] = plan[c].labels[col]
       /\ p.last - p.first + 1 = DaysIn[req[c].period]

\* ... and is dated to the month it was made for.
CreatedBlockIsDated ==
  \A c \in Clients : Created(c) =>
    \E p \in Dated(sheet, today, req[c].period[1], req[c].period[2]) :
      p.first = plan[c].first

\* "Refuses if a block for that period already exists": a month's name heads one
\* block, through repeated writes, dated headers, restarts and midnight.
OneBlockPerMonth == \A m \in Months : Cardinality(Named(sheet, m)) <= 1

\* The same, for the month of a year that the blocks are taken to be.
OneBlockPerPeriod ==
  \A period \in DOMAIN DaysIn :
    Cardinality(Dated(sheet, today, period[1], period[2])) <= 1

\* The protocol of describe_profile: a client that was told that the current
\* month has a block is not refused for want of one, and one that was told to
\* create it is not refused because it exists.
AdviceHolds ==
  \A c \in Clients :
    /\ advice[c] = "exists" =>
         ~(outcome[c] = "period_missing" /\ req[c].when.month = today.month)
    /\ advice[c] = "missing" =>
         ~(outcome[c] = "period_exists" /\ req[c].period[2] = today.month)
=============================================================================
