# sheets-mcp: a verification of the server's tools

sheets-mcp is an MCP server through which a language model keeps its owner's
Google Sheets: a training log (layout *dated-block*), a monthly time grid (layout
*grid*) and plain tables. The tabs belong to the owner, who edits them in the
Sheets app; the server holds no state of its own. Everything that can go wrong
lies between one request to the Sheets API and the next, and in what the tools
make of a tab that others have changed. This directory models that in TLA+,
checks it with TLC and proves part of it with TLAPS.

## Inventory

| Part | State | Operations | What makes it correct |
|---|---|---|---|
| dated-block layout (`layouts/dated_block.py`) | none | `scan_blocks`, `plan_session` | a planned range lies below everything populated; the blocks found are the owner's sessions |
| `log_session` (`tools/log_session.py`) | per call: target, plan | validate, read, refuse an earlier date, plan, write, read back | append-only; ordered blocks; true answers; every call answered |
| `update_row` (`tools/update_row.py`) | per call: targets, reading | validate, read, structural refusals, `expect`, batch write, read back | never another row than the one shown; never merges sessions; reports what it replaced |
| `find_row`, `query_rows` (`tools/read_tools.py`) | none | read, filter, rank, totals | what is shown is what is there; time counts for the day and label it was recorded under |
| grid layout (`layouts/grid.py`) | none | `scan_periods`, `resolve_column`, `plan_period_block`, `assign_dates` | a planned block is found again as planned; days belong to the right month and year |
| `set_grid_value` (`tools/grid_tools.py`) | per call: reading, plan | validate, read, find block, column and day, round, write one cell, read back | no addition lost; one cell touched; the replaced text is reported; what is reported is what the cell says |
| `create_period_block` (`tools/grid_tools.py`) | per call: reading, plan | validate, read, refuse an existing period, plan, write, read back | one block per month, below everything, usable by the next `set_grid_value`, or else not `verified` |
| `describe_profile`, `list_profiles` | none | summaries, `current_period_exists` | advice that the tools then bear out |
| durations (`durations.py`), dates (`dates.py`) | none | parse, round, render | writing and reading agree; rounding is the one the tools report |
| Sheets client (`sheets/client.py`) | per operation: attempt | retry loop `_run` in a worker thread | bounded; an answer is final |
| profile registry (`profiles/`, `runtime.py`) | loaded once | validate, resolve a name or alias, precedence of sources | a token names at most one profile; offsets and columns a layout can live with |
| auth, config, logging, errors, demo | lazily built client | glue | - |

Interaction: a tool is a coroutine on one event loop. It awaits the client once
to read, decides without awaiting, awaits to write, awaits to read back. Between
any two of these other tool calls run, the owner edits, midnight passes, and the process may
stop. The client runs each request in a worker thread and repeats it on 429 and 5xx.
There is no lock around a tool and no idempotency key (SPECIFICATION.md 9.3 is
not built), so *read, decide, write* is not atomic. That is the hard behaviour:
stale readings, repeated writes, lost answers, late requests. On a grid there is a
second one: the tab says nothing of years, so which day a row *is* depends on the
other blocks and on today. `PROJECT.json` lists the hazards at their lines.

## Modules

    DatedBlock            operators: a training tab, its blocks, the planned write
      LogSession          the log_session tool as a state machine
        TrainingLog       (abstract) an append-only, ordered log
      UpdateRow           the update_row tool as a state machine
      TrainingSheet       LogSession + UpdateRow + find_row + the owner, one tab
    Durations             cells of a grid and the time in them
      GridBlock           operators: a grid tab, its blocks, the planned block
        GridDates         which day a row is; the time recorded in a tab
          GridTools       both grid tools + describe_profile + the owner + the calendar, one tab
      TimeLedger          (abstract) time recorded under days and labels
    Registry              how a name finds a profile (used by LogSession and GridTools)
    SheetsClient          the retry loop around one API operation
      RemoteCall          (abstract) what the tools may assume of an operation
    BoundedSets, DatedBlockProofs, LogSessionProofs, UpdateRowProofs, TrainingSheetProofs,
    SheetsClientProofs, GridBlockProofs, GridToolsProofs
    MCLogSession, MCUpdateRow, MCTrainingSheet, MCSheetsClient, MCGridTools

**DatedBlock.** A tab is a function from rows to rows of text. Text is abstract: a
date is the day `dates.parse` reads it as, other text is a word, whitespace is
`Blank`. Column 0 stands for the profile's date and item column, which is column A
for both in `profiles.yaml`; columns `1..Width` are its value columns, and the tab has no
others (a stray text further right is a stray text in a value column).
`PlanSession` is `plan_session`; `BlockRow` is what `scan_blocks` makes of a row: a
blank row closes nothing. `ReadBack[d]` is what `dates.parse` makes of a date that
`dates.render` wrote, so that a lossy `write_date_format` can be expressed.
`Overwrite` is what `values.update` leaves. In every module, definitions whose comment
starts with "Fault:" are seeded mistakes: each shows that the property it is paired
with in `PROJECT.json` would notice that mistake.

**LogSession.** A call is `idle`, then awaits its read (`reading`), its write
(`writing`) and its read-back (`checking`), then is `done`. `PlanWrite`, `DryRun`
and `RefuseDate` are the code between the read's response and the next await,
which nothing interrupts. `Valid` is everything checked before: the profile and its
layout, the mode, the items, the date. The retry loop appears as `Retry` (429 or 5xx, attempts
left), `GiveUp` (last attempt) and `Fail` (anything else); each may or may not have
applied a write. `Restart` ends the process: nothing of a call survives. A write
beyond the grid is refused (`Fits`, `RefuseRange`). `MaxInFlight` bounds the calls
that overlap; a call counts until its outstanding request is settled, so
`MaxInFlight = 1` means that the client waits for an answer and, when it got none,
until nothing of the call is on its way.

**UpdateRow.** The same shape for `update_row`, on each of the three layouts: a grid is
refused before anything is read, a table protects its first row only, a dated block its
titles, separators and dates. `Writable` is `_check_row_is_writable`, `Matches` the
comparison with `expect`, `BatchWrite` the batch of one-cell ranges. `from` is the text in
`changes[].from`. A column key is taken as the column it resolves to.

**TrainingSheet.** Both tools on one dated-block tab, with `find_row`/`query_rows` (`Find`
records what the client was shown: a row number and the `cells` map, which leaves out
blanks), a client that corrects the row it was shown expecting the cells it was
shown (`Ask`), and an owner who types, inserts and deletes rows. `Exclusive` says
whether anyone acts while a call is in flight.

**Durations.** A text of a grid is what the code can tell about it: a numeral (a day
number, and as many hours), hours with a unit or fraction, a tally, a month header with or
without a year, or a word. Time is counted in quarter hours, so that the step of half an
hour has ties to round; `RoundToStep` rounds ties to even as Python's `round` does, and
`RenderTally` keeps no more than a half. The exact binary values of decimal fractions are
not modelled.

**GridBlock, GridDates.** `Periods` is `scan_periods`: every run of day numbers from 1
with a header and labels at the profile's offsets. `Named` finds a block by the plain
month name, as both writers do; `YearOf` is `assign_dates`, which dates blocks from the newest
upwards. `PlanBlock` is `plan_period_block`, for whatever labels it is given, and `BlockCells`
the contiguous rows it writes. Readers see columns 0 to `Width` (A to N); a block may be written
as far as `LastColumn`, the last column of the tab, and `Shown` are its labels that a reading sees:
those that are not blank and not beyond `Width`.
`Recorded` is what `query_rows` adds up on a grid: the readable positive time for each
day and label.

**GridTools.** A call has the states of a `log_session` call. `SetOutcome` and
`CreateOutcome` are the decisions from the reading in the code's order of checks, `PlanSet` and
`PlanCreate` what will be written and answered; `Effect` is what a failed attempt may have
done. `Describe` gives a client `current_period_exists`; `advice` remembers it until the tab or
the day changes. The owner fills a cell or a day number, replaces a label, adds the year to
a header or leaves a note below everything. `Tick` is midnight: `today` is read when a call comes
in (`Resolved`) and again by every reading of dates. `overnight` says that no call lasts
longer than a day.

**Registry.** A grid profile has its value type; the columns, offsets and step are those of the
tab, the same for every grid profile of it. `Resolve` is the lookup of a name or an alias and
`HasLayout` is `require_profile` followed by the tool's check of the layout; that tokens are unique is what the
loader validates at boot and is an assumption here.

**TrainingLog, TimeLedger, RemoteCall.** Abstract specifications. A training log is extended by
one session at a time, below everything before, under one day no earlier than any
before. In a ledger of time, entries change only because the owner changed them or because
a request pending at that moment asked for that day and label, by exactly the amount asked for; the
refinement mapping (`MCGridTools`) takes the tab through `Recorded` and the calls through
`Asked`. A remote call has taken effect if it is reported done, and takes no effect
once its caller was given an answer; only an abandoned one may, once.

**SheetsClient.** `_run`: `Send` hands an attempt to a worker thread; the API
applies it or not and answers; `Return`, `Reject`, `Backoff`, `GiveUp` are the
branches of the loop, `Raise` an exception that is no `HttpError`. `Translations` are the
errors a status may be reported as: a 400 is about the tab, the range or neither. `Cancel` ends the
coroutine while the thread goes on; `Crash` ends the process while requests are on
their way. `last` is not kept: it is the status of the attempt that was answered.
The API is external; what it has answered, it is assumed to have settled.

## Runs

| Run | Shows | Bounds |
|---|---|---|
| `log_serial` | calls that do not overlap keep the tab an append-only, ordered training log (`AppendOnly`, `BlocksAscend`, refinement of `TrainingLog`), successful answers are and stay true (`FiledUnderItsDate`), every call is answered | 2 calls, 2 attempts, 3 days, 9 rows, 19 requests: every mode and date, one per error before the read; 3 initial tabs |
| `update_row` | overlapping corrections of one row compose; none replaces a text it does not name, unless another call changes that cell | 2 calls, 2 attempts, 3 layouts, 2 tabs, 14 requests covering each refusal |
| `training_sheet` | a correction changes only the row shown, reports what it replaced, and no step of the server changes history otherwise or merges sessions | 1 log call, 1 correction, 1 owner edit, 8 rows |
| `grid_serial` | grid calls that do not overlap keep a ledger of time (refinement of `TimeLedger`), change one cell and name what was in it, and record every figure they report that is not below zero; a new block with a label to be seen is usable, dated right and the only one of its month; `describe_profile` advises well | 1 client making 2 calls, 2 attempts, 1 owner edit, 13 rows, 5 readable columns (notes, days, three of labels) and one beyond, 18 requests of 4 profiles (hours, tallies, free text, no grid), 3 tabs, from the last month of one year to the first day of the next; half-hour steps |
| `sheets_client` | answers are final, the loop keeps `RemoteCall`, every operation ends | 2 operations, 3 attempts (the real limit) |
| `log_overlap` (violation) | two overlapping calls: the second write replaces the first session | as `log_serial`, both calls in flight |
| `expect_gap` (violation) | a cell the owner filled after `find_row` is overwritten in spite of `expect` | as `training_sheet` |
| `stale_previous` (violation) | of two overlapping increments one is lost, and the response names a text that was no longer there | 2 clients, 2 calls |
| `second_block` (violation) | a header to which the owner added the year counts for the readers but not for the writers: the month gets a second block | 2 calls, 1 owner edit, 1 tab |
| `new_year` (violation) | a January block made in December is dated eleven months back | 2 calls, no edit, 1 tab |
| `below_zero` (violation) | a decrement of more than the cell holds is reported as a negative figure recorded; the cell is empty | 2 calls, no edit, 1 tab |
| `months_overlap` (violation) | two overlapping calls make the blocks of two months: the second replaces the first, and has a day too many | 2 clients, 2 calls, an empty tab |

Each violation is a finding in `PROJECT.json`, with the line of the documentation that says
otherwise.

Why the bounds are enough. Two calls give every order of two steps of different
actors; a second attempt gives every effect of a repetition, since repeating a
write twice is repeating it once; three days give earlier, equal and later dates;
the rows are as many as two new blocks need on top of the smaller initial tabs, while
on the largest the second one meets the grid's limit. On grids a year of two months (of two days
and of one, with a longer one in a leap year) has every relation of two months that
`assign_dates` distinguishes: earlier, same, later, and the turn of the year; the tabs have label
columns apart from each other, notes beside and below the blocks, a numbered row that is
no block, and a block without a month. `SheetsClient` uses the real number of attempts.

Fairness. `LogSession` assumes that the steps of an accepted call happen
(`WF` of `Step(c)`): the event loop runs every coroutine and every attempt ends,
because the transport times out. Nobody must make a call, and nothing requires an
attempt to succeed. `SheetsClient` assumes the same of attempts and of sleeps that
end. Safety runs use no fairness; the grid tools await the same three operations in
the same loop and add nothing to liveness. Deadlock is checked in every run; `Quiet` is the
system at rest.

## What the runs leave to their assumptions

- Calls overlap only in `log_overlap`, `stale_previous`, `months_overlap` and `update_row`. With
  overlap `log_session` is not append-only, `set_grid_value` loses additions and
  `create_period_block` replaces blocks: those are the findings, not assumptions we could drop.
  `OneBlockPerMonth` and the refinements are said of calls that do not overlap.
- Items are not named like dates in `BlocksAscend`, `FiledUnderItsDate` and the
  refinement: `_parse_item` does not check, and such an item opens a block of its own.
- Of a call that forces `append-to-existing` whatever `when` says, `FiledUnderItsDate` asks only
  that no block its items joined is later than the date named: they go under the last block, or
  under none, and the answer names `when`.
- `ReadBack` is the identity in every run.
- In `training_sheet` and `grid_serial` the owner edits between calls, not during one, and on a grid
  inserts and deletes no rows and types no lone 1.
- `KeepsUp` in `grid_serial`: the owner adds the year to last year's header before its month
  returns, and not to the current one. Otherwise values go to last year's block (that is
  how `Named` works) or the month gets a second block (`second_block`).
- In `grid_serial` blocks are made for the current month, which is the protocol of
  `describe_profile`; `new_year` makes one for the next.
- `create_period_block` takes any labels (the request is any sequence of texts that fits the
  tab; a longer one is refused by the API). Blank labels and labels beyond column N are written and
  seen by no reader. `CreatedBlockIsUsable` and `CreatedBlockIsDated` speak of blocks that have a
  label left; a block without one is no block to any later reading, is answered with
  `verified: false` (`VerifiedIsFound`), and its month can be made again. What stands beyond
  column N is not kept in the model, since nothing reads it. No run asks for one label twice.
- Offsets leave no gap between header, labels and days, in the runs and in the theorems that name
  `CloseOffsets`; the profile's validation asks only that they be negative.
- All grid profiles of a tab have the same columns, offsets and step; all dated-block profiles
  stand for the one tab of `LogSession`.
- `PositiveIsRecorded` says of a figure below zero only that it leaves an empty cell
  (`below_zero`).

Two things the models do that no property asks about. A correction may empty the name of an entry or
turn it into a date (`Writable`): the row is then found by no reader, or opens a block. And
`resolve_column` takes the leftmost label among a word and its aliases (`ResolveColumn`), so that
in a block with an old and a new name of one activity a value may go to the column of the other
name although its own is spelled out.

## Proofs

Every theorem holds for every tab, profile, number of attempts, set of calls and of requests
that the named assumptions of the modules admit; what a theorem assumes beyond them stands
in its `ASSUME`. An invariant named below is the inductive one: it holds initially, every step
keeps it, and it implies the property.

`BoundedSets` has what is needed about greatest and least elements of sets of
numbers. `DatedBlockProofs` has the facts about the operators, for every tab and profile:
the last populated row and the date row above a row are what their names say,
`PlanSession` returns a range below everything populated, rewriting a range is
idempotent, a session whose date is not earlier than the last block's continues
the order, and the rows of a written session are in the block of its date.

`LogSessionProofs`:

- `TypeCorrect`: the type invariant, for any number of overlapping calls. `IInv` adds
  that a call past its validation has a valid request and one past its read a plan.
- `SerialAppendOnly`: with `MaxInFlight = 1`, `AppendOnly`. The invariant `SerialInv`
  adds that at most one call is in flight and that its pending write changes no populated
  row, *whether or not it has been applied already*; the second half is what a
  repeated write needs, and it holds because overwriting is idempotent.
- `SerialBlocksAscend`: with `MaxInFlight = 1`, dates that read back and ordered initial
  tabs, `BlocksAscend`. `OrderInv` adds that the tab would still be ordered after the
  pending write.
- `SerialFiledUnderItsDate`: with `MaxInFlight = 1` and dates that read back,
  `FiledUnderItsDate`. `FileInv` says that a pending write is either as it was planned
  from the tab (`Fresh`) or has been applied already (`Applied`), that a write that was answered
  is applied, and that every verified answer is still true; a later session goes below
  everything, so it takes no row out of its block.
- `SerialImplementsTrainingLog`: under these assumptions, with ordered tabs and no item named
  like a date, every step of `LogSession` is a step of `TrainingLog` or changes nothing of it,
  with the entries of the tab under their dates (`LogOf`) as the log. A write is one
  `Record` of a session; that it is repeated after its effect is a stutter.

`UpdateRowProofs`, for calls that overlap as they like:

- `UpdateTypeCorrect`: the type invariant; `IInv` adds what a call on its way has.
- `CorrectionsStand`: `CorrectionsCompose`. `CorrectionInv` adds `Held`, that from its write
  on a call's cells hold what they were asked to, and `Named`, that until then they hold what
  was reported as replaced or, after an attempt whose response was lost, what was asked for:
  each unless another call was asked to change the same cell.
- `ReplacedTextIsKnown`: `ReplacedTextIsNamed`, from the same invariant.

`TrainingSheetProofs` takes both tools' proofs over by `INSTANCE`, since a step of the composed
tab is a step of one tool while the other stutters on its own variables:

- `SheetTypeCorrect`: the type invariant, from both tools' `IInv` (`BothOK`).
- `CorrectionsHitTheRow`, `OverwritesAreReported`, `HistoryStays`, `SessionsStayApart`: with
  `Exclusive`, `CorrectionHitsTheRowShown`, `OverwrittenTextIsReported`, `HistoryIsKept` and
  `SessionsNeverMerge`. `ExclusiveInv` adds to `SerialInv` of `log_session` that one call is in
  flight among both tools, that a correction expects the cells its client was shown, and
  that a pending correction has checked the row as it is, or has been applied already.

`GridBlockProofs` has the facts about grids, for every tab, offset and calendar: what a block
finds in a tab is within the tab, a planned block lies below everything and has
labels (`BlockPlan`), a block that was written where it was planned is found with
exactly its rows and the labels that can be seen (`StandingBlockIsFound`), and a rendered amount
parses to itself (`RenderReadsBack`). Its section on tidy tabs says what each change of a tab does to the blocks of
a tab whose blocks stand apart (`Tidy`): a value, a label or a note moves none, an
overwritten day number shortens or removes one, a new block adds one. The section
on years solves the recursion of `YearOf`: the years exist and obey the rule of `assign_dates`
(`YearsFollowTheRule`), by the least row at which they could not. The last two sections prepare the
refinement of `TimeLedger`: the headings of a tab are dated by that rule (`TabIsDated`); headings
keep their years when others are added below, years are written out and the calendar turns, if
the newest of them keeps its year (`SameYears`); when some headings go, the others stay in order
and none becomes older (`FewerInOrder`); and `RecordedAre` says which cells the recorded time is
in. `GridToolsProofs`:

- `GridTypeCorrect`: the type invariant, for any number of overlapping calls, any owner edits
  and any day, in a calendar of every month of every year (`WholeCalendar`; the runs have three
  years of it). `GridIInv` adds that plans belong to their requests (`PlansTyped`) and what a
  call on its way has (`MidCall`).
- `GridKeepsRows`, `GridNamesPrevious`: with `Exclusive`, `RowsAreKept` and
  `PreviousIsReplaced`. `SerialInv` adds `OneAtATime` and `Undisturbed`: while a write is
  pending, the tab is that of the reading or that with the write in it. So a cell holds
  either the previous text or the planned one, and the rows of a planned block are either empty or the
  planned ones; a repeated write changes nothing.
- `CreatedIsUsable`, `VerifiedIsTrue`: with `Exclusive` and offsets that leave no gap in a block
  (`CloseOffsets`), `CreatedBlockIsUsable` and `VerifiedIsFound`, whatever labels are asked for.
  Once the write succeeded, `Undisturbed` says that the planned block stands; if it has a label to
  be seen it is the one block of its name (`StandingIsTheOne`), and if not there is none.
- `ReportedIsTrue`: with `Exclusive`, `PositiveIsRecorded`, for every value type and step but, for
  tallies, a step of whole halves (`WholeHalves`): a quarter-hour step does not survive a tally.
  `AnswerInv` adds that what a successful call read back is what it planned.
- `AdviceIsSound`: `AdviceHolds`, for any overlap of calls and edits: advice that still counts is
  true of the tab of today (`AdviceIsFresh`), since whatever changes either takes it back.
- `MonthsHaveOneBlock`: with `Exclusive`, `CloseOffsets` and an `OrderlyOwner`, whose tab is tidy
  when it is found and who types no 1 over a day number, `OneBlockPerMonth`. `TidyInv` adds
  that the tab stays tidy and that a pending value is aimed at a day of a block; without
  that, a value could be typed into a header or begin a block.
- `CreatedIsDated`: of a block with a label to be seen, with `Exclusive`, `CloseOffsets` and
  blocks made for the current month only (`CurrentMonthOnly`; the run `new_year` shows why),
  `CreatedBlockIsDated`. `DayInv` adds that the month of a call that makes a block is today's, or
  yesterday's after a midnight; the block is the newest, so its year is the calendar's on either
  day (`SeededByItsDay`).

`SheetsClientProofs`: `ClientTypeCorrect`; `AnswersStayFinal`, because only the current attempt
can be pending and only while its operation awaits it or was abandoned; and
`ClientKeepsTheContract`, step by step, that `SheetsClient` implements `RemoteCall`.

Only model-checked: that `GridTools` implements `TimeLedger`, which needs that no step of the
server re-dates a block; and liveness (`EveryCallIsAnswered`, `EveryOperationEnds`), which is
out of the prover's reach.

## Plan

1. Proofs: `GridTools` implements `TimeLedger` under the assumptions of its run. By an invariant
   that the headings are in order and none is yet to come, each step is one of the ledger's:
   `Tick`, `MarkYear` and a new block keep every year (`SameYears`), the owner's other changes
   are `Revise` and keep the order (`FewerInOrder`), and a pending value has the date and the
   label of the cell it is aimed at, and the amount of what that cell held.
2. `TrainingSheet` without `Exclusive` (edits between read and write), ordering of
   corrected dates, lossy date formats, a correction during a read-back.
3. Grids: blocks made for past months and for another year, sums of increments below the
   step.
4. `Registry`: precedence of profile sources and what each validation rule is for.

## Not modelled

HTTP transport, authentication, configuration, logging and error texts are
straight-line code without state. Of `list_profiles` and `describe_profile` only
`current_period_exists` matters to a later call; the rest is a summary. The filters, limits, order
and ranking of `query_rows` and `find_row` choose among rows that are shown, and `Find` allows
any choice; their reading of tables is left out. The reading of YAML and the precedence of its
sources happen once, before any call. How a table's columns are spelled as keys, the format
language of dates, and the spellings of units and month names are
conversions that appear as what they result in.

Google's API is modelled from how the client uses it: a request is atomic, a read
returns the tab of one moment, and what has been answered has been settled. The
shared `httplib2` connection under concurrent worker threads is a property of that
library and is left out.
