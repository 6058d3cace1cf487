----------------------------- MODULE LogSession -----------------------------
(***************************************************************************)
(* The log_session tool (tools/log_session.py): calls that run as          *)
(* coroutines of one event loop over one tab. A call validates its         *)
(* arguments, reads the tab, decides from that one reading what to write,  *)
(* writes it, and reads it back. Other calls run wherever it awaits the    *)
(* Sheets API, so what it decided from may be stale when it writes.        *)
(*                                                                         *)
(* Each API operation runs under the retry loop of SheetsClient._run: an   *)
(* attempt that fails with 429 or 5xx is repeated, up to MaxAttempts, and  *)
(* any other failure ends the operation. A write whose response is lost    *)
(* may or may not have reached the sheet; a call that fails counts as in   *)
(* flight until that is settled, so failing and settling are one step here *)
(* (SheetsClient has them apart).                                          *)
(***************************************************************************)
EXTENDS DatedBlock, Registry, FiniteSets

CONSTANTS Calls,        \* tool calls, each made once
          Requests,     \* the arguments a call may carry
          InitSheets,   \* tabs the server may find
          MaxInFlight,  \* calls the clients keep in flight at once
          MaxAttempts,  \* _MAX_ATTEMPTS of the retry loop
          NoTarget,     \* a `when` that no date format reads
          None          \* no request, no plan

\* The profile is the name or alias it was asked for by; every dated-block
\* profile stands for this tab.
Request == [profile : STRING, target : Dates \cup {NoTarget}, items : Seq(Item),
            mode : STRING, dryRun : BOOLEAN]

ASSUME CallAssumption ==
  /\ IsFiniteSet(Calls)
  /\ MaxInFlight \in Nat
  /\ MaxAttempts \in Nat \ {0}
  /\ Requests \subseteq Request
  /\ InitSheets \subseteq Sheet
  /\ NoTarget \notin Dates
  /\ None \notin Requests
  /\ None \notin Plan

VARIABLES sheet,    \* the tab
          pc,       \* where each call is
          req,      \* its arguments
          plan,     \* its WritePlan, once it has one
          tries,    \* attempts made of the API operation it awaits
          outcome,  \* what the caller was told
          verified  \* the `verified` flag of a successful response

callVars == <<pc, req, plan, tries, outcome, verified>>
vars == <<sheet, callVars>>

InFlight == {c \in Calls : pc[c] \notin {"idle", "done"}}

TypeOK ==
  /\ sheet \in Sheet
  /\ pc \in [Calls -> {"idle", "reading", "writing", "checking", "done"}]
  /\ req \in [Calls -> Requests \cup {None}]
  /\ plan \in [Calls -> Plan \cup {None}]
  /\ tries \in [Calls -> 0..MaxAttempts]
  /\ outcome \in [Calls -> {"none", "invalid", "out_of_order", "dry_run", "ok",
                            "bad_range", "upstream", "failed", "lost"}]
  /\ verified \in [Calls -> BOOLEAN]

Init ==
  /\ sheet \in InitSheets
  /\ pc = [c \in Calls |-> "idle"]
  /\ req = [c \in Calls |-> None]
  /\ plan = [c \in Calls |-> None]
  /\ tries = [c \in Calls |-> 0]
  /\ outcome = [c \in Calls |-> "none"]
  /\ verified = [c \in Calls |-> FALSE]

-----------------------------------------------------------------------------
(* Arguments.                                                              *)

\* The checks made before any request to the API.
Valid(r) ==
  /\ HasLayout(r.profile, "dated-block")
  /\ r.mode \in Modes
  /\ r.items # <<>>
  /\ \A i \in DOMAIN r.items :
       /\ r.items[i].name # Blank
       /\ Len(r.items[i].values) <= Width
  /\ r.target # NoTarget

\* The call is accepted: it now awaits its read.
Begin(c) ==
  /\ pc[c] = "idle"
  /\ Cardinality(InFlight) < MaxInFlight
  /\ \E r \in Requests :
       /\ Valid(r)
       /\ req' = [req EXCEPT ![c] = r]
  /\ pc' = [pc EXCEPT ![c] = "reading"]
  /\ tries' = [tries EXCEPT ![c] = 1]
  /\ UNCHANGED <<sheet, plan, outcome, verified>>

Finish(c, result) ==
  /\ pc' = [pc EXCEPT ![c] = "done"]
  /\ outcome' = [outcome EXCEPT ![c] = result]

\* No such profile, WrongLayout, a ValidationError or TooManyValues: the API is
\* never called.
Refuse(c) ==
  /\ pc[c] = "idle"
  /\ Cardinality(InFlight) < MaxInFlight
  /\ \E r \in Requests :
       /\ ~Valid(r)
       /\ req' = [req EXCEPT ![c] = r]
  /\ Finish(c, "invalid")
  /\ UNCHANGED <<sheet, plan, tries, verified>>

-----------------------------------------------------------------------------
(* The read, and everything decided from it: no await separates them.      *)

\* Fault: the date is compared with the first block's instead of the last's.
BeforeFirstBlock(s, target) ==
  DateRows(s) # {} /\ target < s[Min(DateRows(s))][0]

OutOfOrder(s, target) ==
  LastBlockRow(s) # 0 /\ target < BlockDate(s, MaxRow)

PlanFor(s, r) == PlanSession(s, r.target, r.items, r.mode)

\* DateOutOfOrder: an earlier date than the last block's.
RefuseDate(c) ==
  /\ pc[c] = "reading"
  /\ OutOfOrder(sheet, req[c].target)
  /\ Finish(c, "out_of_order")
  /\ UNCHANGED <<sheet, req, plan, tries, verified>>

\* A dry run returns the plan and stops.
DryRun(c) ==
  /\ pc[c] = "reading"
  /\ ~OutOfOrder(sheet, req[c].target)
  /\ req[c].dryRun
  /\ plan' = [plan EXCEPT ![c] = PlanFor(sheet, req[c])]
  /\ Finish(c, "dry_run")
  /\ UNCHANGED <<sheet, req, tries, verified>>

PlanWrite(c) ==
  /\ pc[c] = "reading"
  /\ ~OutOfOrder(sheet, req[c].target)
  /\ ~req[c].dryRun
  /\ plan' = [plan EXCEPT ![c] = PlanFor(sheet, req[c])]
  /\ pc' = [pc EXCEPT ![c] = "writing"]
  /\ tries' = [tries EXCEPT ![c] = 1]
  /\ UNCHANGED <<sheet, req, outcome, verified>>

-----------------------------------------------------------------------------
(* The write and the read-back.                                            *)

Fits(p) == p.first + Len(p.rows) - 1 <= MaxRow

\* values.update succeeds and the response arrives.
Write(c) ==
  /\ pc[c] = "writing"
  /\ Fits(plan[c])
  /\ sheet' = Overwrite(sheet, plan[c])
  /\ pc' = [pc EXCEPT ![c] = "checking"]
  /\ tries' = [tries EXCEPT ![c] = 1]
  /\ UNCHANGED <<req, plan, outcome, verified>>

\* Fault: a refused range sends the call back to planning.
ReplanRange(c) ==
  /\ pc[c] = "writing"
  /\ ~Fits(plan[c])
  /\ pc' = [pc EXCEPT ![c] = "reading"]
  /\ UNCHANGED <<sheet, req, plan, tries, outcome, verified>>

\* A 400 for a range beyond the grid: not retried.
RefuseRange(c) ==
  /\ pc[c] = "writing"
  /\ ~Fits(plan[c])
  /\ Finish(c, "bad_range")
  /\ UNCHANGED <<sheet, req, plan, tries, verified>>

\* The values read back: the call succeeds, saying whether they are the
\* planned ones.
ReadBackRange(c) ==
  /\ pc[c] = "checking"
  /\ verified' = [verified EXCEPT ![c] = Verified(sheet, plan[c])]
  /\ Finish(c, "ok")
  /\ UNCHANGED <<sheet, req, plan, tries>>

-----------------------------------------------------------------------------
(* Failures of an API operation.                                           *)

\* What a failed attempt may have done: a write may have been applied.
Effect(c) ==
  \/ UNCHANGED sheet
  \/ /\ pc[c] = "writing"
     /\ Fits(plan[c])
     /\ sheet' = Overwrite(sheet, plan[c])

\* Fault: one attempt too many.
RetryOnceMore(c) ==
  /\ c \in InFlight
  /\ tries[c] <= MaxAttempts
  /\ tries' = [tries EXCEPT ![c] = tries[c] + 1]
  /\ Effect(c)
  /\ UNCHANGED <<pc, req, plan, outcome, verified>>

\* 429 or 5xx with attempts left: the same request is sent again.
Retry(c) ==
  /\ c \in InFlight
  /\ tries[c] < MaxAttempts
  /\ tries' = [tries EXCEPT ![c] = tries[c] + 1]
  /\ Effect(c)
  /\ UNCHANGED <<pc, req, plan, outcome, verified>>

\* 429 or 5xx on the last attempt: RateLimited or UpstreamError.
GiveUp(c) ==
  /\ c \in InFlight
  /\ tries[c] = MaxAttempts
  /\ Finish(c, "upstream")
  /\ Effect(c)
  /\ UNCHANGED <<req, plan, tries, verified>>

\* A failure that is never retried: another status, or an exception that is
\* no HttpError, such as a dropped connection.
Fail(c) ==
  /\ c \in InFlight
  /\ Finish(c, "failed")
  /\ Effect(c)
  /\ UNCHANGED <<req, plan, tries, verified>>

\* The process stops: nothing of a call is persisted, so every call in
\* flight is simply never answered.
Lose ==
  /\ pc' = [c \in Calls |-> IF c \in InFlight THEN "done" ELSE pc[c]]
  /\ outcome' = [c \in Calls |-> IF c \in InFlight THEN "lost" ELSE outcome[c]]
  /\ UNCHANGED <<sheet, req, plan, tries, verified>>

Restart == InFlight # {} /\ Lose

\* Every call has been made and answered: nothing more is modelled.
Quiet == pc = [c \in Calls |-> "done"] /\ UNCHANGED vars

Step(c) ==
  \/ RefuseDate(c) \/ DryRun(c) \/ PlanWrite(c)
  \/ Write(c) \/ RefuseRange(c) \/ ReadBackRange(c)
  \/ Retry(c) \/ GiveUp(c) \/ Fail(c)

Next ==
  \/ \E c \in Calls : Begin(c) \/ Refuse(c) \/ Step(c)
  \/ Restart
  \/ Quiet

Spec == Init /\ [][Next]_vars

\* The event loop keeps running every coroutine it has started, and every
\* attempt of an operation ends.
Fairness == \A c \in Calls : WF_vars(Step(c))

FairSpec == Spec /\ Fairness

-----------------------------------------------------------------------------
(* Properties.                                                             *)

\* "Append-only by construction" (log_session.py, README): no step of the
\* server changes a row that already holds something, not even the repeated
\* write of a session whose first response was lost.
AppendOnly ==
  [][\A r \in Rows : Populated(sheet[r]) => sheet'[r] = sheet[r]]_sheet

NamesAreWords(r) == \A i \in DOMAIN r.items : r.items[i].name \notin Dates

\* The ordering the layout depends on: blocks stay in calendar order, whatever
\* mixture of modes, retries and lost answers wrote them. Item names are not
\* checked for being dates, so the promise is for names that are not.
BlocksAscend ==
  (\A c \in Calls : req[c] # None => NamesAreWords(req[c])) => Ascending(sheet)

\* Where the i-th item of a planned request lands.
RowOfItem(p, r, i) == p.first + Len(p.rows) - Len(r.items) + i - 1

\* A successful answer is true, and stays true: the call is verified, and each
\* of its items is in the sheet, under the date the answer named. Where the
\* caller forced append-to-existing, whatever `when` said, no block the items
\* joined is of a later date than the one named.
FiledUnderItsDate ==
  \A c \in Calls :
    (outcome[c] = "ok" /\ NamesAreWords(req[c])) =>
      /\ verified[c]
      /\ \A i \in DOMAIN req[c].items :
           LET r == RowOfItem(plan[c], req[c], i)
           IN /\ sheet[r] = ItemRow(req[c].items[i])
              /\ IF req[c].mode = "append-to-existing"
                 THEN BlockRow(sheet, r) # 0 => BlockDate(sheet, r) <= req[c].target
                 ELSE BlockDate(sheet, r) = req[c].target

\* Every accepted call is answered: no call waits for ever on the API.
EveryCallIsAnswered ==
  \A c \in Calls : (pc[c] = "reading") ~> (pc[c] = "done")

-----------------------------------------------------------------------------
(* The tab as a training log.                                              *)

\* The log the owner reads off the tab.
LogOf(s) == [r \in ItemRows(s) |-> [date |-> BlockDate(s, r), row |-> s[r]]]

Log == INSTANCE TrainingLog WITH log <- LogOf(sheet)

\* The tab is a training log: a session appears in one step however many
\* requests it took, and nothing recorded is ever changed. (Item names are
\* words here; one that reads as a date would open a block of its own.)
ImplementsTrainingLog == Log!Spec
=============================================================================
