-------------------------- MODULE LogSessionProofs --------------------------
(***************************************************************************)
(* Proofs about LogSession, for every tab, profile, set of calls and       *)
(* requests: type correctness, and what holds when calls do not overlap.   *)
(***************************************************************************)
EXTENDS LogSession, DatedBlockProofs, FiniteSetTheorems

\* A request that passes validation names a date, a mode and items.
LEMMA ValidRequests ==
  ASSUME NEW r \in Requests, Valid(r)
  PROVE  r.target \in Dates /\ r.mode \in Modes /\ r.items \in Seq(Item)
BY CallAssumption DEF Request, Valid

\* What _resolve_date, _parse_item and plan_session hand to the write.
LEMMA PlanForType ==
  ASSUME NEW s \in Sheet, NEW r \in Requests, Valid(r)
  PROVE  PlanFor(s, r) \in Plan /\ PlanFor(s, r).first > LastPopulatedRow(s)
BY ValidRequests, PlanSessionType DEF PlanFor

-----------------------------------------------------------------------------
(* Type correctness.                                                       *)

\* A call past its validation has a valid request; one past its read, a plan.
InFlightOK ==
  \A c \in Calls :
    /\ pc[c] \in {"reading", "writing", "checking"} =>
         req[c] \in Requests /\ Valid(req[c])
    /\ pc[c] \in {"writing", "checking"} => plan[c] \in Plan

IInv == TypeOK /\ InFlightOK

LEMMA InitIInv == Init => IInv
BY CallAssumption DEF Init, IInv, TypeOK, InFlightOK

LEMMA EffectType ==
  ASSUME IInv, NEW c \in Calls, Effect(c)
  PROVE  sheet' \in Sheet
BY OverwriteType DEF IInv, TypeOK, InFlightOK, Effect

LEMMA NextIInv == IInv /\ [Next]_vars => IInv'
<1> SUFFICES ASSUME IInv, [Next]_vars
             PROVE  IInv'
  OBVIOUS
<1> USE DEF IInv, TypeOK, InFlightOK
<1>1. ASSUME NEW c \in Calls, Begin(c)
      PROVE  IInv'
  BY <1>1, CallAssumption DEF Begin
<1>2. ASSUME NEW c \in Calls, Refuse(c)
      PROVE  IInv'
  BY <1>2 DEF Refuse, Finish
<1>3. ASSUME NEW c \in Calls, RefuseDate(c)
      PROVE  IInv'
  BY <1>3 DEF RefuseDate, Finish
<1>4. ASSUME NEW c \in Calls, DryRun(c)
      PROVE  IInv'
  <2>1. PlanFor(sheet, req[c]) \in Plan
    BY <1>4, PlanForType DEF DryRun
  <2> QED BY <1>4, <2>1 DEF DryRun, Finish
<1>5. ASSUME NEW c \in Calls, PlanWrite(c)
      PROVE  IInv'
  <2>1. PlanFor(sheet, req[c]) \in Plan
    BY <1>5, PlanForType DEF PlanWrite
  <2> QED BY <1>5, <2>1, CallAssumption DEF PlanWrite
<1>6. ASSUME NEW c \in Calls, Write(c)
      PROVE  IInv'
  <2>1. sheet' \in Sheet
    BY <1>6, OverwriteType DEF Write
  <2> QED BY <1>6, <2>1, CallAssumption DEF Write
<1>7. ASSUME NEW c \in Calls, RefuseRange(c)
      PROVE  IInv'
  BY <1>7 DEF RefuseRange, Finish
<1>8. ASSUME NEW c \in Calls, ReadBackRange(c)
      PROVE  IInv'
  <2>1. Verified(sheet, plan[c]) \in BOOLEAN
    BY DEF Verified
  <2> QED BY <1>8, <2>1 DEF ReadBackRange, Finish
<1>9. ASSUME NEW c \in Calls, Retry(c)
      PROVE  IInv'
  <2>1. sheet' \in Sheet
    BY <1>9, EffectType DEF Retry
  <2>2. tries[c] + 1 \in 0..MaxAttempts
    BY <1>9, CallAssumption DEF Retry
  <2> QED BY <1>9, <2>1, <2>2 DEF Retry
<1>10. ASSUME NEW c \in Calls, GiveUp(c)
       PROVE  IInv'
  <2>1. sheet' \in Sheet
    BY <1>10, EffectType DEF GiveUp
  <2> QED BY <1>10, <2>1 DEF GiveUp, Finish
<1>11. ASSUME NEW c \in Calls, Fail(c)
       PROVE  IInv'
  <2>1. sheet' \in Sheet
    BY <1>11, EffectType DEF Fail
  <2> QED BY <1>11, <2>1 DEF Fail, Finish
<1>12. ASSUME Restart
       PROVE  IInv'
  BY <1>12 DEF Restart, Lose, InFlight
<1>13. CASE Quiet
  BY <1>13 DEF Quiet, vars, callVars
<1>14. CASE UNCHANGED vars
  BY <1>14 DEF vars, callVars
<1> QED
  BY <1>1, <1>2, <1>3, <1>4, <1>5, <1>6, <1>7, <1>8, <1>9, <1>10, <1>11, <1>12,
     <1>13, <1>14 DEF Next, Step

LEMMA Invariance == Spec => []IInv
BY InitIInv, NextIInv, PTL DEF Spec

\* Every variable keeps its type in every behaviour of the tool.
THEOREM TypeCorrect == Spec => []TypeOK
<1>1. IInv => TypeOK
  BY DEF IInv
<1> QED BY <1>1, Invariance, PTL

-----------------------------------------------------------------------------
(* Calls that do not overlap never change what the sheet already holds.    *)

AtMostOneInFlight == \A c, d \in InFlight : c = d

\* The pending write of a call changes no populated row, whether it has been
\* applied already, with its response lost, or not. This is what makes the
\* retry loop safe: the rows between its plan and its last attempt stay the
\* call's own.
PendingWriteIsSafe ==
  \A c \in Calls : pc[c] = "writing" =>
    \A r \in Rows : Populated(sheet[r]) => Overwrite(sheet, plan[c])[r] = sheet[r]

SerialInv == IInv /\ AtMostOneInFlight /\ PendingWriteIsSafe

LEMMA NoneInFlight ==
  ASSUME MaxInFlight = 1, Cardinality(InFlight) < MaxInFlight
  PROVE  InFlight = {}
<1>1. IsFiniteSet(InFlight)
  BY CallAssumption, FS_Subset DEF InFlight
<1>2. Cardinality(InFlight) \in Nat
  BY <1>1, FS_CardinalityType
<1> QED BY <1>1, <1>2, FS_EmptySet

LEMMA InitSerialInv == Init => SerialInv
BY InitIInv DEF Init, SerialInv, AtMostOneInFlight, PendingWriteIsSafe, InFlight

\* Whether an attempt took effect or not, the pending writes stay safe.
LEMMA EffectIsSafe ==
  ASSUME SerialInv, NEW c \in InFlight, Effect(c), plan' = plan,
         \A d \in Calls : pc'[d] = "writing" => pc[d] = "writing"
  PROVE  PendingWriteIsSafe'
<1>1. CASE UNCHANGED sheet
  BY <1>1 DEF SerialInv, PendingWriteIsSafe
<1>2. CASE pc[c] = "writing" /\ sheet' = Overwrite(sheet, plan[c])
  <2>1. \A d \in Calls : pc'[d] = "writing" => d = c
    BY DEF SerialInv, AtMostOneInFlight, InFlight
  <2>2. sheet \in Sheet /\ plan[c] \in Plan
    BY <1>2 DEF SerialInv, IInv, TypeOK, InFlightOK, InFlight
  <2>3. Overwrite(sheet', plan[c]) = sheet'
    BY <1>2, <2>2, OverwriteIsIdempotent
  <2> QED BY <2>1, <2>3 DEF PendingWriteIsSafe
<1> QED BY <1>1, <1>2 DEF Effect

\* A call under way keeps the pending writes safe, its own included, whatever
\* calls there are besides it.
LEMMA StepSerialInv ==
  ASSUME SerialInv, NEW k \in Calls, Step(k)
  PROVE  SerialInv'
<1>0. IInv'
  BY NextIInv DEF SerialInv, Next
<1>10. TypeOK /\ InFlightOK
  BY DEF SerialInv, IInv
<1> USE <1>0, <1>10 DEF SerialInv, AtMostOneInFlight, InFlight, TypeOK
<1>1. ASSUME NEW c \in Calls, RefuseDate(c)
      PROVE  SerialInv'
  BY <1>1 DEF RefuseDate, Finish, PendingWriteIsSafe
<1>2. ASSUME NEW c \in Calls, DryRun(c)
      PROVE  SerialInv'
  BY <1>2 DEF DryRun, Finish, PendingWriteIsSafe
<1>3. ASSUME NEW c \in Calls, PlanWrite(c)
      PROVE  SerialInv'
  <2>1. AtMostOneInFlight'
    BY <1>3 DEF PlanWrite
  <2>2. plan'[c] \in Plan /\ plan'[c].first > LastPopulatedRow(sheet)
    BY <1>3, PlanForType DEF PlanWrite, InFlightOK
  <2>3. \A r \in Rows : Populated(sheet[r]) => Overwrite(sheet, plan'[c])[r] = sheet[r]
    BY <2>2, PlannedWriteIsBelow
  <2>4. PendingWriteIsSafe'
    BY <1>3, <2>3 DEF PlanWrite, PendingWriteIsSafe
  <2> QED BY <2>1, <2>4
<1>4. ASSUME NEW c \in Calls, Write(c)
      PROVE  SerialInv'
  BY <1>4 DEF Write, PendingWriteIsSafe
<1>5. ASSUME NEW c \in Calls, RefuseRange(c)
      PROVE  SerialInv'
  BY <1>5 DEF RefuseRange, Finish, PendingWriteIsSafe
<1>6. ASSUME NEW c \in Calls, ReadBackRange(c)
      PROVE  SerialInv'
  BY <1>6 DEF ReadBackRange, Finish, PendingWriteIsSafe
<1>7. ASSUME NEW c \in Calls, Retry(c)
      PROVE  SerialInv'
  <2>1. PendingWriteIsSafe'
    BY <1>7, EffectIsSafe DEF Retry
  <2> QED BY <1>7, <2>1 DEF Retry
<1>8. ASSUME NEW c \in Calls, GiveUp(c)
      PROVE  SerialInv'
  <2>1. PendingWriteIsSafe'
    BY <1>8, EffectIsSafe DEF GiveUp, Finish
  <2> QED BY <1>8, <2>1 DEF GiveUp, Finish
<1>9. ASSUME NEW c \in Calls, Fail(c)
      PROVE  SerialInv'
  <2>1. PendingWriteIsSafe'
    BY <1>9, EffectIsSafe DEF Fail, Finish
  <2> QED BY <1>9, <2>1 DEF Fail, Finish
<1> QED
  BY <1>1, <1>2, <1>3, <1>4, <1>5, <1>6, <1>7, <1>8, <1>9 DEF Step

LEMMA NextSerialInv ==
  ASSUME MaxInFlight = 1
  PROVE  SerialInv /\ [Next]_vars => SerialInv'
<1> SUFFICES ASSUME SerialInv, [Next]_vars
             PROVE  SerialInv'
  OBVIOUS
<1>1. IInv'
  BY NextIInv DEF SerialInv
<1>2. TypeOK /\ InFlightOK
  BY DEF SerialInv, IInv
<1> USE <1>1, <1>2 DEF SerialInv, AtMostOneInFlight, InFlight, TypeOK
<1>3. ASSUME NEW c \in Calls, Begin(c)
      PROVE  SerialInv'
  <2>1. InFlight = {}
    BY <1>3, NoneInFlight DEF Begin
  <2> QED BY <1>3, <2>1 DEF Begin, PendingWriteIsSafe
<1>4. ASSUME NEW c \in Calls, Refuse(c)
      PROVE  SerialInv'
  BY <1>4 DEF Refuse, Finish, PendingWriteIsSafe
<1>5. ASSUME NEW c \in Calls, Step(c)
      PROVE  SerialInv'
  BY <1>5, StepSerialInv
<1>6. CASE Restart
  BY <1>6 DEF Restart, Lose, PendingWriteIsSafe
<1>7. CASE Quiet \/ UNCHANGED vars
  BY <1>7 DEF Quiet, vars, callVars, PendingWriteIsSafe
<1> QED
  BY <1>3, <1>4, <1>5, <1>6, <1>7 DEF Next

LEMMA SerialInvariance ==
  ASSUME MaxInFlight = 1
  PROVE  Spec => []SerialInv
BY InitSerialInv, NextSerialInv, PTL DEF Spec

\* A step changes the sheet only by applying the write of a call that is
\* writing.
LEMMA OnlyWritesChangeTheSheet ==
  ASSUME Next, sheet' # sheet
  PROVE  \E c \in Calls : pc[c] = "writing" /\ sheet' = Overwrite(sheet, plan[c])
BY DEF Next, Step, Begin, Refuse, RefuseDate, DryRun, PlanWrite, Write, RefuseRange,
       ReadBackRange, Retry, GiveUp, Fail, Effect, Restart, Lose, Quiet, vars,
       InFlight

\* When calls do not overlap, no step changes a row that holds something:
\* log_session is append-only, repeated writes and lost answers included.
THEOREM SerialAppendOnly ==
  ASSUME MaxInFlight = 1
  PROVE  Spec => AppendOnly
<1>1. SerialInv /\ [Next]_vars =>
        [\A r \in Rows : Populated(sheet[r]) => sheet'[r] = sheet[r]]_sheet
  <2> SUFFICES ASSUME SerialInv, Next, sheet' # sheet
               PROVE  \A r \in Rows : Populated(sheet[r]) => sheet'[r] = sheet[r]
    BY DEF vars
  <2>1. PICK c \in Calls : pc[c] = "writing" /\ sheet' = Overwrite(sheet, plan[c])
    BY OnlyWritesChangeTheSheet
  <2> QED BY <2>1 DEF SerialInv, PendingWriteIsSafe
<1> QED BY <1>1, SerialInvariance, PTL DEF Spec, AppendOnly

-----------------------------------------------------------------------------
(* When calls do not overlap, the tab stays in calendar order.             *)

\* Dates survive being written and read.
FaithfulDates == \A d \in Dates : ReadBack[d] = d

\* They do, and the tab is found in order.
OrderlyConstants ==
  /\ FaithfulDates
  /\ \A s \in InitSheets : Ascending(s)

\* No item issued so far is named like a date.
OnlyWords == \A c \in Calls : req[c] # None => NamesAreWords(req[c])

\* The tab is in order, and so is what a pending write makes of it.
OrderKept ==
  /\ Ascending(sheet)
  /\ \A c \in Calls : pc[c] = "writing" => Ascending(Overwrite(sheet, plan[c]))

IdleHasNoRequest == \A c \in Calls : pc[c] = "idle" => req[c] = None

OrderInv == SerialInv /\ IdleHasNoRequest /\ (OnlyWords => OrderKept)

LEMMA InitOrderInv ==
  ASSUME OrderlyConstants
  PROVE  Init => OrderInv
BY InitSerialInv DEF Init, OrderInv, OrderKept, OnlyWords, IdleHasNoRequest,
   OrderlyConstants

\* A plan made from an ordered tab keeps it in order.
LEMMA PlanKeepsTheOrder ==
  ASSUME OrderlyConstants, IInv, NEW c \in Calls, pc[c] = "reading",
         ~OutOfOrder(sheet, req[c].target), OnlyWords, Ascending(sheet)
  PROVE  Ascending(Overwrite(sheet, PlanFor(sheet, req[c])))
<1>1. sheet \in Sheet /\ req[c] \in Requests /\ Valid(req[c])
  BY DEF IInv, TypeOK, InFlightOK
<1>2. /\ req[c].target \in Dates /\ req[c].mode \in Modes
      /\ req[c].items \in Seq(Item)
  BY <1>1, ValidRequests
<1>3. NamesAreWords(req[c])
  BY <1>1, CallAssumption DEF OnlyWords
<1>4. /\ PlanFor(sheet, req[c]) \in Plan
      /\ PlanFor(sheet, req[c]).first > LastPopulatedRow(sheet)
  BY <1>1, PlanForType
<1>5. ContinuesTheOrder(sheet, PlanFor(sheet, req[c]))
  BY <1>1, <1>2, <1>3, PlanContinuesTheOrder
  DEF PlanFor, NamesAreWords, OutOfOrder, OrderlyConstants, FaithfulDates
<1> QED BY <1>1, <1>4, <1>5, WriteKeepsTheOrder

\* Whether an attempt took effect or not, order is kept.
LEMMA EffectKeepsTheOrder ==
  ASSUME SerialInv, OrderKept, NEW c \in InFlight, Effect(c), plan' = plan,
         \A d \in Calls : pc'[d] = "writing" => pc[d] = "writing"
  PROVE  OrderKept'
<1>1. CASE UNCHANGED sheet
  BY <1>1 DEF OrderKept
<1>2. CASE pc[c] = "writing" /\ sheet' = Overwrite(sheet, plan[c])
  <2>1. \A d \in Calls : pc'[d] = "writing" => d = c
    BY DEF SerialInv, AtMostOneInFlight, InFlight
  <2>2. sheet \in Sheet /\ plan[c] \in Plan
    BY <1>2 DEF SerialInv, IInv, TypeOK, InFlightOK, InFlight
  <2>3. Overwrite(sheet', plan[c]) = sheet'
    BY <1>2, <2>2, OverwriteIsIdempotent
  <2>4. Ascending(sheet')
    BY <1>2 DEF OrderKept, InFlight
  <2> QED BY <2>1, <2>3, <2>4 DEF OrderKept
<1> QED BY <1>1, <1>2 DEF Effect

LEMMA NextOrderInv ==
  ASSUME MaxInFlight = 1, OrderlyConstants
  PROVE  OrderInv /\ [Next]_vars => OrderInv'
<1> SUFFICES ASSUME OrderInv, [Next]_vars
             PROVE  OrderInv'
  OBVIOUS
<1>1. SerialInv'
  BY NextSerialInv DEF OrderInv
<1>2. SerialInv /\ IInv /\ TypeOK
  BY DEF OrderInv, SerialInv, IInv
<1>3. ASSUME NEW c \in Calls, Begin(c) \/ Refuse(c)
      PROVE  IdleHasNoRequest' /\ (OnlyWords' => OrderKept')
  <2>1. IdleHasNoRequest'
    BY <1>2, <1>3 DEF Begin, Refuse, Finish, OrderInv, IdleHasNoRequest, TypeOK
  <2>2. OnlyWords' => OnlyWords
    BY <1>2, <1>3 DEF Begin, Refuse, Finish, OrderInv, IdleHasNoRequest, OnlyWords, TypeOK
  <2>3. OrderKept => OrderKept'
    BY <1>2, <1>3 DEF Begin, Refuse, Finish, OrderKept, TypeOK
  <2> QED BY <2>1, <2>2, <2>3 DEF OrderInv
<1>4. ASSUME NEW c \in Calls, RefuseDate(c) \/ DryRun(c) \/ RefuseRange(c) \/ ReadBackRange(c)
      PROVE  IdleHasNoRequest' /\ (OnlyWords' => OrderKept')
  <2>1. IdleHasNoRequest' /\ (OnlyWords' <=> OnlyWords)
    BY <1>2, <1>4 DEF RefuseDate, DryRun, RefuseRange, ReadBackRange, Finish, OrderInv,
       IdleHasNoRequest, OnlyWords, TypeOK
  <2>2. OrderKept => OrderKept'
    BY <1>2, <1>4 DEF RefuseDate, DryRun, RefuseRange, ReadBackRange, Finish, OrderKept,
       TypeOK
  <2> QED BY <2>1, <2>2 DEF OrderInv
<1>5. ASSUME NEW c \in Calls, PlanWrite(c)
      PROVE  IdleHasNoRequest' /\ (OnlyWords' => OrderKept')
  <2>1. IdleHasNoRequest' /\ (OnlyWords' <=> OnlyWords)
    BY <1>2, <1>5 DEF PlanWrite, OrderInv, IdleHasNoRequest, OnlyWords, TypeOK
  <2>2. ASSUME OnlyWords PROVE OrderKept'
    <3>1. Ascending(sheet) /\ Ascending(Overwrite(sheet, PlanFor(sheet, req[c])))
      BY <1>2, <1>5, <2>2, PlanKeepsTheOrder DEF PlanWrite, OrderInv, OrderKept
    <3>2. sheet' = sheet /\ plan'[c] = PlanFor(sheet, req[c])
      BY <1>2, <1>5 DEF PlanWrite, TypeOK
    <3>3. \A d \in Calls \ {c} : pc'[d] = pc[d] /\ plan'[d] = plan[d]
      BY <1>2, <1>5 DEF PlanWrite, TypeOK
    <3> QED BY <2>2, <3>1, <3>2, <3>3 DEF OrderInv, OrderKept
  <2> QED BY <2>1, <2>2
<1>6. ASSUME NEW c \in Calls, Write(c)
      PROVE  IdleHasNoRequest' /\ (OnlyWords' => OrderKept')
  <2>1. IdleHasNoRequest' /\ (OnlyWords' <=> OnlyWords)
    BY <1>2, <1>6 DEF Write, OrderInv, IdleHasNoRequest, OnlyWords, TypeOK
  <2>2. \A d \in Calls : pc'[d] # "writing"
    BY <1>2, <1>6 DEF Write, SerialInv, AtMostOneInFlight, InFlight, TypeOK
  <2>3. OrderKept => Ascending(sheet')
    BY <1>6 DEF Write, OrderKept
  <2> QED BY <2>1, <2>2, <2>3 DEF OrderInv, OrderKept
<1>7. ASSUME NEW c \in Calls, Retry(c) \/ GiveUp(c) \/ Fail(c)
      PROVE  IdleHasNoRequest' /\ (OnlyWords' => OrderKept')
  <2>1. c \in InFlight /\ Effect(c) /\ plan' = plan
    BY <1>7 DEF Retry, GiveUp, Fail
  <2>2. /\ IdleHasNoRequest' /\ (OnlyWords' <=> OnlyWords)
        /\ \A d \in Calls : pc'[d] = "writing" => pc[d] = "writing"
    BY <1>2, <1>7 DEF Retry, GiveUp, Fail, Finish, OrderInv, IdleHasNoRequest, OnlyWords,
       TypeOK
  <2>3. OrderKept => OrderKept'
    BY <1>2, <2>1, <2>2, EffectKeepsTheOrder
  <2> QED BY <2>2, <2>3 DEF OrderInv
<1>8. CASE Restart
  BY <1>1, <1>2, <1>8 DEF Restart, Lose, OrderInv, IdleHasNoRequest, OnlyWords, OrderKept,
     TypeOK, InFlight
<1>9. CASE Quiet \/ UNCHANGED vars
  BY <1>1, <1>9 DEF Quiet, vars, callVars, OrderInv, IdleHasNoRequest, OnlyWords, OrderKept
<1> QED
  BY <1>1, <1>3, <1>4, <1>5, <1>6, <1>7, <1>8, <1>9 DEF OrderInv, Next, Step

\* When calls do not overlap, blocks stay in calendar order, provided dates
\* read back as they were written and no item is named like one.
THEOREM SerialBlocksAscend ==
  ASSUME MaxInFlight = 1, OrderlyConstants
  PROVE  Spec => []BlocksAscend
<1>1. OrderInv => BlocksAscend
  BY DEF OrderInv, OrderKept, OnlyWords, BlocksAscend
<1> QED BY <1>1, InitOrderInv, NextOrderInv, PTL DEF Spec

-----------------------------------------------------------------------------
(* When calls do not overlap, every session that is answered is on file.   *)

\* The items of a request are in the tab, under a date that fits the one named.
Filed(s, p, r) ==
  \A i \in DOMAIN r.items :
    LET q == RowOfItem(p, r, i)
    IN /\ q \in Rows
       /\ s[q] = ItemRow(r.items[i])
       /\ IF r.mode = "append-to-existing"
          THEN BlockRow(s, q) # 0 => BlockDate(s, q) <= r.target
          ELSE BlockRow(s, q) # 0 /\ BlockDate(s, q) = r.target

\* A write not applied yet: it is what would be planned from the tab as it is.
Fresh(s, p, r) == p = PlanFor(s, r) /\ ~OutOfOrder(s, r.target)

\* A write that has been applied.
Applied(s, p, r) ==
  /\ p.first # 0
  /\ Fits(p)
  /\ Overwrite(s, p) = s
  /\ EndsWith(p.rows, r.items)
  /\ NamesAreWords(r) => Filed(s, p, r)

\* A pending write is as planned from the tab until the attempt that applies
\* it; after that it would change nothing, and what it wrote stays.
FileInv ==
  /\ SerialInv
  /\ \A c \in Calls :
       /\ pc[c] = "writing" =>
            Fresh(sheet, plan[c], req[c]) \/ Applied(sheet, plan[c], req[c])
       /\ pc[c] = "checking" => Applied(sheet, plan[c], req[c])
       /\ pc[c] # "done" => outcome[c] = "none"
       /\ outcome[c] = "ok" =>
            /\ req[c] \in Requests /\ Valid(req[c])
            /\ verified[c]
            /\ NamesAreWords(req[c]) => Filed(sheet, plan[c], req[c])

LEMMA InitFileInv == Init => FileInv
BY InitSerialInv DEF Init, FileInv

\* A fresh write, once applied, has filed its session.
LEMMA FreshIsFiled ==
  ASSUME FaithfulDates, NEW s \in Sheet, NEW r \in Requests, Valid(r),
         NEW p \in Plan, Fresh(s, p, r), Fits(p), NamesAreWords(r)
  PROVE  Filed(Overwrite(s, p), p, r)
<1> DEFINE t == Overwrite(s, p)
           d == r.target
<1> SUFFICES ASSUME NEW i \in DOMAIN r.items
             PROVE  LET q == RowOfItem(p, r, i)
                    IN /\ q \in Rows
                       /\ t[q] = ItemRow(r.items[i])
                       /\ IF r.mode = "append-to-existing"
                          THEN BlockRow(t, q) # 0 => BlockDate(t, q) <= d
                          ELSE BlockRow(t, q) # 0 /\ BlockDate(t, q) = d
  BY DEF Filed
<1> DEFINE q == RowOfItem(p, r, i)
           n == Len(r.items)
<1>1. /\ d \in Dates /\ r.mode \in Modes /\ r.items \in Seq(Item)
      /\ d \in Nat /\ ReadBack[d] = d
  BY ValidRequests, LayoutAssumption DEF FaithfulDates
<1>2. /\ p = PlanSession(s, d, r.items, r.mode)
      /\ LastBlockRow(s) # 0 => ~(d < BlockDate(s, MaxRow))
  BY DEF Fresh, PlanFor, OutOfOrder
<1>3. /\ p.first > LastPopulatedRow(s) /\ LastPopulatedRow(s) \in Nat
      /\ p.first \in Nat /\ Len(p.rows) \in Nat /\ n \in Nat /\ MaxRow \in Nat
      /\ i \in 1..n /\ p.rows \in Seq(Row)
  BY <1>1, <1>2, PlanSessionType, LastPopulatedRowBounds, LayoutAssumption DEF Plan
<1>4. Len(p.rows) >= n /\ p.rows[Len(p.rows) - n + i] = ItemRow(r.items[i])
  <2>1. EndsWith(p.rows, r.items)
    BY <1>1, <1>2, PlannedItems
  <2> QED BY <1>3, <2>1 DEF EndsWith
<1>5. q = p.first + Len(p.rows) - n + i - 1
  BY DEF RowOfItem
<1> HIDE DEF q, n
<1>6. q \in Rows /\ q \in PlannedRows(p) /\ q - p.first + 1 = Len(p.rows) - n + i
  <2>1. Len(p.rows) >= n
    BY <1>4
  <2>2. q >= p.first /\ q <= p.first + Len(p.rows) - 1 /\ q \in Int
    BY <1>3, <1>5, <2>1
  <2>3. q - p.first + 1 = Len(p.rows) - n + i
    BY <1>3, <1>5
  <2> QED BY <1>3, <2>2, <2>3 DEF Fits, Rows, PlannedRows
<1>7. t[q] = ItemRow(r.items[i])
  BY <1>4, <1>6 DEF Overwrite
<1>8. \A j \in DOMAIN r.items : r.items[j].name \notin Dates
  BY DEF NamesAreWords
<1>9. /\ p.mode = "append-to-existing" =>
           /\ BlockRow(t, q) = LastBlockRow(s)
           /\ LastBlockRow(s) # 0 => BlockDate(t, q) = BlockDate(s, MaxRow)
      /\ p.mode # "append-to-existing" => BlockRow(t, q) = p.first /\ BlockDate(t, q) = d
  BY <1>1, <1>2, <1>6, <1>8, PlannedBlock
<1>10. p.mode = ResolvedMode(s, d, r.mode)
  BY <1>2 DEF PlanSession
<1>11. LastBlockRow(s) # 0 => BlockDate(s, MaxRow) \in Nat
  BY <1>3, BlockDateBounds, LayoutAssumption DEF LastBlockRow
<1> HIDE DEF t, q, d
<1>12. CASE r.mode = "append-to-existing"
  <2>1. p.mode = "append-to-existing"
    BY <1>10, <1>12 DEF ResolvedMode
  <2>2. BlockRow(t, q) # 0 => BlockDate(t, q) <= d
    BY <1>1, <1>2, <1>9, <1>11, <2>1 DEF d
  <2> QED BY <1>6, <1>7, <1>12, <2>2 DEF q
<1>13. CASE r.mode # "append-to-existing"
  <2>1. p.mode = "append-to-existing" =>
          LastBlockRow(s) # 0 /\ BlockDate(s, MaxRow) = d
    BY <1>10, <1>13 DEF ResolvedMode
  <2>2. BlockRow(t, q) # 0 /\ BlockDate(t, q) = d
    BY <1>3, <1>9, <2>1
  <2> QED BY <1>6, <1>7, <1>13, <2>2 DEF q
<1> QED BY <1>12, <1>13

LEMMA FreshIsApplied ==
  ASSUME FaithfulDates, NEW s \in Sheet, NEW r \in Requests, Valid(r),
         NEW p \in Plan, Fresh(s, p, r), Fits(p)
  PROVE  Applied(Overwrite(s, p), p, r)
<1>1. r.target \in Dates /\ r.mode \in Modes /\ r.items \in Seq(Item)
  BY ValidRequests
<1>2. p = PlanSession(s, r.target, r.items, r.mode)
  BY DEF Fresh, PlanFor
<1>3. p.first # 0
  <2>1. p.first > LastPopulatedRow(s)
    BY <1>1, <1>2, PlanSessionType
  <2> QED BY <2>1, LastPopulatedRowBounds, LayoutAssumption DEF Plan
<1>4. EndsWith(p.rows, r.items)
  BY <1>1, <1>2, PlannedItems
<1>5. Overwrite(Overwrite(s, p), p) = Overwrite(s, p)
  BY OverwriteIsIdempotent
<1>6. NamesAreWords(r) => Filed(Overwrite(s, p), p, r)
  BY FreshIsFiled
<1> QED BY <1>3, <1>4, <1>5, <1>6 DEF Applied

\* The rows read back are the planned ones, and the last of them is not blank.
LEMMA AppliedIsVerified ==
  ASSUME NEW s \in Sheet, NEW r \in Requests, Valid(r), NEW p \in Plan, Applied(s, p, r)
  PROVE  Verified(s, p)
<1> DEFINE n == Len(r.items)
           last == p.first + Len(p.rows) - 1
<1>1. /\ r.items \in Seq(Item) /\ n \in Nat /\ n # 0
      /\ Len(p.rows) \in Nat /\ p.first \in Nat /\ p.first # 0 /\ MaxRow \in Nat
      /\ Len(p.rows) >= n
  BY ValidRequests, LayoutAssumption DEF Valid, Plan, Applied, EndsWith
<1>2. ASSUME NEW q \in PlannedRows(p)
      PROVE  q \in Rows /\ s[q] = p.rows[q - p.first + 1]
  <2>1. q \in Rows
    BY <1>1 DEF Applied, Fits, PlannedRows, Rows
  <2> QED BY <2>1 DEF Applied, Overwrite
<1>3. last \in PlannedRows(p) /\ last - p.first + 1 = Len(p.rows)
  BY <1>1 DEF PlannedRows
<1>4. Len(p.rows) - n + n = Len(p.rows) /\ n \in 1..n
  BY <1>1
<1>5. p.rows[Len(p.rows)] = ItemRow(r.items[n])
  BY <1>4 DEF Applied, EndsWith
<1>6. ItemRow(r.items[n])[0] # Blank /\ 0 \in Columns
  BY <1>1, <1>4, LayoutAssumption DEF Valid, ItemRow, Columns
<1>7. Populated(s[last])
  BY <1>2, <1>3, <1>5, <1>6 DEF Populated
<1> QED BY <1>2, <1>7 DEF Verified

\* What is on file stays there when another session is written below it.
LEMMA FiledStays ==
  ASSUME NEW s \in Sheet, NEW p \in Plan, p.first > LastPopulatedRow(s),
         NEW r \in Requests, Valid(r), NEW w, Filed(s, w, r)
  PROVE  Filed(Overwrite(s, p), w, r)
<1> SUFFICES ASSUME NEW i \in DOMAIN r.items
             PROVE  LET q == RowOfItem(w, r, i)
                        t == Overwrite(s, p)
                    IN /\ q \in Rows
                       /\ t[q] = ItemRow(r.items[i])
                       /\ IF r.mode = "append-to-existing"
                          THEN BlockRow(t, q) # 0 => BlockDate(t, q) <= r.target
                          ELSE BlockRow(t, q) # 0 /\ BlockDate(t, q) = r.target
  BY DEF Filed
<1> DEFINE q == RowOfItem(w, r, i)
           t == Overwrite(s, p)
<1>1. /\ q \in Rows /\ s[q] = ItemRow(r.items[i])
      /\ IF r.mode = "append-to-existing"
         THEN BlockRow(s, q) # 0 => BlockDate(s, q) <= r.target
         ELSE BlockRow(s, q) # 0 /\ BlockDate(s, q) = r.target
  BY DEF Filed
<1>2. ItemRow(r.items[i])[0] # Blank /\ 0 \in Columns
  BY LayoutAssumption DEF Valid, ItemRow, Columns
<1>3. Populated(s[q])
  BY <1>1, <1>2 DEF Populated
<1>4. /\ t[q] = s[q] /\ BlockRow(t, q) = BlockRow(s, q)
      /\ BlockRow(s, q) # 0 => BlockDate(t, q) = BlockDate(s, q)
  BY <1>1, <1>3, WriteKeepsTheBlocks
<1> QED BY <1>1, <1>4

\* Applying the pending write, for the first time or again, files its session
\* and leaves the others on file.
LEMMA PendingFiles ==
  ASSUME FaithfulDates, FileInv, NEW c \in Calls, pc[c] = "writing", Fits(plan[c])
  PROVE  /\ Applied(Overwrite(sheet, plan[c]), plan[c], req[c])
         /\ \A d \in Calls : outcome[d] = "ok" /\ NamesAreWords(req[d]) =>
              Filed(Overwrite(sheet, plan[c]), plan[d], req[d])
<1>1. sheet \in Sheet /\ plan[c] \in Plan /\ req[c] \in Requests /\ Valid(req[c])
  BY DEF FileInv, SerialInv, IInv, TypeOK, InFlightOK
<1>2. CASE Fresh(sheet, plan[c], req[c])
  <2>1. Applied(Overwrite(sheet, plan[c]), plan[c], req[c])
    BY <1>1, <1>2, FreshIsApplied
  <2>2. plan[c].first > LastPopulatedRow(sheet)
    BY <1>1, <1>2, PlanForType DEF Fresh
  <2>3. ASSUME NEW d \in Calls, outcome[d] = "ok", NamesAreWords(req[d])
        PROVE  Filed(Overwrite(sheet, plan[c]), plan[d], req[d])
    <3>1. req[d] \in Requests /\ Valid(req[d]) /\ Filed(sheet, plan[d], req[d])
      BY <2>3 DEF FileInv
    <3> QED BY <1>1, <2>2, <3>1, FiledStays
  <2> QED BY <2>1, <2>3
<1>3. CASE Applied(sheet, plan[c], req[c])
  <2>1. Overwrite(sheet, plan[c]) = sheet
    BY <1>3 DEF Applied
  <2> QED BY <1>3, <2>1 DEF FileInv
<1> QED BY <1>2, <1>3 DEF FileInv

\* What an attempt leaves, whether it took effect or not.
LEMMA EffectFiles ==
  ASSUME FaithfulDates, FileInv, NEW c \in InFlight, Effect(c)
  PROVE  /\ pc[c] = "writing" =>
              Fresh(sheet', plan[c], req[c]) \/ Applied(sheet', plan[c], req[c])
         /\ pc[c] = "checking" => Applied(sheet', plan[c], req[c])
         /\ \A d \in Calls : outcome[d] = "ok" /\ NamesAreWords(req[d]) =>
              Filed(sheet', plan[d], req[d])
<1>1. CASE UNCHANGED sheet
  BY <1>1 DEF FileInv, InFlight
<1>2. CASE /\ pc[c] = "writing" /\ Fits(plan[c])
           /\ sheet' = Overwrite(sheet, plan[c])
  BY <1>2, PendingFiles DEF InFlight
<1> QED BY <1>1, <1>2 DEF Effect

\* The call in flight is the only one there is.
LEMMA OthersAreNotInFlight ==
  ASSUME SerialInv, NEW c \in InFlight, NEW d \in Calls \ {c}
  PROVE  pc[d] \in {"idle", "done"}
BY DEF SerialInv, AtMostOneInFlight, InFlight

LEMMA NextFileInv ==
  ASSUME MaxInFlight = 1, FaithfulDates
  PROVE  FileInv /\ [Next]_vars => FileInv'
<1> SUFFICES ASSUME FileInv, [Next]_vars
             PROVE  FileInv'
  OBVIOUS
<1>1. SerialInv'
  BY NextSerialInv DEF FileInv
<1>2. SerialInv /\ IInv /\ TypeOK /\ InFlightOK
  BY DEF FileInv, SerialInv, IInv
<1> DEFINE Kept(d) ==
      /\ pc[d] = "writing" =>
           Fresh(sheet, plan[d], req[d]) \/ Applied(sheet, plan[d], req[d])
      /\ pc[d] = "checking" => Applied(sheet, plan[d], req[d])
      /\ pc[d] # "done" => outcome[d] = "none"
      /\ outcome[d] = "ok" =>
           /\ req[d] \in Requests /\ Valid(req[d])
           /\ verified[d]
           /\ NamesAreWords(req[d]) => Filed(sheet, plan[d], req[d])
<1>3. \A d \in Calls : Kept(d)
  BY DEF FileInv
<1>4. SUFFICES ASSUME NEW d \in Calls PROVE Kept(d)'
  BY <1>1 DEF FileInv
<1>5. ASSUME NEW c \in Calls, Begin(c) \/ Refuse(c) \/ RefuseDate(c) \/ DryRun(c)
                               \/ RefuseRange(c)
      PROVE  Kept(d)'
  BY <1>2, <1>3, <1>5 DEF Begin, Refuse, RefuseDate, DryRun, RefuseRange, Finish, TypeOK
<1>6. ASSUME NEW c \in Calls, PlanWrite(c)
      PROVE  Kept(d)'
  BY <1>2, <1>3, <1>6 DEF PlanWrite, TypeOK, Fresh
<1>7. ASSUME NEW c \in Calls, Write(c)
      PROVE  Kept(d)'
  <2>1. /\ Applied(sheet', plan[c], req[c])
        /\ outcome[d] = "ok" /\ NamesAreWords(req[d]) => Filed(sheet', plan[d], req[d])
    BY <1>7, PendingFiles DEF Write
  <2>2. d # c => pc[d] \in {"idle", "done"}
    BY <1>2, <1>7, OthersAreNotInFlight DEF Write, InFlight
  <2> QED BY <1>2, <1>3, <1>7, <2>1, <2>2 DEF Write, TypeOK
<1>8. ASSUME NEW c \in Calls, ReadBackRange(c)
      PROVE  Kept(d)'
  <2>1. /\ req[c] \in Requests /\ Valid(req[c]) /\ plan[c] \in Plan /\ sheet \in Sheet
        /\ Applied(sheet, plan[c], req[c])
    BY <1>2, <1>3, <1>8 DEF ReadBackRange, InFlightOK, TypeOK
  <2>2. Verified(sheet, plan[c])
    BY <2>1, AppliedIsVerified
  <2>3. NamesAreWords(req[c]) => Filed(sheet, plan[c], req[c])
    BY <2>1 DEF Applied
  <2> QED BY <1>2, <1>3, <1>8, <2>1, <2>2, <2>3 DEF ReadBackRange, Finish, TypeOK
<1>9. ASSUME NEW c \in Calls, Retry(c) \/ GiveUp(c) \/ Fail(c)
      PROVE  Kept(d)'
  <2>1. c \in InFlight /\ Effect(c) /\ req' = req /\ plan' = plan /\ verified' = verified
    BY <1>9 DEF Retry, GiveUp, Fail
  <2>2. /\ pc[c] = "writing" =>
             Fresh(sheet', plan[c], req[c]) \/ Applied(sheet', plan[c], req[c])
        /\ pc[c] = "checking" => Applied(sheet', plan[c], req[c])
        /\ outcome[d] = "ok" /\ NamesAreWords(req[d]) => Filed(sheet', plan[d], req[d])
    BY <2>1, EffectFiles
  <2>3. d # c => pc[d] \in {"idle", "done"}
    BY <1>2, <2>1, OthersAreNotInFlight
  <2>4. /\ pc'[d] \in {pc[d], "done"} /\ (pc'[d] # pc[d] => outcome'[d] # "ok")
        /\ outcome'[d] # outcome[d] => pc'[d] = "done" /\ outcome'[d] # "ok"
    BY <1>2, <1>9 DEF Retry, GiveUp, Fail, Finish, TypeOK, InFlight
  <2> QED BY <1>3, <2>1, <2>2, <2>3, <2>4
<1>10. CASE Restart
  BY <1>2, <1>3, <1>10 DEF Restart, Lose, TypeOK, InFlight
<1>11. CASE Quiet \/ UNCHANGED vars
  BY <1>3, <1>11 DEF Quiet, vars, callVars
<1> QED
  BY <1>5, <1>6, <1>7, <1>8, <1>9, <1>10, <1>11 DEF Next, Step

LEMMA FileInvariance ==
  ASSUME MaxInFlight = 1, FaithfulDates
  PROVE  Spec => []FileInv
BY InitFileInv, NextFileInv, PTL DEF Spec

\* When calls do not overlap and dates read back as they were written, a
\* successful answer is true and stays true, however often its write had to be
\* repeated and whatever is logged after it.
THEOREM SerialFiledUnderItsDate ==
  ASSUME MaxInFlight = 1, FaithfulDates
  PROVE  Spec => []FiledUnderItsDate
<1>1. FileInv => FiledUnderItsDate
  BY DEF FileInv, FiledUnderItsDate, Filed
<1> QED BY <1>1, FileInvariance, PTL

-----------------------------------------------------------------------------
(* When calls do not overlap, log_session implements a training log.       *)

\* An item row holds something, and belongs to a block.
LEMMA ItemRowsArePopulated ==
  ASSUME NEW s \in Sheet, NEW q \in ItemRows(s)
  PROVE  /\ q \in Rows /\ q \in Nat /\ Populated(s[q])
         /\ BlockRow(s, q) \in DateRows(s) /\ BlockRow(s, q) <= q
         /\ BlockDate(s, q) \in Nat
<1>1. q \in Rows /\ q \in Nat /\ s[q][0] \in Words /\ BlockRow(s, q) # 0
  BY DEF ItemRows, Rows
<1>2. Populated(s[q])
  BY <1>1, LayoutAssumption DEF Populated, Columns
<1> QED BY <1>1, <1>2, BlockRowBounds, BlockDateBounds, LayoutAssumption

\* Read down an ordered tab, the entries of the log are in order of date.
LEMMA EntriesAreOrdered ==
  ASSUME NEW s \in Sheet, Ascending(s), NEW p \in ItemRows(s), NEW q \in ItemRows(s), p < q
  PROVE  BlockDate(s, p) <= BlockDate(s, q)
<1>1. /\ p \in Nat /\ q \in Nat
      /\ BlockRow(s, p) \in DateRows(s) /\ BlockRow(s, q) \in DateRows(s)
      /\ BlockRow(s, p) <= p
      /\ BlockDate(s, p) \in Nat /\ BlockDate(s, q) \in Nat
  BY ItemRowsArePopulated
<1>2. BlockRow(s, p) \in Nat /\ BlockRow(s, q) \in Nat
  BY <1>1 DEF DateRows, Rows
<1>3. BlockRow(s, p) <= BlockRow(s, q)
  BY <1>1, <1>2, BlockRowBounds
<1> QED BY <1>1, <1>2, <1>3 DEF Ascending, BlockDate

\* Writing a session that continues the tab keeps every entry, and adds
\* entries below them, all of one date, no earlier than any before.
LEMMA SessionExtendsTheLog ==
  ASSUME FaithfulDates, NEW s \in Sheet, Ascending(s), NEW r \in Requests, Valid(r),
         NamesAreWords(r), NEW p \in Plan, Fresh(s, p, r)
  PROVE  LET t == Overwrite(s, p)
         IN /\ ItemRows(s) \subseteq ItemRows(t)
            /\ \A q \in ItemRows(s) : LogOf(t)[q] = LogOf(s)[q]
            /\ \A n \in ItemRows(t) \ ItemRows(s) :
                 /\ \A m \in ItemRows(t) \ ItemRows(s) : BlockDate(t, m) = BlockDate(t, n)
                 /\ \A q \in ItemRows(s) : q < n /\ BlockDate(s, q) <= BlockDate(t, n)
<1> DEFINE t == Overwrite(s, p)
           d == r.target
<1>1. /\ d \in Dates /\ r.mode \in Modes /\ r.items \in Seq(Item)
      /\ d \in Nat /\ ReadBack[d] = d /\ MaxRow \in Nat
      /\ \A i \in DOMAIN r.items : r.items[i].name \notin Dates
  BY ValidRequests, LayoutAssumption DEF FaithfulDates, NamesAreWords
<1>2. /\ p = PlanSession(s, d, r.items, r.mode)
      /\ LastBlockRow(s) # 0 => ~(d < BlockDate(s, MaxRow))
  BY DEF Fresh, PlanFor, OutOfOrder
<1>3. p.first > LastPopulatedRow(s) /\ t \in Sheet /\ p.first \in Nat
  BY <1>1, <1>2, PlanSessionType, OverwriteType DEF Plan
<1> HIDE DEF t, d
<1>4. ASSUME NEW q \in ItemRows(s)
      PROVE  /\ q \in ItemRows(t) /\ LogOf(t)[q] = LogOf(s)[q] /\ q < p.first
             /\ BlockDate(s, q) \in Nat
             /\ LastBlockRow(s) # 0 /\ BlockDate(s, q) <= BlockDate(s, MaxRow)
  <2>1. /\ q \in Rows /\ Populated(s[q]) /\ BlockRow(s, q) \in DateRows(s)
        /\ BlockDate(s, q) \in Nat
    BY ItemRowsArePopulated
  <2>2. /\ q < p.first /\ t[q] = s[q] /\ BlockRow(t, q) = BlockRow(s, q)
        /\ BlockRow(s, q) # 0 => BlockDate(t, q) = BlockDate(s, q)
    BY <1>3, <2>1, WriteKeepsTheBlocks DEF t
  <2>3. BlockDate(t, q) = BlockDate(s, q)
    BY <2>1, <2>2 DEF DateRows, Rows
  <2>4. q \in ItemRows(t)
    BY <2>2 DEF ItemRows
  <2>5. LastBlockRow(s) # 0 /\ s[BlockRow(s, q)][0] <= BlockDate(s, MaxRow)
    BY <2>1, LastBlockIsLatest
  <2> QED BY <2>1, <2>2, <2>3, <2>4, <2>5 DEF LogOf, BlockDate
<1>5. ASSUME NEW n \in ItemRows(t) \ ItemRows(s)
      PROVE  /\ n \in PlannedRows(p) /\ n \in Nat /\ n >= p.first
             /\ p.mode = "append-to-existing" =>
                  LastBlockRow(s) # 0 /\ BlockDate(t, n) = BlockDate(s, MaxRow)
             /\ p.mode # "append-to-existing" => BlockDate(t, n) = d
  <2>1. n \in Rows /\ n \in Nat /\ t[n][0] \in Words /\ BlockRow(t, n) # 0
    BY DEF ItemRows, Rows
  <2>2. n \in PlannedRows(p)
    <3>1. SUFFICES ASSUME n \notin PlannedRows(p) PROVE FALSE
      OBVIOUS
    <3>2. t[n] = s[n]
      BY <2>1, <3>1 DEF t, Overwrite
    <3>3. Populated(s[n])
      BY <2>1, <3>2, LayoutAssumption DEF Populated, Columns
    <3>4. BlockRow(t, n) = BlockRow(s, n)
      BY <1>3, <2>1, <3>3, WriteKeepsTheBlocks DEF t
    <3> QED BY <2>1, <3>2, <3>4 DEF ItemRows
  <2>3. n >= p.first
    BY <1>3, <2>1, <2>2 DEF PlannedRows
  <2>4. /\ p.mode = "append-to-existing" =>
             /\ BlockRow(t, n) = LastBlockRow(s)
             /\ LastBlockRow(s) # 0 => BlockDate(t, n) = BlockDate(s, MaxRow)
        /\ p.mode # "append-to-existing" => BlockDate(t, n) = d
    BY <1>1, <1>2, <2>1, <2>2, PlannedBlock DEF t
  <2> QED BY <2>1, <2>2, <2>3, <2>4
<1>6. LastBlockRow(s) # 0 => BlockDate(s, MaxRow) \in Nat
  BY <1>1, BlockDateBounds, LayoutAssumption DEF LastBlockRow
<1>7. ASSUME NEW n \in ItemRows(t) \ ItemRows(s), NEW q \in ItemRows(s)
      PROVE  q < n /\ BlockDate(s, q) <= BlockDate(t, n)
  <2>1. q \in Nat
    BY ItemRowsArePopulated
  <2>2. q < n
    BY <1>3, <1>4, <1>5, <2>1
  <2>3. BlockDate(s, MaxRow) \in Nat /\ ~(d < BlockDate(s, MaxRow))
    BY <1>2, <1>4, <1>6
  <2> QED BY <1>1, <1>4, <1>5, <2>2, <2>3
<1> QED BY <1>4, <1>5, <1>7 DEF t

\* The log is the tab's item rows.
LEMMA LogPositions ==
  ASSUME NEW s
  PROVE  /\ DOMAIN LogOf(s) = ItemRows(s)
         /\ \A q \in ItemRows(s) : /\ LogOf(s)[q].date = BlockDate(s, q)
                                   /\ LogOf(s)[q].row = s[q]
BY DEF LogOf

LEMMA SerialStepsRecord ==
  ASSUME FaithfulDates, \A r \in Requests : NamesAreWords(r)
  PROVE  FileInv /\ Ascending(sheet) /\ [Next]_vars => [Log!Next]_(LogOf(sheet))
<1> SUFFICES ASSUME FileInv, Ascending(sheet), Next, sheet' # sheet,
                    LogOf(sheet)' # LogOf(sheet)
             PROVE  Log!Next
  BY DEF vars
<1>1. PICK c \in Calls : pc[c] = "writing" /\ sheet' = Overwrite(sheet, plan[c])
  BY OnlyWritesChangeTheSheet
<1>2. /\ sheet \in Sheet /\ plan[c] \in Plan /\ req[c] \in Requests /\ Valid(req[c])
      /\ NamesAreWords(req[c])
  BY <1>1 DEF FileInv, SerialInv, IInv, TypeOK, InFlightOK
<1>3. Fresh(sheet, plan[c], req[c])
  BY <1>1 DEF FileInv, Applied
<1> DEFINE t == Overwrite(sheet, plan[c])
<1>4. /\ ItemRows(sheet) \subseteq ItemRows(t)
      /\ \A q \in ItemRows(sheet) : LogOf(t)[q] = LogOf(sheet)[q]
      /\ \A n \in ItemRows(t) \ ItemRows(sheet) :
           /\ \A m \in ItemRows(t) \ ItemRows(sheet) : BlockDate(t, m) = BlockDate(t, n)
           /\ \A q \in ItemRows(sheet) : q < n /\ BlockDate(sheet, q) <= BlockDate(t, n)
  BY <1>2, <1>3, SessionExtendsTheLog
<1> HIDE DEF t
<1>5. LogOf(sheet)' = LogOf(t)
  BY <1>1 DEF t
<1>6. \E n : n \in ItemRows(t) \ ItemRows(sheet)
  <2>1. SUFFICES ASSUME ItemRows(t) = ItemRows(sheet) PROVE LogOf(t) = LogOf(sheet)
    BY <1>4, <1>5
  <2> QED BY <1>4, <2>1 DEF LogOf
<1>7. PICK n : n \in ItemRows(t) \ ItemRows(sheet)
  BY <1>6
<1>8. Log!NewPositions = ItemRows(t) \ ItemRows(sheet) /\ Log!Positions = ItemRows(sheet)
  BY <1>5, LogPositions DEF Log!NewPositions, Log!Positions
<1>9. Log!Record(LogOf(t)[n].date)
  BY <1>4, <1>5, <1>7, <1>8, LogPositions DEF Log!Record, Log!Keeps
<1> QED BY <1>5, <1>7, <1>8, <1>9 DEF Log!Next

\* When calls do not overlap, dates read back as they were written, the tab is
\* found in order and no item is named like a date, the tab is a training log:
\* a session appears in one step however many requests it took, below what is
\* recorded and no earlier, and nothing recorded is ever changed.
THEOREM SerialImplementsTrainingLog ==
  ASSUME MaxInFlight = 1, OrderlyConstants, \A r \in Requests : NamesAreWords(r)
  PROVE  Spec => ImplementsTrainingLog
<1>1. FaithfulDates
  BY DEF OrderlyConstants
<1>2. Init => Log!Init
  <2> SUFFICES ASSUME Init PROVE Log!Init
    OBVIOUS
  <2>1. sheet \in Sheet /\ Ascending(sheet)
    BY CallAssumption DEF Init, OrderlyConstants
  <2> QED BY <2>1, LogPositions, EntriesAreOrdered DEF Log!Init, Log!Positions
<1>3. OrderInv => Ascending(sheet)
  BY CallAssumption DEF OrderInv, OrderKept, OnlyWords, SerialInv, IInv, TypeOK
<1>4. FileInv /\ OrderInv /\ [Next]_vars => [Log!Next]_(LogOf(sheet))
  BY <1>1, <1>3, SerialStepsRecord
<1>5. Spec => []OrderInv
  BY InitOrderInv, NextOrderInv, PTL DEF Spec
<1>6. Spec => []FileInv
  BY <1>1, FileInvariance
<1> QED BY <1>2, <1>4, <1>5, <1>6, PTL DEF Spec, ImplementsTrainingLog, Log!Spec
=============================================================================
