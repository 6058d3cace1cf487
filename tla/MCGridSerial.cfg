CONSTANTS
  c1 = c1
  c2 = c2
  Today = Today
  Yesterday = Yesterday
  Unread = Unread
  None = None
  MaxRow = 13
  Width = 4
  LastColumn = 5
  DayColumn = 1
  HeaderOffset <- MCHeaderOffset
  LabelOffset <- MCLabelOffset
  Columns <- MCColumns
  MonthsInYear = 2
  DaysIn <- MCDaysIn
  Profiles <- MCProfiles
  Clients = {c1}
  Requests <- MCRequests
  InitSheets <- MCInitSheets
  FirstDay <- MCFirstDay
  LastDay <- MCLastDay
  Step = 2
  OwnerTexts <- MCOwnerTexts
  OwnerLabels <- MCOwnerLabels
  MaxAttempts = 2
  MaxCalls = 2
  MaxEdits = 1
  Exclusive = TRUE
  KeepsUp = TRUE
SPECIFICATION Spec
INVARIANTS TypeOK PositiveIsRecorded VerifiedIsFound CreatedBlockIsUsable CreatedBlockIsDated OneBlockPerMonth AdviceHolds
PROPERTIES RowsAreKept PreviousIsReplaced ImplementsTimeLedger
