CONSTANTS
  c1 = c1
  c2 = c2
  Today = Today
  Yesterday = Yesterday
  Unread = Unread
  None = None
  MaxRow = 13
  Width = 4
  LastColumn = 5
  DayColumn = 1
  HeaderOffset <- MCHeaderOffset
  LabelOffset <- MCLabelOffset
  Columns <- MCColumns
  MonthsInYear = 2
  DaysIn <- MCDaysIn
  Profiles <- MCProfiles
  Clients = {c1}
  Requests <- NextMonth1
  InitSheets <- DecemberTabs
  FirstDay <- MCFirstDay
  LastDay <- MCFirstDay
  Step = 2
  OwnerTexts <- MCOwnerTexts
  OwnerLabels <- MCOwnerLabels
  MaxAttempts = 2
  MaxCalls = 2
  MaxEdits = 0
  Exclusive = TRUE
  KeepsUp = TRUE
SPECIFICATION Spec
INVARIANTS CreatedBlockIsDated
