CONSTANTS
  press = press
  note = note
  extra = extra
  log1 = log1
  edit1 = edit1
  Blank = Blank
  NoTarget = NoTarget
  None = None
  MaxRow = 8
  Width = 1
  Dates <- MCDates
  Words <- MCWords
  ReadBack <- MCReadBack
  Profiles <- MCProfiles
  LogCalls = {log1}
  LogRequests <- MCLogRequests
  EditCalls = {edit1}
  Edits <- MCEdits
  InitSheets <- MCInitSheets
  MaxAttempts = 2
  MaxEdits = 1
  OwnerText <- MCOwnerText
  Exclusive = TRUE
SPECIFICATION Spec
INVARIANTS TypeOK
PROPERTIES CorrectionHitsTheRowShown OverwrittenTextIsReported HistoryIsKept SessionsNeverMerge
