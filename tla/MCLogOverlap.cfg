CONSTANTS
  press = press
  squat = squat
  note = note
  c1 = c1
  c2 = c2
  Blank = Blank
  NoTarget = NoTarget
  None = None
  MaxRow = 9
  Width = 1
  Dates <- MCDates
  Words <- MCWords
  ReadBack <- MCReadBack
  Profiles <- MCProfiles
  Calls = {c1, c2}
  Requests <- MCRequests
  InitSheets <- MCInitSheets
  MaxInFlight = 2
  MaxAttempts = 2
SPECIFICATION Spec
PROPERTIES AppendOnly
