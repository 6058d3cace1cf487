CONSTANTS
  press = press
  extra = extra
  e1 = e1
  e2 = e2
  Blank = Blank
  None = None
  MaxRow = 7
  Width = 1
  Dates <- MCDates
  Words <- MCWords
  ReadBack <- MCReadBack
  Calls = {e1, e2}
  Requests <- MCRequests
  InitSheets <- MCInitSheets
  Layouts <- MCLayouts
  MaxAttempts = 2
SPECIFICATION Spec
INVARIANTS TypeOK CorrectionsCompose
PROPERTIES ReplacedTextIsNamed
