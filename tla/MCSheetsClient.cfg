CONSTANTS
  read = read
  write = write
  Ops = {read, write}
  MaxAttempts = 3
SPECIFICATION FairSpec
INVARIANTS TypeOK AnswersAreFinal
PROPERTIES KeepsTheContract EveryOperationEnds
