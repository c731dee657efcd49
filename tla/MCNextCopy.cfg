CONSTANTS
  a = a
  ax = ax
  b = b
  LastDigits <- MCLastDigits
  PageSize = 2
  OldDbs <- MCOldDbs
  NewDbs <- MCNewDbs
  Now <- MCNow
  MaxTroubles = 2
  MaxRuns = 2
SPECIFICATION Spec
INVARIANTS
  NoDuplicateMessage
  OneSessionPerTel
  MessageInItsSession
  GroupsKept
  RcsLinked
  OldDraftKept
  CountsRight
  ReportHonest
CHECK_DEADLOCK FALSE
