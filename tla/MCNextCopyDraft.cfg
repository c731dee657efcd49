CONSTANTS
  a = a
  ax = ax
  b = b
  LastDigits <- MCLastDigits
  PageSize = 2
  OldDbs <- MCDraftOldDbs
  NewDbs <- MCDraftNewDbs
  Now <- MCNow
  MaxTroubles = 0
  MaxRuns = 2
SPECIFICATION Spec
INVARIANT EveryOldDraftKept
CHECK_DEADLOCK FALSE
