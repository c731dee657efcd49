CONSTANTS
  Msgs = {m1, m2}
  MaxFaults = 2
SPECIFICATION FairSpec
INVARIANTS
  NoAckedLost
  NoResurrection
  DurableSuccessMeansMoved
  OneStoreOfRecord
PROPERTIES
  UnlockSwitchesStore
