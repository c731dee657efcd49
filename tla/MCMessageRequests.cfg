CONSTANTS
  Clients = {c1, c2}
  Msgs = {m1, m2}
  MaxRequests = 2
  MaxFaults = 2
SPECIFICATION FairSpec
INVARIANTS
  NothingUndone
  BatchAtomic
  InsertedOnce
  OneVersionAbility
PROPERTIES
  NoSilentChange
  RequestAnswered
CHECK_DEADLOCK FALSE
