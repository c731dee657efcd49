CONSTANTS
  Msgs = {m1}
  MaxFaults = 0
SPECIFICATION FairSpec
PROPERTIES
  StartedLockedReachesEl2
