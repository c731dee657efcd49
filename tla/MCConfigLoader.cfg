CONSTANTS
  Entries = {1}
  AskedFor <- MCAskedFor
  MaxVersion = 2
  MaxOpen = 1
  MaxFaults = 2
SPECIFICATION Spec
INVARIANTS
  DigestMeansLoaded
PROPERTY CleanLoadLoads
