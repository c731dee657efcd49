SPECIFICATION Spec
CONSTANTS
  Opkeys = {o1}
  Common = common
  Profiles = {p1}
  Threads = {t1, t2}
  MaxVersion = 2
  MaxId = 2
  MaxFaults = 1
  MaxOpen = 1
SYMMETRY ThreadSymmetry
INVARIANTS
  EditsSurvive
  ChecksumMeansLoaded
  PreferredIsChosen
