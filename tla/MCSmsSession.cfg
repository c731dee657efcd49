SPECIFICATION Spec
CONSTANTS
  m1 = m1
  m2 = m2
  p1 = p1
  p2 = p2
  Sessions = {s1, s2}
  Notices = {s2}
  Msgs = {m1}
  RcsMsgs = {m1}
  Parts = {}
  PartOf <- PartOwner
  Readers = {r1}
  MaxFaults = 1
INVARIANTS
  UnreadNotUndercounted
  NoOrphanMessage
  NoOrphanRcs
