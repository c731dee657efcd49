SPECIFICATION Spec
CONSTANTS
  m1 = m1
  m2 = m2
  p1 = p1
  p2 = p2
  Sessions = {s1}
  Notices = {}
  Msgs = {m1, m2}
  RcsMsgs = {m2}
  Parts = {p1, p2}
  PartOf <- PartOwner
  Readers = {}
  MaxFaults = 1
PROPERTIES
  FavoritePartKept
