SPECIFICATION Spec
CONSTANTS
  c1 = c1
  c2 = c2
  main = main
  voice = voice
  Cards = {c1, c2}
  Types = {main, voice}
  BadType = BadType
  NoCard = NoCard
  MaxFaults = 2
  MaxOpen = 1
INVARIANTS
  AtMostOneDefault
  AckedDurable
PROPERTIES
  RegisterSpec
