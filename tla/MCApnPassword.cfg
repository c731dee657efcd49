CONSTANTS
  Rows = {r1, r2}
  Pwds = {p1, p2, long}
  LongPwds = {long}
  NoPwd = none
  MaxKeys = 3
  MaxKeyFaults = 2
SPECIFICATION PasswordSpec
INVARIANTS
  PasswordReadBack
  NeverAnother
  NoPasswordInClear
