SPECIFICATION Spec
CONSTANTS
  sms = sms
  rcs = rcs
  orphan = orphan
  new = new
  Starts <- Found0
  Msgs = {sms, rcs, orphan, new}
  RcsMsgs = {rcs, orphan, new}
  Collected = {sms, rcs}
  Orphans = {orphan}
  Later = {new}
  Ext = TRUE
  MaxFaults = 1
INVARIANTS
  SchemaComplete
  RcsListedOnce
  FavouritesCarriedOnce
  OpenStoreCurrent
  BackedUpNotLost
  BackedUpServed
