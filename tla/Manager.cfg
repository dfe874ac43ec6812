SPECIFICATION FairSpec
CONSTANTS
  a1 = a1
  a2 = a2
  t1 = t1
  t2 = t2
  NoAddr = NoAddr
  Addrs = {a1, a2}
  Trackers = {t1, t2}
  Attempts = 2
  Rounds = 1
  ChanCap = 1
INVARIANTS
  TypeOK
  OnePeerPerAddr
  WgCountsRunning
  NoPanicBeforeCancel
PROPERTIES
  CancelEnds
  ImplementsAddressLife
CHECK_DEADLOCK FALSE
