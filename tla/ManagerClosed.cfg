SPECIFICATION Spec
CONSTANTS
  a1 = a1
  a2 = a2
  t1 = t1
  t2 = t2
  NoAddr = NoAddr
  Addrs = {a1, a2}
  Trackers = {t1}
  Attempts = 1
  Rounds = 1
  ChanCap = 1
INVARIANTS
  ValidPieceReachesChannel
CHECK_DEADLOCK FALSE
