SPECIFICATION Spec
CONSTANTS
  Blocks = {"b1", "b2"}
  BytesOf <- TwoBlocks
  Size = 3
  Width = 16
  BarSize = 20
  MaxTakes = 2
  NoBlock = NoBlock
  Attempts = 2
  Rounds = 2
  ConnIds = {c1}
  MaxAnswers = 2
  Addrs = {a1}
  NoId = NoId
INVARIANTS
  TypeOK
  OwnConnection
  NoPeersFromUdp
  NothingLeftIsTrue
  NoWrapWithoutRepeat
PROPERTIES
  CancelEndsTracker
CHECK_DEADLOCK FALSE
