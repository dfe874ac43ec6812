SPECIFICATION Spec
CONSTANTS
  p1 = p1
  p2 = p2
  q1 = q1
  NoMsg = NoMsg
  NoReq = NoReq
  Peers = {p1, p2}
  Interested = {p1, p2}
  Queues = {q1}
  QueueOf <- OneRound
  NumPieces = 3
  PieceUnits = 2
  LastUnits = 2
  BlockUnits = 3
  ReplyUnits = 1
  ChanCap = 1
  MaxDownload = 0
  WordBits = 1
SYMMETRY PeerSymmetry
INVARIANTS
  SingleHolder
  LongPiecesNeverMarked
  OneClaimEach
PROPERTIES
  ImplementsRequestPool
CHECK_DEADLOCK FALSE
