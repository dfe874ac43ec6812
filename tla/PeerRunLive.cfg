SPECIFICATION FairSpec
CONSTANTS
  p1 = p1
  p2 = p2
  q1 = q1
  NoMsg = NoMsg
  NoReq = NoReq
  Peers = {p1, p2}
  Interested = {p1}
  Queues = {q1}
  QueueOf <- OneRound
  NumPieces = 1
  PieceUnits = 1
  LastUnits = 1
  BlockUnits = 1
  ReplyUnits = 1
  ChanCap = 1
  MaxDownload = 0
  WordBits = 1
PROPERTIES
  CancelStopsPeers
  CompleteStopsUnchoked
  InterestedRequest
CHECK_DEADLOCK FALSE
