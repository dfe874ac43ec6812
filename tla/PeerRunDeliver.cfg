SPECIFICATION Spec
CONSTANTS
  p1 = p1
  p2 = p2
  q1 = q1
  NoMsg = NoMsg
  NoReq = NoReq
  Peers = {p1, p2}
  Interested = {p1}
  Queues = {q1}
  QueueOf <- OneRound
  NumPieces = 2
  PieceUnits = 2
  LastUnits = 1
  BlockUnits = 1
  ReplyUnits = 2
  ChanCap = 1
  MaxDownload = 3
  WordBits = 2
INVARIANTS
  TypeOK
  OnlyFirstPiece
  DownloadedOnDisk
  StoredPiecesMarked
  ShortLastNeverComplete
PROPERTIES
  ImplementsPieceStore
CHECK_DEADLOCK FALSE
