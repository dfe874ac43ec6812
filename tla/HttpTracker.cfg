SPECIFICATION Spec
CONSTANTS
  Half = 256
  Nil = Nil
  Torrents <- AllTorrents
  Responses <- AllResponses
  ValidIps <- Ips
  MaxPort = 50
  HashSize = 2
  Second = 10
  Minute = 7
INVARIANTS
  TypeOK
  ReadsWhatIsEncoded
  RawIsOwnBytes
  InfoHashOfFile
  NumbersExact
  PanicNeedsBadInput
  CompactRefused
  OneAddressPerEntry
CHECK_DEADLOCK FALSE
