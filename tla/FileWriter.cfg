SPECIFICATION FairSpec
CONSTANTS
  Paths = {1, 2, 3}
  Layouts <- AnyLayout
  MaxSize = 6
  MaxData = 4
  Overrun = 1
  NoCall = NoCall
  Empty = Empty
INVARIANTS
  TypeOK
  BytesInPlace
PROPERTIES
  ImplementsFlatDisk
  CallReturns
CHECK_DEADLOCK FALSE
