SPECIFICATION Spec
CONSTANTS
  Kinds = {"keepalive", "choke", "have", "piece"}
  Body <- BodyUnits
  Parsed <- ParsedUnits
  HandUnits = 2
  SizeUnits = 2
  MaxSize = 3
  MaxMsgs = 3
  Words = {0}
  Nothing = Nothing
INVARIANTS
  TypeOK
  InOrderUntilCut
  PanicNeedsCut
CHECK_DEADLOCK FALSE
