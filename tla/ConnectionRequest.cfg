SPECIFICATION Spec
CONSTANTS
  Kinds = {"keepalive", "choke", "have", "piece"}
  Body <- BodyUnits
  Parsed <- ParsedUnits
  HandUnits = 2
  SizeUnits = 2
  MaxSize = 3
  MaxMsgs = 0
  Words = {0, 1, 2}
  Nothing = Nothing
INVARIANTS
  HeardAsSent
CHECK_DEADLOCK FALSE
