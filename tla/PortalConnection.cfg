SPECIFICATION Spec
CONSTANTS
  NameLength <- MCNameLength
  LoadOrders <- MCLoadOrders
  Lines <- MCLines
  Level = 10
  Life = 7
  RefreshAnswers = {"token", "error", "fails"}
  MayRefuse = TRUE
  MayMisread = TRUE
  MaxClock = 12
  MaxWire = 1
CHECK_DEADLOCK FALSE
INVARIANTS
  TokenLive
  ParsersInOrder
  CrashExplained
  MenuTokenRefused
  ReachesSame
  ReplCanBeLeft
