SPECIFICATION Spec
CONSTANTS
  NameLength <- MCNameLength
  LoadOrders <- CoreOnly
  Lines <- MCLines
  Level = 0
  Life = 15
  RefreshAnswers = {"error"}
  MayRefuse = FALSE
  MayMisread = FALSE
  MaxClock = 16
  MaxWire = 1
CHECK_DEADLOCK FALSE
INVARIANT SessionOutlivesToken
