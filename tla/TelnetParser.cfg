SPECIFICATION Spec
CONSTANTS
  MaxPieces = 4
  Wires <- MCWires
  AppSize = 3
  SubSize = 8
CHECK_DEADLOCK FALSE
INVARIANTS
  EventsAsSent
  OverflowIsOneRead
