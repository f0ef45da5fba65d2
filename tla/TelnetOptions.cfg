SPECIFICATION Spec
CONSTANTS
  other = other
  Other = other
  Scenarios <- MCScenarios
CHECK_DEADLOCK FALSE
INVARIANTS
  OutputReadable
  InputReadable
  EndsAgree
  OffersSettle
  TerminalUnderstood
