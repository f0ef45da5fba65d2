SPECIFICATION Spec
CONSTANTS
  Messages <- ParsedMessages
  GameItems <- AllItems
  MaxIn = 2
  MaxOut = 3
  MaxGame = 1
CHECK_DEADLOCK FALSE
INVARIANT GmcpSurvived
