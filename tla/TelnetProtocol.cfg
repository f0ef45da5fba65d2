SPECIFICATION FairSpec
CONSTANTS
  Messages <- AllMessages
  GameItems <- AllItems
  MaxIn = 2
  MaxOut = 2
  MaxGame = 1
CHECK_DEADLOCK FALSE
INVARIANTS
  DisconnectOnce
  GameKnows
  LastWordsWritten
PROPERTIES
  NoLinkAfterShutdown
  ConnectionRefinement
