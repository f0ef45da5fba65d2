SPECIFICATION FairSpec
CONSTANTS
  c1 = c1
  c2 = c2
  w1 = w1
  e1 = e1
  noChar = noChar
  Chars <- MCChars
  WsHandlers <- MCWsHandlers
  SseHandlers <- MCSseHandlers
  NoChar <- noChar
  LateSend = {"raises"}
  MaxEvents = 2
CHECK_DEADLOCK FALSE
INVARIANTS
  SubscriptionsAccounted
  QueueIsRest
  OneCreator
  InactiveExplained
  CreatorHearsStart
PROPERTIES
  FeedRefinement
  EventsReachReaders
  GoneClientNoticed
