SPECIFICATION FeedSpec
CONSTANTS
  LastEvent = 3
  Limit = 2
CHECK_DEADLOCK FALSE
INVARIANTS
  EventsAllSeen
