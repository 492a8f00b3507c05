\* An override, and then an event: the subscriber of the game is to hear it.
CONSTANTS
  CommitShapes <- OneShape
  BatchSize = 1
  MaxPending = 2
  AnyAckOrder = FALSE
  MaxEvents = 2
  MaxOverrides = 1
  MaxNotices = 0
  MaxResends = 0
  MaxOutages = 0
  MaxConnections = 1
  MaxRequests = 0
  MaxReadFaults = 0
SPECIFICATION FairSpec
PROPERTIES
  SubscriberCatchesUp
