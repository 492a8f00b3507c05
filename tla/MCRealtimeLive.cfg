\* One connection under fairness: notifications lost in an outage, sent twice,
\* and a read that fails; the catch-up timer repairs what they miss.
CONSTANTS
  CommitShapes <- VisibleShapes
  BatchSize = 1
  MaxPending = 3
  AnyAckOrder = FALSE
  MaxEvents = 3
  MaxOverrides = 0
  MaxNotices = 2
  MaxResends = 1
  MaxOutages = 1
  MaxConnections = 1
  MaxRequests = 0
  MaxReadFaults = 1
SPECIFICATION FairSpec
PROPERTIES
  SubscriberCatchesUp
