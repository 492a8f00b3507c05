\* A client that comes and goes, resyncs, acknowledges and unsubscribes, or an
\* override and a failing read: what is delivered is still the feed.
CONSTANTS
  CommitShapes <- MixedShapes
  BatchSize = 1
  MaxPending = 2
  AnyAckOrder = FALSE
  MaxEvents = 3
  MaxOverrides = 1
  MaxNotices = 0
  MaxResends = 0
  MaxOutages = 0
  MaxConnections = 2
  MaxRequests = 2
  MaxReadFaults = 1
SPECIFICATION Spec
CONSTRAINT
  Apart
INVARIANTS
  TypeOK
  PointsAreComplete
  ClientNotRejected
PROPERTIES
  QuietAfterTheEnd
  ImplementsFeed
