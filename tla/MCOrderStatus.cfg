SPECIFICATION FairSpec
CONSTANTS
  MaxOrders = 2
  QueueCapacity = 2
  BatchLimit = 3
  MaxRetries = 1
  MaxFaults = 2
CHECK_DEADLOCK FALSE
INVARIANTS TypeOK
PROPERTIES ImplementsStatusStore FilledStaysFilled StatusRecorded WriterStops
