SPECIFICATION Spec
CONSTANTS
  MaxOrders = 1
  QueueCapacity = 2
  BatchLimit = 3
  MaxRetries = 1
  MaxFaults = 0
CHECK_DEADLOCK FALSE
PROPERTIES CancelledStays
