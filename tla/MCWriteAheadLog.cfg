SPECIFICATION Spec
CONSTANTS
  SyncInterval = 3
  BufferSize = 5
  QueueCapacity = 2
  MaxEntries = 4
  MaxFaults = 1
  MaxCrashes = 2
CHECK_DEADLOCK FALSE
INVARIANTS TypeOK FilesHoldRuns BoundedLoss
PROPERTIES SyncedStays ThreadEnds
