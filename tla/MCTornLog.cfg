SPECIFICATION Spec
CONSTANTS
  SyncInterval = 1
  BufferSize = 5
  QueueCapacity = 1
  MaxEntries = 1
  MaxFaults = 0
  MaxCrashes = 1
CHECK_DEADLOCK FALSE
INVARIANT CrashLeavesReadable
