SPECIFICATION FairSpec
CONSTANTS
  Trader = {t1, t2}
  MaxCommands = 2
  MaxEvents = 3
  MaxFaults = 1
CHECK_DEADLOCK FALSE
INVARIANTS TypeOK SnapshotsAgree AcknowledgedComeFirst
PROPERTIES NobodyWaitsForKafka
