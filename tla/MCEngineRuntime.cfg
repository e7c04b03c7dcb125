SPECIFICATION FairSpec
CONSTANTS
  Order = {o1}
  Depositor = {d1, d2}
  OrderCapacity = 1
  BalanceCapacity = 2
  InitFunds = 1
  MaxFunds = 1
  MaxTimeouts = 1
  MaxCrashes = 1
CHECK_DEADLOCK FALSE
INVARIANTS TypeOK FundsAccounted LiveCommandsHaveCallers CancelIsFinal
PROPERTIES CallsReturn AcceptedOrdersTaken
